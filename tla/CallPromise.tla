----------------------------- MODULE CallPromise ----------------------------
(***************************************************************************)
(* What someip.Service.Call promises its callers, whatever the transport   *)
(* (src/someip.go): every call that is accepted returns; it returns either *)
(* a local error or the server's verdict on this very call; and it is not  *)
(* told that its handler ran unless the handler ran for it.                *)
(***************************************************************************)
EXTENDS Naturals

CONSTANT Calls

VARIABLES
    phase,    \* "idle", "open" (accepted, not yet returned) or "done"
    verdict,  \* what the call returned
    executed  \* the calls whose handler has run

vars == <<phase, verdict, executed>>

\* The handler's answer; the outcomes that need no execution.
Executions == {"OK", "NotOK"}
Failures == {"UnknownMethod", "WrongInterface", "failed"}

Init == /\ phase = [c \in Calls |-> "idle"]
        /\ verdict = [c \in Calls |-> "none"]
        /\ executed = {}

\* A call is accepted, or refused because the service is closed.
Open(c) == /\ phase[c] = "idle"
           /\ phase' = [phase EXCEPT ![c] = "open"]
           /\ UNCHANGED <<verdict, executed>>

Refuse(c) == /\ phase[c] = "idle"
             /\ phase' = [phase EXCEPT ![c] = "done"]
             /\ verdict' = [verdict EXCEPT ![c] = "ErrClosed"]
             /\ UNCHANGED executed

\* The handler may run as soon as the call is open, even after it gave up.
Execute(c) == /\ phase[c] # "idle" /\ verdict[c] # "ErrClosed"
              /\ executed' = executed \cup {c}
              /\ UNCHANGED <<phase, verdict>>

Return(c, v) == /\ phase[c] = "open"
                /\ v \in Executions => c \in executed
                /\ phase' = [phase EXCEPT ![c] = "done"]
                /\ verdict' = [verdict EXCEPT ![c] = v]
                /\ UNCHANGED executed

Finish(c) == \E v \in Executions \cup Failures : Return(c, v)

Next == \E c \in Calls : Open(c) \/ Refuse(c) \/ Execute(c) \/ Finish(c)

Spec == Init /\ [][Next]_vars /\ \A c \in Calls : WF_vars(Finish(c))
=============================================================================
