------------------------------ MODULE UdpCalls ------------------------------
(***************************************************************************)
(* One udp.Service calling one udp.Server over an unreliable network.      *)
(***************************************************************************)
EXTENDS UdpService, UdpServer

vars == <<netVars, serviceVars, serverVars>>

Init == NetInit /\ ServiceInit /\ ServerInit

Next == \/ ServiceNext /\ UNCHANGED serverVars
        \/ ServerNext /\ UNCHANGED serviceVars

\* Goroutines that hold the processor run on, timers expire and closed
\* sockets report it.  The application, the network and the server's handlers
\* owe nothing.
Fairness ==
    /\ \A x \in Senders : WF_vars(NextSession(x) /\ UNCHANGED serverVars)
    /\ \A c \in Calls :
         /\ WF_vars(Register(c) /\ UNCHANGED serverVars)
         /\ WF_vars((Send(c) \/ SendFails(c)) /\ UNCHANGED serverVars)
         /\ WF_vars(GiveUp(c) /\ UNCHANGED serverVars)
         /\ WF_vars(Cleanup(c) /\ UNCHANGED serverVars)
    /\ \A p \in Posts : WF_vars(PostStep(p) /\ UNCHANGED serverVars)
    /\ WF_vars((ReadFails \/ Lookup \/ Deliver) /\ UNCHANGED serverVars)
    /\ WF_vars((CloseSocket \/ CloseReturn) /\ UNCHANGED serverVars)

Spec == Init /\ [][Next]_vars

FairSpec == Spec /\ Fairness

TypeOK == NetTypeOK /\ ServiceTypeOK /\ ServerTypeOK

-----------------------------------------------------------------------------
(***************************************************************************)
(* The inductive invariant behind the theorems of UdpCallsProofs.          *)
(***************************************************************************)
\* x has been given its SessionID.
Numbered(x) == pc[x] \notin {"idle", "admitted"} /\ result[x] # "ErrClosed"

\* Only the closed check refuses an operation.
RefusalInv == \A x \in Senders : result[x] = "ErrClosed" => pc[x] = "returned"

\* A slot of the pending map belongs to a call of that very number.
SlotInv ==
    \A s \in Sessions : pending[s] # NoCall =>
        /\ session[pending[s]] = s
        /\ pc[pending[s]] \in {"pending", "waiting", "leaving"}

\* The call the read loop is about to hand its frame to has the frame's number,
\* even if the slot has changed hands since the lookup.
ReaderInv ==
    readerPc = "deliver" => /\ target \in Calls /\ Numbered(target)
                            /\ frame.session = session[target]

ChannelInv ==
    \A c \in Calls : \A m \in {replyCh[c], got[c]} :
        m # NoReply => Numbered(c) /\ m.session = session[c]

\* Before the counter wraps, numbers are issued once.
NumberInv ==
    ~wrapped =>
        /\ \A x \in Senders : Numbered(x) => session[x] \in 1..sessionID
        /\ \A x, y \in Senders : Numbered(x) /\ Numbered(y) /\ x # y => session[x] # session[y]

\* No other operation of the service has been given c's number.
Sole(c) == \A x \in Senders \ {c} : Numbered(x) => session[x] # session[c]

\* A registered call whose number is its own owns its slot.
OwnerInv ==
    \A c \in Calls :
        pc[c] \in {"pending", "waiting", "leaving"} /\ Sole(c) => pending[session[c]] = c

\* What travels or is being worked on bears the number of its operation.
FrameInv ==
    /\ \A r \in requests \cup replies \cup {j.req : j \in jobs} :
           Numbered(r.of) /\ r.session = session[r.of]
    /\ frame \in replies \cup {NoReply}
    /\ \A c \in Calls : {replyCh[c], got[c]} \subseteq replies \cup {NoReply}

\* What the server answers, and when it may say that a handler ran.
AnswerInv ==
    /\ \A r \in replies : r.of \notin Posts /\ (r.code # "UnknownMethod" => r.of \in ran)
    /\ \A j \in jobs : j.at = "reply" =>
           j.req.of \notin Posts /\ (j.code # "UnknownMethod" => j.req.of \in ran)

IInv == /\ RefusalInv /\ SlotInv /\ ReaderInv /\ ChannelInv
        /\ NumberInv /\ OwnerInv /\ FrameInv /\ AnswerInv

-----------------------------------------------------------------------------
\* A call only ever returns a message that bears its own SessionID, however
\* often the uint16 counter has wrapped and however the pending map's entries
\* were overwritten or deleted by other calls (dispatchFrame releases svc.mu
\* between its lookup and its send).
SessionMatch == \A c \in Calls : got[c] # NoReply => got[c].session = session[c]

\* The number of a call is its own until the counter wraps, and for as long as no
\* other operation is given it again.
OwnNumber(c) == ~wrapped \/ Sole(c)

\* The message a call returns answers that call's own request as long as its
\* number is its own: late and duplicated responses to other calls never reach it.
Correlated == \A c \in Calls : got[c] # NoReply /\ OwnNumber(c) => got[c].of = c

\* svc.pending holds no channel of a call that has returned: the deferred
\* delete leaks nothing, even when another call has taken over the slot.
NoStrayEntry ==
    \A s \in Sessions : pending[s] # NoCall =>
        pc[pending[s]] \in {"pending", "waiting", "leaving"}

\* As long as its number is its own, a call blocked in its select can still be
\* reached by the response to its request: no other call's registration or
\* deferred delete has touched its entry.
WaiterReachable ==
    \A c \in Calls : pc[c] = "waiting" /\ OwnNumber(c) => pending[session[c]] = c

\* A call that returns the handler's own verdict was executed: the response is
\* not one to an earlier or a concurrent request (while its number is its own).
AnswerWasExecuted ==
    \A c \in Calls : got[c].code \in {"OK", "NotOK"} /\ OwnNumber(c) => c \in ran

\* A RequestNoReturn is never answered: no response to a Post is ever sent,
\* whether or not its method has a handler (handleFrame's early return).
PostsUnanswered == \A r \in replies : r.of \notin Posts

\* Two calls in flight never share a SessionID (the package comment of udp.go).
UniqueSessions ==
    \A c, d \in Calls :
        /\ c # d
        /\ {pc[c], pc[d]} \subseteq {"pending", "waiting"}
        => session[c] # session[d]

\* Once Server.Close has returned, no handler of the server starts any more.
NoHandlerAfterClose == [][srvClose = "returned" => ran' = ran]_vars

\* Once Service.Close has returned, the read loop hands nothing to any call.
CloseQuiet ==
    [][closePc = "returned" => \A c \in Calls : replyCh'[c] \in {replyCh[c], NoReply}]_vars

\* Every Call that passes the closed check returns, without any help from the
\* server, the network or a concurrent Close (SG-004's bounded deadline).
CallReturns == \A c \in Calls : (pc[c] = "admitted") ~> (pc[c] = "returned")

\* Service.Close returns: the read loop notices the closed socket.
CloseReturns == (closePc = "closing") ~> (closePc = "returned")

-----------------------------------------------------------------------------
Phase(c) == CASE pc[c] = "idle" -> "idle"
              [] pc[c] = "returned" -> "done"
              [] OTHER -> "open"

Returned(c) == IF result[c] = "answer" THEN got[c].code ELSE result[c]

Verdict(c) == IF pc[c] = "returned" THEN Returned(c) ELSE "none"

Promise == INSTANCE CallPromise WITH
    phase <- [c \in Calls |-> Phase(c)],
    verdict <- [c \in Calls |-> Verdict(c)],
    executed <- ran \cap Calls

\* The transport keeps the contract of someip.Service.Call as long as the
\* session counter does not wrap.
KeepsPromise == Promise!Spec
=============================================================================
