----------------------------- MODULE UdpServer ------------------------------
(***************************************************************************)
(* The request half of udp.Server (src/udp/udp.go): the read loop, the     *)
(* goroutine it starts for every datagram, RegisterMethod and Close.       *)
(* Event subscriptions, which arrive on the same socket, are UdpEvents.    *)
(***************************************************************************)
EXTENDS UdpFrames

CONSTANTS
    MaxJobs,      \* bound on concurrent handleFrame goroutines; none in the code
    HandlerCodes  \* how handlers may end: "OK" and "NotOK" in the code

ASSUME JobAssumption == MaxJobs \in Nat

ASSUME HandlerAssumption == HandlerCodes \subseteq {"OK", "NotOK"}

VARIABLES
    handlers,    \* s.handlers: the methods that have one
    registering, \* RegisterMethod calls past the closed check
    srvReader,   \* where readLoop is
    srvClose,    \* where the Close that won the CompareAndSwap is
    jobs,        \* the handleFrame goroutines (identical ones merge)
    ran          \* history: the operations whose handler has run

serverVars == <<handlers, registering, srvReader, srvClose, jobs, ran>>

\* A goroutine: the request it holds, its next step and, once it is known,
\* the code it will answer.
Job == [req : Request, at : {"lookup", "run"}, code : {"None"}]
         \cup [req : Request, at : {"reply"}, code : Codes]

ServerTypeOK ==
    /\ handlers \subseteq Methods
    /\ registering \subseteq Methods
    /\ srvReader \in {"read", "exited"}
    /\ srvClose \in {"open", "closing", "draining", "returned"}
    /\ jobs \subseteq Job
    /\ ran \subseteq Senders

ServerInit ==
    /\ handlers = {}
    /\ registering = {}
    /\ srvReader = "read"
    /\ srvClose = "open"
    /\ jobs = {}
    /\ ran = {}

SrvSocketOpen == srvClose \in {"open", "closing"}

\* Mutation: the RequestNoReturn branch of handleFrame is missing.
NeverPost(q) == FALSE

\* msg.MessageType == MsgTypeRequestNoReturn.
IsPost(q) == q.of \in Posts

-----------------------------------------------------------------------------
\* RegisterMethod: the closed check, then the assignment under s.mu.
RegisterAdmit(m) ==
    /\ srvClose = "open"
    /\ registering' = registering \cup {m}
    /\ UNCHANGED <<handlers, srvReader, srvClose, jobs, ran, netVars>>

RegisterStore(m) ==
    /\ m \in registering
    /\ registering' = registering \ {m}
    /\ handlers' = handlers \cup {m}
    /\ UNCHANGED <<srvReader, srvClose, jobs, ran, netVars>>

\* readLoop: one goroutine per datagram received.
ServerRead ==
    /\ srvReader = "read"
    /\ SrvSocketOpen
    /\ Cardinality(jobs) < MaxJobs
    /\ \E q \in requests :
         jobs' = jobs \cup {[req |-> q, at |-> "lookup", code |-> "None"]}
    /\ UNCHANGED <<handlers, registering, srvReader, srvClose, ran, netVars>>

ServerReadFails ==
    /\ srvReader = "read"
    /\ ~SrvSocketOpen
    /\ srvReader' = "exited"
    /\ UNCHANGED <<handlers, registering, srvClose, jobs, ran, netVars>>

Advance(j, at, code) ==
    jobs' = (jobs \ {j}) \cup {[req |-> j.req, at |-> at, code |-> code]}

HandlerFound(q) == MethodOf[q.of] \in handlers

\* Mutation: the ReturnCode is left at its zero value, RetOK.
MissingCodeUnset == "OK"

MissingCode == "UnknownMethod"

\* handler, ok := s.handlers[msg.MethodID] and what follows from ok.
JobLookup(j) ==
    /\ j.at = "lookup"
    /\ \/ HandlerFound(j.req) /\ Advance(j, "run", "None")
       \/ ~HandlerFound(j.req) /\ IsPost(j.req) /\ jobs' = jobs \ {j}
       \/ ~HandlerFound(j.req) /\ ~IsPost(j.req) /\ Advance(j, "reply", MissingCode)
    /\ UNCHANGED <<handlers, registering, srvReader, srvClose, ran, netVars>>

\* The handler runs and returns a payload or an error; a RequestNoReturn
\* ends here.
JobRun(j) ==
    /\ j.at = "run"
    /\ ran' = ran \cup {j.req.of}
    /\ IF IsPost(j.req) THEN jobs' = jobs \ {j}
                        ELSE \E code \in HandlerCodes : Advance(j, "reply", code)
    /\ UNCHANGED <<handlers, registering, srvReader, srvClose, netVars>>

\* The response carries the request's SessionID back.
ReplyTo(q, code) == [session |-> q.session, of |-> q.of, code |-> code]

\* WriteToUDP, whose error is ignored.
JobReply(j) ==
    /\ j.at = "reply"
    /\ jobs' = jobs \ {j}
    /\ IF SrvSocketOpen THEN replies' = replies \cup {ReplyTo(j.req, j.code)}
                        ELSE UNCHANGED replies
    /\ UNCHANGED <<handlers, registering, srvReader, srvClose, ran, requests>>

\* Server.Close; svc.wg counts the read loop, not the handler goroutines.
ServerCloseBegin ==
    /\ "server" \in Closers
    /\ srvClose = "open"
    /\ srvClose' = "closing"
    /\ UNCHANGED <<handlers, registering, srvReader, jobs, ran, netVars>>

ServerCloseSocket ==
    /\ srvClose = "closing"
    /\ srvClose' = "draining"
    /\ UNCHANGED <<handlers, registering, srvReader, jobs, ran, netVars>>

ServerCloseReturn ==
    /\ srvClose = "draining"
    /\ srvReader = "exited"
    /\ srvClose' = "returned"
    /\ UNCHANGED <<handlers, registering, srvReader, jobs, ran, netVars>>

-----------------------------------------------------------------------------
MethodStep(m) == RegisterAdmit(m) \/ RegisterStore(m)

JobStep(j) == JobLookup(j) \/ JobRun(j) \/ JobReply(j)

ServerCloseStep == ServerCloseBegin \/ ServerCloseSocket \/ ServerCloseReturn

ServerNext == \/ \E m \in Methods : MethodStep(m)
              \/ ServerRead \/ ServerReadFails
              \/ \E j \in jobs : JobStep(j)
              \/ ServerCloseStep
=============================================================================
