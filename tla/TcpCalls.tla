------------------------------ MODULE TcpCalls ------------------------------
(***************************************************************************)
(* One tcp.Service calling one tcp.Server over their single connection     *)
(* (src/tcp/tcp.go).                                                       *)
(*                                                                         *)
(* The connection carries frames in order and once each, until one end     *)
(* closes it or the network severs it.  Then what is still under way may   *)
(* be lost, and a write that follows may still seem to succeed.  Either    *)
(* direction takes Window frames ahead of its reader; a write that finds   *)
(* no room waits, without a deadline.  Emit and Subscribe do nothing over  *)
(* TCP and are left out.                                                   *)
(***************************************************************************)
EXTENDS Naturals, FiniteSets, SequencesExt

CONSTANTS
    Calls,       \* the Service.Call invocations
    Posts,       \* the Service.CallNoReturn invocations
    NoCall,      \* what a lookup in an empty slot of the pending map yields
    MaxSession,  \* largest SessionID: 65535 in the code
    Window,      \* frames one direction of the connection takes ahead of its reader
    Methods,     \* the method IDs of the service
    MethodOf,    \* the method each operation addresses
    Interfaces,  \* the values ServerConfig.InterfaceVersion may have
    Severs,      \* whether the network may sever the connection
    Closers      \* the ends the application may close: "service", "server"

Senders == Calls \cup Posts
Sessions == 0..MaxSession

ASSUME SenderAssumption == Calls \cap Posts = {} /\ NoCall \notin Senders
ASSUME SessionAssumption == MaxSession \in Nat \ {0}
ASSUME WindowAssumption == Window \in Nat \ {0}
ASSUME MethodAssumption == MethodOf \in [Senders -> Methods] /\ Interfaces \subseteq Nat

Codes == {"OK", "NotOK", "UnknownMethod", "WrongInterface"}

\* "of" is a history field; the request's method and type follow from it.
Request == [session : Sessions, of : Senders]
Reply == [session : Sessions, of : Senders, code : Codes]
NoReply == [session |-> 0, of |-> NoCall, code |-> "None"]

VARIABLES
    \* the connection
    severed,     \* the network has cut it
    toServer,    \* frames on their way to the server
    toClient,    \* frames on their way to the service
    \* the service
    sessionID,   \* svc.sessionID
    wrapped,     \* history: it has overflowed
    pending,     \* svc.pending
    pc,          \* where each operation is
    session,     \* the sessionID local of each operation
    replyCh,     \* the capacity-1 channel of each Call
    result,      \* how each operation returned
    got,         \* the message a Call returned
    lateAt,      \* history: operations begun after the read loop lost the connection
    readerPc,    \* where readLoop is
    frame,       \* the message it holds
    target,      \* the call whose channel it looked up
    closePc,     \* where Service.Close is
    \* the server
    interface,   \* s.cfg.InterfaceVersion
    handlers,    \* s.handlers
    registering, \* RegisterMethod calls past the closed check
    acceptPc,    \* where acceptLoop is
    servePc,     \* the connection's serveConn; "backlog" before it is accepted
    jobs,        \* the handleMessage goroutines
    ran,         \* history: the operations whose handler has run
    srvClose     \* where Server.Close is

netVars == <<severed, toServer, toClient>>
callVars == <<pc, session, replyCh, result, got, lateAt>>
readerVars == <<readerPc, frame, target>>
serviceVars == <<sessionID, wrapped, pending, callVars, readerVars, closePc>>
methodVars == <<interface, handlers, registering>>
loopVars == <<acceptPc, servePc, srvClose>>
serverVars == <<methodVars, loopVars, jobs, ran>>
vars == <<netVars, serviceVars, serverVars>>

Job == [req : Request, at : {"lookup", "run"}, code : {"None"}]
         \cup [req : Request, at : {"reply"}, code : Codes]

NetTypeOK == severed \in BOOLEAN /\ toServer \in Seq(Request) /\ toClient \in Seq(Reply)

ServiceTypeOK ==
    /\ sessionID \in Sessions /\ wrapped \in BOOLEAN
    /\ pending \in [Sessions -> Calls \cup {NoCall}]
    /\ pc \in [Senders -> {"idle", "admitted", "numbered", "pending", "waiting", "leaving", "returned"}]
    /\ session \in [Senders -> Sessions]
    /\ replyCh \in [Calls -> Reply \cup {NoReply}] /\ got \in [Calls -> Reply \cup {NoReply}]
    /\ result \in [Senders -> {"none", "answer", "sent", "sendError", "gaveUp", "ErrClosed"}]
    /\ lateAt \subseteq Senders
    /\ readerPc \in {"read", "dispatch", "deliver", "exited"}
    /\ frame \in Reply \cup {NoReply} /\ target \in Calls \cup {NoCall}
    /\ closePc \in {"open", "closing", "draining", "returned"}

ServerTypeOK ==
    /\ interface \in Interfaces /\ handlers \subseteq Methods /\ registering \subseteq Methods
    /\ acceptPc \in {"accept", "exited"} /\ servePc \in {"backlog", "read", "exited"}
    /\ jobs \subseteq Job /\ ran \subseteq Senders
    /\ srvClose \in {"open", "closing", "draining", "returned"}

TypeOK == NetTypeOK /\ ServiceTypeOK /\ ServerTypeOK

\* NewService has dialled; the server has not accepted yet.
Init ==
    /\ severed = FALSE /\ toServer = <<>> /\ toClient = <<>>
    /\ sessionID = 0 /\ wrapped = FALSE
    /\ pending = [s \in Sessions |-> NoCall]
    /\ pc = [x \in Senders |-> "idle"]
    /\ session = [x \in Senders |-> 0]
    /\ replyCh = [c \in Calls |-> NoReply] /\ got = [c \in Calls |-> NoReply]
    /\ result = [x \in Senders |-> "none"] /\ lateAt = {}
    /\ readerPc = "read" /\ frame = NoReply /\ target = NoCall
    /\ closePc = "open"
    /\ interface \in Interfaces /\ handlers = {} /\ registering = {}
    /\ acceptPc = "accept" /\ servePc = "backlog"
    /\ jobs = {} /\ ran = {}
    /\ srvClose = "open"

-----------------------------------------------------------------------------
Closed == closePc # "open"
ConnOpen == closePc \in {"open", "closing"}
Connected == ConnOpen /\ ~severed /\ servePc # "exited"

Goto(x, from, to) == pc[x] = from /\ pc' = [pc EXCEPT ![x] = to]

Outcome(x, r) == result' = [result EXCEPT ![x] = r]

(***************************************************************************)
(* Service.Call and Service.CallNoReturn.                                  *)
(***************************************************************************)
Enter(x) ==
    /\ ~Closed /\ Goto(x, "idle", "admitted")
    /\ lateAt' = IF readerPc = "exited" THEN lateAt \cup {x} ELSE lateAt
    /\ UNCHANGED <<netVars, sessionID, wrapped, pending, session, replyCh, result, got, readerVars, closePc>>

EnterClosed(x) ==
    /\ Closed /\ Goto(x, "idle", "returned") /\ Outcome(x, "ErrClosed")
    /\ UNCHANGED <<netVars, sessionID, wrapped, pending, session, replyCh, got, lateAt, readerVars, closePc>>

\* Mutation of the increment: it is lost to a racing reader.
BumpLost(n) == n

\* sessionID++ on a uint16.
Bump(n) == IF n = MaxSession THEN 0 ELSE n + 1

NextSession(x) ==
    /\ Goto(x, "admitted", "numbered")
    /\ sessionID' = Bump(sessionID)
    /\ session' = [session EXCEPT ![x] = Bump(sessionID)]
    /\ wrapped' = (wrapped \/ sessionID = MaxSession)
    /\ UNCHANGED <<netVars, pending, replyCh, result, got, lateAt, readerVars, closePc>>

\* Mutation: the map is indexed with the counter, not with the call's local.
CurrentKey(c) == sessionID

\* The key under which a call files and removes its channel.
PendingKey(c) == session[c]

Register(c) ==
    /\ Goto(c, "numbered", "pending")
    /\ pending' = [pending EXCEPT ![PendingKey(c)] = c]
    /\ UNCHANGED <<netVars, sessionID, wrapped, session, replyCh, result, got, lateAt, readerVars, closePc>>

\* conn.Write of either end: it waits for room.  A write on a connection that the
\* other end or the network has given up may succeed, and nobody reads it.
Put(stream, r) == IF Connected THEN Len(stream) < Window /\ stream' = Append(stream, r)
                               ELSE UNCHANGED stream

\* Neither ctx nor the deadline, which is set after the write, ends the wait.
Write(x) == ConnOpen /\ Put(toServer, [session |-> session[x], of |-> x])

\* conn.Write has failed.
Broken == ~Connected

Send(c) ==
    /\ Goto(c, "pending", "waiting") /\ Write(c)
    /\ UNCHANGED <<severed, toClient, sessionID, wrapped, pending, session, replyCh, result, got, lateAt, readerVars, closePc>>

SendFails(c) ==
    /\ Broken /\ Goto(c, "pending", "leaving") /\ Outcome(c, "sendError")
    /\ UNCHANGED <<netVars, sessionID, wrapped, pending, session, replyCh, got, lateAt, readerVars, closePc>>

Answer(c) ==
    /\ replyCh[c] # NoReply /\ Goto(c, "waiting", "leaving")
    /\ got' = [got EXCEPT ![c] = replyCh[c]]
    /\ replyCh' = [replyCh EXCEPT ![c] = NoReply]
    /\ Outcome(c, "answer")
    /\ UNCHANGED <<netVars, sessionID, wrapped, pending, session, lateAt, readerVars, closePc>>

\* deadline.C or ctx.Done().
GiveUp(c) ==
    /\ Goto(c, "waiting", "leaving") /\ Outcome(c, "gaveUp")
    /\ UNCHANGED <<netVars, sessionID, wrapped, pending, session, replyCh, got, lateAt, readerVars, closePc>>

Cleanup(c) ==
    /\ Goto(c, "leaving", "returned") /\ pending' = [pending EXCEPT ![PendingKey(c)] = NoCall]
    /\ UNCHANGED <<netVars, sessionID, wrapped, session, replyCh, result, got, lateAt, readerVars, closePc>>

Post(p) ==
    /\ Goto(p, "numbered", "returned") /\ Write(p) /\ Outcome(p, "sent")
    /\ UNCHANGED <<severed, toClient, sessionID, wrapped, pending, session, replyCh, got, lateAt, readerVars, closePc>>

PostFails(p) ==
    /\ Broken /\ Goto(p, "numbered", "returned") /\ Outcome(p, "sendError")
    /\ UNCHANGED <<netVars, sessionID, wrapped, pending, session, replyCh, got, lateAt, readerVars, closePc>>

(***************************************************************************)
(* The service's readLoop.                                                 *)
(***************************************************************************)
Read ==
    /\ readerPc = "read" /\ ConnOpen /\ toClient # <<>>
    /\ frame' = Head(toClient) /\ toClient' = Tail(toClient)
    /\ readerPc' = "dispatch"
    /\ UNCHANGED <<severed, toServer, sessionID, wrapped, pending, callVars, target, closePc>>

\* Mutation: read errors are retried.
ReadRetries == FALSE

\* readLoop returns at the first error; svc.closed stays as it is.
ReadFails ==
    /\ readerPc = "read" /\ ~Connected
    /\ readerPc' = "exited" /\ toClient' = <<>>
    /\ UNCHANGED <<severed, toServer, sessionID, wrapped, pending, callVars, frame, target, closePc>>

Lookup ==
    /\ readerPc = "dispatch"
    /\ target' = pending[frame.session]
    /\ IF target' = NoCall THEN readerPc' = "read" /\ frame' = NoReply
                           ELSE readerPc' = "deliver" /\ UNCHANGED frame
    /\ UNCHANGED <<netVars, sessionID, wrapped, pending, callVars, closePc>>

\* A send that would block on the capacity-1 channel drops the message.
Deliver ==
    /\ readerPc = "deliver"
    /\ replyCh' = [replyCh EXCEPT ![target] = IF @ = NoReply THEN frame ELSE @]
    /\ readerPc' = "read" /\ frame' = NoReply /\ target' = NoCall
    /\ UNCHANGED <<netVars, sessionID, wrapped, pending, pc, session, result, got, lateAt, closePc>>

(***************************************************************************)
(* Service.Close.                                                          *)
(***************************************************************************)
CloseBegin ==
    /\ "service" \in Closers /\ closePc = "open" /\ closePc' = "closing"
    /\ UNCHANGED <<netVars, sessionID, wrapped, pending, callVars, readerVars>>

CloseConn ==
    /\ closePc = "closing" /\ closePc' = "draining"
    /\ UNCHANGED <<netVars, sessionID, wrapped, pending, callVars, readerVars>>

CloseReturn ==
    /\ closePc = "draining" /\ readerPc = "exited" /\ closePc' = "returned"
    /\ UNCHANGED <<netVars, sessionID, wrapped, pending, callVars, readerVars>>

ReaderStep == ReadFails \/ Lookup \/ Deliver
CallStep(c) == Register(c) \/ Send(c) \/ SendFails(c) \/ GiveUp(c) \/ Cleanup(c)
PostStep(p) == Post(p) \/ PostFails(p)

ServiceNext == \/ \E x \in Senders : Enter(x) \/ EnterClosed(x) \/ NextSession(x)
               \/ \E c \in Calls : CallStep(c) \/ Answer(c)
               \/ \E p \in Posts : PostStep(p)
               \/ Read \/ ReaderStep
               \/ CloseBegin \/ CloseConn \/ CloseReturn

-----------------------------------------------------------------------------
(***************************************************************************)
(* The server: RegisterMethod, acceptLoop, serveConn, handleMessage, Close.*)
(***************************************************************************)
RegisterAdmit(m) ==
    /\ srvClose = "open"
    /\ registering' = registering \cup {m}
    /\ UNCHANGED <<netVars, interface, handlers, loopVars, jobs, ran>>

RegisterStore(m) ==
    /\ m \in registering
    /\ registering' = registering \ {m} /\ handlers' = handlers \cup {m}
    /\ UNCHANGED <<netVars, interface, loopVars, jobs, ran>>

ListenerOpen == srvClose \in {"open", "closing"}

Accept ==
    /\ acceptPc = "accept" /\ ListenerOpen
    /\ servePc = "backlog" /\ servePc' = "read"
    /\ UNCHANGED <<netVars, methodVars, acceptPc, srvClose, jobs, ran>>

\* Accept fails on the closed listener, and s.closed is set by then.
AcceptFails ==
    /\ acceptPc = "accept" /\ ~ListenerOpen
    /\ acceptPc' = "exited"
    /\ UNCHANGED <<netVars, methodVars, servePc, srvClose, jobs, ran>>

\* One goroutine for every frame.
Serve ==
    /\ servePc = "read" /\ toServer # <<>>
    /\ jobs' = jobs \cup {[req |-> Head(toServer), at |-> "lookup", code |-> "None"]}
    /\ toServer' = Tail(toServer)
    /\ UNCHANGED <<severed, toClient, methodVars, loopVars, ran>>

\* Mutation: serveConn reads on after an error.
ServeRetries == FALSE

\* The service has closed its end (what it wrote may be lost with a reset), or
\* the connection is cut.
ConnEnded == ~ConnOpen \/ severed

\* serveConn returns and closes the connection.
ServeFails ==
    /\ servePc = "read" /\ ConnEnded
    /\ servePc' = "exited" /\ toServer' = <<>>
    /\ UNCHANGED <<severed, toClient, methodVars, acceptPc, srvClose, jobs, ran>>

Advance(j, at, code) == jobs' = (jobs \ {j}) \cup {[req |-> j.req, at |-> at, code |-> code]}

IsPost(q) == q.of \in Posts

\* The service sends InterfaceVersion 0, always.
WrongInterface == interface # 0

HandlerFound(q) == MethodOf[q.of] \in handlers

\* Mutation: the ReturnCode of a refusal is left at its zero value, RetOK.
RefuseUnset(q) == {"OK"}

\* The code with which a request is refused before any handler runs.
Refusal(q) == IF WrongInterface THEN {"WrongInterface"}
              ELSE IF ~HandlerFound(q) THEN {"UnknownMethod"} ELSE {}

\* Mutation: the return after the WrongInterface answer is missing.
JobFallsThrough(j) ==
    /\ j.at = "lookup" /\ HandlerFound(j.req)
    /\ Advance(j, "run", "None")
    /\ IF WrongInterface THEN Put(toClient, [session |-> j.req.session, of |-> j.req.of, code |-> "WrongInterface"])
                         ELSE UNCHANGED toClient
    /\ UNCHANGED <<severed, toServer, methodVars, loopVars, ran>>

JobLookup(j) ==
    /\ j.at = "lookup"
    /\ \/ ~WrongInterface /\ HandlerFound(j.req) /\ Advance(j, "run", "None")
       \/ (WrongInterface \/ ~HandlerFound(j.req)) /\
          IF IsPost(j.req) THEN jobs' = jobs \ {j}
                           ELSE \E code \in Refusal(j.req) : Advance(j, "reply", code)
    /\ UNCHANGED <<netVars, methodVars, loopVars, ran>>

JobRun(j) ==
    /\ j.at = "run"
    /\ ran' = ran \cup {j.req.of}
    /\ IF IsPost(j.req) THEN jobs' = jobs \ {j}
                        ELSE \E code \in {"OK", "NotOK"} : Advance(j, "reply", code)
    /\ UNCHANGED <<netVars, methodVars, loopVars>>

\* conn.Write; its error is ignored.
JobReply(j) ==
    /\ j.at = "reply" /\ jobs' = jobs \ {j}
    /\ Put(toClient, [session |-> j.req.session, of |-> j.req.of, code |-> j.code])
    /\ UNCHANGED <<severed, toServer, methodVars, loopVars, ran>>

SrvCloseBegin ==
    /\ "server" \in Closers /\ srvClose = "open" /\ srvClose' = "closing"
    /\ UNCHANGED <<netVars, methodVars, acceptPc, servePc, jobs, ran>>

\* ln.Close; a connection nobody has accepted is reset.
SrvCloseListener ==
    /\ srvClose = "closing" /\ srvClose' = "draining"
    /\ severed' = (severed \/ servePc = "backlog")
    /\ UNCHANGED <<toServer, toClient, methodVars, acceptPc, servePc, jobs, ran>>

\* Mutation: Close waits for acceptLoop alone.
AcceptDone == acceptPc = "exited"

\* s.wg counts acceptLoop and serveConn, not the handlers.
LoopsDone == acceptPc = "exited" /\ servePc # "read"

SrvCloseReturn ==
    /\ srvClose = "draining" /\ LoopsDone /\ srvClose' = "returned"
    /\ UNCHANGED <<netVars, methodVars, acceptPc, servePc, jobs, ran>>

ServerNext == \/ \E m \in Methods : RegisterAdmit(m) \/ RegisterStore(m)
              \/ Accept \/ AcceptFails \/ Serve \/ ServeFails
              \/ SrvCloseBegin \/ SrvCloseListener \/ SrvCloseReturn
              \/ \E j \in jobs : JobLookup(j) \/ JobRun(j) \/ JobReply(j)

\* The network cuts the connection; both ends notice at their next read.
Sever ==
    /\ Severs /\ ~severed /\ severed' = TRUE
    /\ UNCHANGED <<toServer, toClient, serviceVars, serverVars>>

-----------------------------------------------------------------------------
Next == \/ ServiceNext /\ UNCHANGED serverVars
        \/ ServerNext /\ UNCHANGED serviceVars
        \/ Sever

Spec == Init /\ [][Next]_vars

\* Goroutines run on, timers expire, closed sockets report it; handlers, the
\* application and the network owe nothing, nor does a peer have to read.
Fairness ==
    /\ \A x \in Senders : WF_vars(NextSession(x) /\ UNCHANGED serverVars)
    /\ \A c \in Calls : WF_vars(CallStep(c) /\ UNCHANGED serverVars)
    /\ \A p \in Posts : WF_vars(PostStep(p) /\ UNCHANGED serverVars)
    /\ WF_vars(ReaderStep /\ UNCHANGED serverVars)
    /\ WF_vars((CloseConn \/ CloseReturn) /\ UNCHANGED serverVars)
    /\ WF_vars((Accept \/ AcceptFails) /\ UNCHANGED serviceVars)
    /\ WF_vars(ServeFails /\ UNCHANGED serviceVars)
    /\ WF_vars((SrvCloseListener \/ SrvCloseReturn) /\ UNCHANGED serviceVars)

StallSpec == Spec /\ Fairness

\* ... but a tcp.Server does: no handler holds up serveConn.
FairSpec == StallSpec /\ WF_vars(Serve /\ UNCHANGED serviceVars)
-----------------------------------------------------------------------------
\* A call only ever returns a message that bears its own SessionID, however
\* often the counter has wrapped (readLoop sends after it has released svc.mu).
SessionMatch == \A c \in Calls : got[c] # NoReply => got[c].session = session[c]

\* x has been given its SessionID.
Numbered(x) == pc[x] \notin {"idle", "admitted"} /\ result[x] # "ErrClosed"

\* No other operation of the service has been given c's number.
Sole(c) == \A x \in Senders \ {c} : Numbered(x) => session[x] # session[c]

\* The number of a call is its own until the counter wraps, and for as long as no
\* other operation is given it again.
OwnNumber(c) == ~wrapped \/ Sole(c)

\* As long as its number is its own, a call only returns the answer to its own
\* request (REQ-TCP-009: concurrent calls are demuxed correctly).
Correlated == \A c \in Calls : got[c] # NoReply /\ OwnNumber(c) => got[c].of = c

\* svc.pending holds no channel of a call that has returned.
NoStrayEntry ==
    \A s \in Sessions : pending[s] # NoCall =>
        pc[pending[s]] \in {"pending", "waiting", "leaving"}

\* A request that is refused, for its interface or its method, is not executed,
\* now or later, as long as the number of the call is its own.
RefusedNotRun ==
    \A c \in Calls :
        got[c].code \in {"UnknownMethod", "WrongInterface"} /\ OwnNumber(c) => c \notin ran

\* Once Server.Close has returned, no further request is taken off a connection.
ServerCloseQuiet ==
    [][srvClose = "returned" => \A j \in jobs' : j.at = "lookup" => j \in jobs]_vars

\* Service.Close returns: readLoop notices the closed connection.
CloseReturns == closePc = "closing" ~> closePc = "returned"

\* Server.Close returns once the service has closed its end or the connection
\* is cut.
ServerDrains == (srvClose = "closing" /\ (~ConnOpen \/ severed)) ~> srvClose = "returned"

\* What Service.Call promises, kept by TCP as long as the counter does not wrap.
Phase(c) == CASE pc[c] = "idle" -> "idle"
              [] pc[c] = "returned" -> "done"
              [] OTHER -> "open"

Returned(c) == CASE result[c] = "answer" -> got[c].code
                 [] result[c] = "ErrClosed" -> "ErrClosed"
                 [] OTHER -> "failed"

Verdict(c) == IF pc[c] = "returned" THEN Returned(c) ELSE "none"

Promise == INSTANCE CallPromise WITH
    phase <- [c \in Calls |-> Phase(c)],
    verdict <- [c \in Calls |-> Verdict(c)],
    executed <- ran \cap Calls

\* Between the two ends of this transport Call implements CallPromise.  It returns
\* because the server goes on reading, whatever its handlers do, so that a write
\* which waits for room gets it.
KeepsPromise == Promise!Spec

-----------------------------------------------------------------------------
\* What the documentation says and the code does not do:

\* a call returns, whatever the peer does: "the caller is never blocked
\* indefinitely" (SG-004, src/.fusa-hara.json:96), not even by a peer that does
\* not read;
CallReturns == \A c \in Calls : pc[c] = "admitted" ~> pc[c] = "returned"

\* a call that waits when the service is closed returns ErrClosed (REQ-TCP-014);
PendingGetsErrClosed ==
    [][\A c \in Calls : pc[c] = "waiting" /\ closePc = "returned" =>
            result'[c] \in {"none", "answer", "ErrClosed"}]_vars

\* calls made after the connection dropped return ErrNotConnected (package comment);
DroppedNotConnected ==
    \A x \in lateAt : pc[x] = "returned" => result[x] \in {"ErrNotConnected", "ErrClosed"}

\* Server.Close stops the server (src/someip.go:342), whatever its clients do:
\* it returns,
ServerCloseReturns == srvClose = "closing" ~> srvClose = "returned"

\* and no handler starts after it has returned.
NoHandlerAfterClose == [][srvClose = "returned" => ran' = ran]_vars
=============================================================================
