----------------------------- MODULE UdpService -----------------------------
(***************************************************************************)
(* The client half of the UDP transport: udp.Service's session counter,    *)
(* pending map, read loop and Close (src/udp/udp.go).  One step is one     *)
(* critical section of svc.mu, one channel operation or one system call.   *)
(***************************************************************************)
EXTENDS UdpFrames

VARIABLES
    sessionID,  \* svc.sessionID
    wrapped,    \* history: sessionID has overflowed to 0
    pending,    \* svc.pending; NoCall where the map has no entry
    pc,         \* where each Call / CallNoReturn is
    session,    \* the sessionID local of each operation
    replyCh,    \* the capacity-1 channel ch of each Call
    result,     \* how each operation returned
    got,        \* the message a Call returned
    readerPc,   \* where readLoop is
    frame,      \* the message readLoop holds
    target,     \* the call whose channel readLoop looked up
    closePc     \* where the Close that won the CompareAndSwap is

callVars == <<pc, session, replyCh, result, got>>
readerVars == <<readerPc, frame, target>>
serviceVars == <<sessionID, wrapped, pending, callVars, readerVars, closePc>>

\* "failed" stands for a send error, ErrTimeout and ctx.Err() alike.
Results == {"none", "answer", "sent", "failed", "ErrClosed"}

PcValues == {"idle", "admitted", "numbered", "pending", "waiting", "leaving", "returned"}

ServiceTypeOK ==
    /\ sessionID \in Sessions
    /\ wrapped \in BOOLEAN
    /\ pending \in [Sessions -> Calls \cup {NoCall}]
    /\ pc \in [Senders -> PcValues]
    /\ session \in [Senders -> Sessions]
    /\ replyCh \in [Calls -> Reply \cup {NoReply}]
    /\ result \in [Senders -> Results]
    /\ got \in [Calls -> Reply \cup {NoReply}]
    /\ readerPc \in {"read", "dispatch", "deliver", "exited"}
    /\ frame \in Reply \cup {NoReply}
    /\ target \in Calls \cup {NoCall}
    /\ closePc \in {"open", "closing", "draining", "returned"}

ServiceInit ==
    /\ sessionID = 0
    /\ wrapped = FALSE
    /\ pending = [s \in Sessions |-> NoCall]
    /\ pc = [x \in Senders |-> "idle"]
    /\ session = [x \in Senders |-> 0]
    /\ replyCh = [c \in Calls |-> NoReply]
    /\ result = [x \in Senders |-> "none"]
    /\ got = [c \in Calls |-> NoReply]
    /\ readerPc = "read"
    /\ frame = NoReply
    /\ target = NoCall
    /\ closePc = "open"

-----------------------------------------------------------------------------
\* svc.closed.Load() and the state of svc.conn, both decided by Close alone.
Closed == closePc # "open"
SocketOpen == closePc \in {"open", "closing"}

Goto(x, from, to) == pc[x] = from /\ pc' = [pc EXCEPT ![x] = to]

Outcome(x, r) == result' = [result EXCEPT ![x] = r]

(***************************************************************************)
(* Service.Call and Service.CallNoReturn.                                  *)
(***************************************************************************)
\* The closed check at the top of both operations.
Enter(x) ==
    /\ ~Closed
    /\ Goto(x, "idle", "admitted")
    /\ UNCHANGED <<sessionID, wrapped, pending, session, replyCh, result, got, readerVars, closePc, netVars>>

EnterClosed(x) ==
    /\ Closed
    /\ Goto(x, "idle", "returned")
    /\ Outcome(x, "ErrClosed")
    /\ UNCHANGED <<sessionID, wrapped, pending, session, replyCh, got, readerVars, closePc, netVars>>

\* Mutations of the increment: without the wrap, and lost to a racing reader.
BumpUnbounded(n) == n + 1
BumpLost(n) == n

\* sessionID++ on a uint16 whose largest value is MaxSession.
Bump(n) == IF n = MaxSession THEN 0 ELSE n + 1

\* nextSession: one critical section of svc.mu.
NextSession(x) ==
    /\ Goto(x, "admitted", "numbered")
    /\ sessionID' = Bump(sessionID)
    /\ session' = [session EXCEPT ![x] = Bump(sessionID)]
    /\ wrapped' = (wrapped \/ sessionID = MaxSession)
    /\ UNCHANGED <<pending, replyCh, result, got, readerVars, closePc, netVars>>

\* Mutation: svc.sessionID is read again instead of the call's local.
CurrentKey(c) == sessionID

\* The key under which a call files and removes its channel.
PendingKey(c) == session[c]

\* svc.pending[sessionID] = ch: a critical section of its own, and one that
\* overwrites whatever the slot held.
Register(c) ==
    /\ Goto(c, "numbered", "pending")
    /\ pending' = [pending EXCEPT ![PendingKey(c)] = c]
    /\ UNCHANGED <<sessionID, wrapped, session, replyCh, result, got, readerVars, closePc, netVars>>

RequestOf(x) == [session |-> session[x], of |-> x]

Send(c) ==
    /\ SocketOpen
    /\ Goto(c, "pending", "waiting")
    /\ requests' = requests \cup {RequestOf(c)}
    /\ UNCHANGED <<sessionID, wrapped, pending, session, replyCh, result, got, readerVars, closePc, replies>>

\* WriteToUDP fails: always on a closed socket, at any time on an open one.
SendFails(c) ==
    /\ Goto(c, "pending", "leaving")
    /\ Outcome(c, "failed")
    /\ UNCHANGED <<sessionID, wrapped, pending, session, replyCh, got, readerVars, closePc, netVars>>

\* The three cases of the select in Call; which ready case runs is not fixed.
Answer(c) ==
    /\ replyCh[c] # NoReply
    /\ Goto(c, "waiting", "leaving")
    /\ got' = [got EXCEPT ![c] = replyCh[c]]
    /\ replyCh' = [replyCh EXCEPT ![c] = NoReply]
    /\ Outcome(c, "answer")
    /\ UNCHANGED <<sessionID, wrapped, pending, session, readerVars, closePc, netVars>>

\* deadline.C or ctx.Done(): ErrTimeout or ctx.Err().
GiveUp(c) ==
    /\ Goto(c, "waiting", "leaving")
    /\ Outcome(c, "failed")
    /\ UNCHANGED <<sessionID, wrapped, pending, session, replyCh, got, readerVars, closePc, netVars>>

\* The deferred delete: by key, whoever owns the entry by now.
Forget(c) == [pending EXCEPT ![PendingKey(c)] = NoCall]

Cleanup(c) ==
    /\ Goto(c, "leaving", "returned")
    /\ pending' = Forget(c)
    /\ UNCHANGED <<sessionID, wrapped, session, replyCh, result, got, readerVars, closePc, netVars>>

\* CallNoReturn's write: success or error, it returns at once.
Post(p) ==
    /\ SocketOpen
    /\ Goto(p, "numbered", "returned")
    /\ Outcome(p, "sent")
    /\ requests' = requests \cup {RequestOf(p)}
    /\ UNCHANGED <<sessionID, wrapped, pending, session, replyCh, got, readerVars, closePc, replies>>

PostFails(p) ==
    /\ Goto(p, "numbered", "returned")
    /\ Outcome(p, "failed")
    /\ UNCHANGED <<sessionID, wrapped, pending, session, replyCh, got, readerVars, closePc, netVars>>

(***************************************************************************)
(* readLoop and dispatchFrame, for Response and Error frames.              *)
(***************************************************************************)
Read ==
    /\ readerPc = "read"
    /\ SocketOpen
    /\ \E r \in replies : frame' = r
    /\ readerPc' = "dispatch"
    /\ UNCHANGED <<sessionID, wrapped, pending, callVars, target, closePc, netVars>>

\* Mutation: every read error is retried.
ReadRetries == FALSE

\* ReadFromUDP fails on the closed socket and closed is already set.
ReadFails ==
    /\ readerPc = "read"
    /\ ~SocketOpen /\ Closed
    /\ readerPc' = "exited"
    /\ UNCHANGED <<sessionID, wrapped, pending, callVars, frame, target, closePc, netVars>>

\* ch, ok := svc.pending[msg.SessionID] under svc.mu, which is then released.
Lookup ==
    /\ readerPc = "dispatch"
    /\ target' = pending[frame.session]
    /\ IF target' = NoCall THEN readerPc' = "read" /\ frame' = NoReply
                           ELSE readerPc' = "deliver" /\ frame' = frame
    /\ UNCHANGED <<sessionID, wrapped, pending, callVars, closePc, netVars>>

\* A send that would block on the capacity-1 channel drops the message.
Offer(ch, msg) == IF ch = NoReply THEN msg ELSE ch

Deliver ==
    /\ readerPc = "deliver"
    /\ replyCh' = [replyCh EXCEPT ![target] = Offer(@, frame)]
    /\ readerPc' = "read" /\ frame' = NoReply /\ target' = NoCall
    /\ UNCHANGED <<sessionID, wrapped, pending, pc, session, result, got, closePc, netVars>>

(***************************************************************************)
(* Service.Close.  A second Close returns nil at the CompareAndSwap and    *)
(* changes nothing.                                                        *)
(***************************************************************************)
CloseBegin ==
    /\ "service" \in Closers
    /\ closePc = "open"
    /\ closePc' = "closing"
    /\ UNCHANGED <<sessionID, wrapped, pending, callVars, readerVars, netVars>>

CloseSocket ==
    /\ closePc = "closing"
    /\ closePc' = "draining"
    /\ UNCHANGED <<sessionID, wrapped, pending, callVars, readerVars, netVars>>

\* Mutation: Close does not wait for svc.wg.
NoWait == TRUE

\* svc.wg counts the read loop and nothing else.
ReaderDone == readerPc = "exited"

CloseReturn ==
    /\ closePc = "draining"
    /\ ReaderDone
    /\ closePc' = "returned"
    /\ UNCHANGED <<sessionID, wrapped, pending, callVars, readerVars, netVars>>

-----------------------------------------------------------------------------
SenderStep(x) == Enter(x) \/ EnterClosed(x) \/ NextSession(x)

CallStep(c) == \/ Register(c) \/ Send(c) \/ SendFails(c)
               \/ Answer(c) \/ GiveUp(c) \/ Cleanup(c)

PostStep(p) == Post(p) \/ PostFails(p)

ReaderStep == Read \/ ReadFails \/ Lookup \/ Deliver

CloseStep == CloseBegin \/ CloseSocket \/ CloseReturn

ServiceNext == \/ \E x \in Senders : SenderStep(x)
               \/ \E c \in Calls : CallStep(c)
               \/ \E p \in Posts : PostStep(p)
               \/ ReaderStep
               \/ CloseStep
=============================================================================
