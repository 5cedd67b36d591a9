---------------------------- MODULE TcpCallsProofs ---------------------------
(***************************************************************************)
(* Theorems about TcpCalls, for any number of calls and methods, any       *)
(* SessionID width and any number of wraps of the counter.                 *)
(***************************************************************************)
EXTENDS TcpCalls, TLAPS

\* x's request may have been written.
Sent(x) == Numbered(x) /\ pc[x] \notin {"numbered", "pending"}

Elements(s) == {s[i] : i \in 1..Len(s)}

\* Every answer that exists on the service's side of the server's write.
Replies == Elements(toClient) \cup {frame} \cup {replyCh[c] : c \in Calls} \cup {got[c] : c \in Calls}

\* The codes that say the handler ran, and those that say it did not.
Executions == {"OK", "NotOK"}
Refusals == {"UnknownMethod", "WrongInterface"}

\* Only the closed check refuses an operation; one that got an answer has it.
RefusalInv ==
    /\ \A x \in Senders : result[x] = "ErrClosed" => pc[x] = "returned"
    /\ \A c \in Calls : result[c] = "answer" => got[c] # NoReply

\* A slot of the pending map belongs to a call of that very number.
SlotInv ==
    \A s \in Sessions : pending[s] # NoCall =>
        /\ session[pending[s]] = s
        /\ pc[pending[s]] \in {"pending", "waiting", "leaving"}

\* The read loop hands its frame to a call of the frame's number, also when the
\* slot has changed hands since the lookup.
ReaderInv ==
    readerPc = "deliver" => /\ target \in Calls /\ Numbered(target)
                            /\ frame.session = session[target]

ChannelInv ==
    \A c \in Calls : \A m \in {replyCh[c], got[c]} :
        m # NoReply => Numbered(c) /\ m.session = session[c]

\* Before the counter wraps, numbers are issued once.
NumberInv ==
    ~wrapped =>
        /\ \A x \in Senders : Numbered(x) => session[x] \in 1..sessionID
        /\ \A x, y \in Senders : Numbered(x) /\ Numbered(y) /\ x # y => session[x] # session[y]

\* What travels, is being worked on or has run was sent, under its own number.
FrameInv ==
    /\ \A r \in Elements(toServer) \cup {j.req : j \in jobs} \cup (Replies \ {NoReply}) :
           Sent(r.of) /\ r.session = session[r.of]
    /\ \A x \in ran : Sent(x)

\* No handler has run for x and no answer says that none will.
Undecided(x) == x \notin ran /\ \A r \in Replies : r.of = x => r.code \notin Refusals

\* A request is in one place: on the wire or with one goroutine; it is decided
\* once, for or against the handler, and answers say which.
OnceInv ==
    /\ \A i, j \in 1..Len(toServer) : toServer[i].of = toServer[j].of => i = j
    /\ \A r \in Elements(toServer) : Undecided(r.of) /\ \A j \in jobs : j.req.of # r.of
    /\ \A j, k \in jobs : j.req.of = k.req.of => j = k
    /\ \A j \in jobs : j.at # "reply" => Undecided(j.req.of)
    /\ \A j \in jobs : j.code \in Refusals => j.req.of \notin ran
    /\ \A r \in Replies : r.code \in Refusals => r.of \notin ran
    /\ \A j \in jobs : j.code \in Executions => j.req.of \in ran
    /\ \A r \in Replies : r.code \in Executions => r.of \in ran

IInv == /\ RefusalInv /\ SlotInv /\ ReaderInv /\ ChannelInv
        /\ NumberInv /\ FrameInv /\ OnceInv

-----------------------------------------------------------------------------
\* An empty channel is not mistaken for an answer.
LEMMA NoReplyIsNoReply == NoReply \notin Reply
  BY SenderAssumption DEF NoReply, Reply

\* The counter stays within its width.
LEMMA BumpType == ASSUME NEW n \in Sessions PROVE Bump(n) \in Sessions
  BY SessionAssumption DEF Bump, Sessions

\* What a read takes off a sequence, and what stays.
LEMMA HeadTail ==
  ASSUME NEW S, NEW s \in Seq(S), s # <<>>
  PROVE  /\ Head(s) \in S /\ Tail(s) \in Seq(S)
         /\ Head(s) = s[1] /\ 1 \in 1..Len(s) /\ Len(Tail(s)) = Len(s) - 1
         /\ \A i \in 1..Len(Tail(s)) : i + 1 \in 1..Len(s) /\ Tail(s)[i] = s[i + 1]
<1>1. Len(s) \in Nat /\ Len(s) # 0
  OBVIOUS
<1>2. Head(s) = s[1] /\ s[1] \in S
  BY <1>1
<1>3. Tail(s) \in Seq(S) /\ Len(Tail(s)) = Len(s) - 1
  BY <1>1
<1>4. \A i \in 1..Len(s) - 1 : Tail(s)[i] = s[i + 1]
  BY <1>1
<1> QED BY <1>1, <1>2, <1>3, <1>4

\* What a write puts on the connection.
LEMMA WriteType == ASSUME TypeOK, NEW x \in Senders, Write(x) PROVE toServer' \in Seq(Request)
<1>1. [session |-> session[x], of |-> x] \in Request
  BY DEF TypeOK, ServiceTypeOK, Request
<1> QED BY <1>1 DEF Write, Put, TypeOK, NetTypeOK

LEMMA TypeInit == Init => TypeOK
<1> 0 \in Sessions BY SessionAssumption DEF Sessions
<1> SUFFICES ASSUME Init PROVE TypeOK OBVIOUS
<1>1. NetTypeOK BY DEF Init, NetTypeOK
<1>2. ServiceTypeOK BY DEF Init, ServiceTypeOK
<1>3. ServerTypeOK BY DEF Init, ServerTypeOK
<1> QED BY <1>1, <1>2, <1>3 DEF TypeOK

\* The types of the connection and of the service survive the service's steps.
LEMMA TypeService ==
  ASSUME TypeOK, ServiceNext, UNCHANGED serverVars PROVE TypeOK'
<1> USE DEF NetTypeOK, ServiceTypeOK, Goto, Outcome
<1> NetTypeOK /\ ServiceTypeOK BY DEF TypeOK
<1>0. ServerTypeOK'
  BY DEF TypeOK, ServerTypeOK, serverVars, methodVars, loopVars
<1> SUFFICES NetTypeOK' /\ ServiceTypeOK'
  BY <1>0 DEF TypeOK
<1>1. ASSUME NEW x \in Senders, Enter(x) \/ EnterClosed(x) PROVE NetTypeOK' /\ ServiceTypeOK'
  BY <1>1 DEF Enter, EnterClosed, netVars, readerVars
<1>2. ASSUME NEW x \in Senders, NextSession(x) PROVE NetTypeOK' /\ ServiceTypeOK'
  BY <1>2, BumpType DEF NextSession, netVars, readerVars
<1>3. ASSUME NEW c \in Calls, CallStep(c) \/ Answer(c) PROVE NetTypeOK' /\ ServiceTypeOK'
  <2> c \in Senders BY DEF Senders
  <2>1. CASE Register(c)
    BY <2>1 DEF Register, PendingKey, netVars, readerVars
  <2>2. CASE Send(c)
    BY <2>2, WriteType DEF Send, readerVars
  <2>3. CASE SendFails(c) \/ GiveUp(c)
    BY <2>3 DEF SendFails, GiveUp, netVars, readerVars
  <2>4. CASE Answer(c)
    BY <2>4 DEF Answer, netVars, readerVars
  <2>5. CASE Cleanup(c)
    BY <2>5 DEF Cleanup, PendingKey, netVars, readerVars
  <2> QED BY <1>3, <2>1, <2>2, <2>3, <2>4, <2>5 DEF CallStep
<1>4. ASSUME NEW p \in Posts, PostStep(p) PROVE NetTypeOK' /\ ServiceTypeOK'
  <2> p \in Senders BY DEF Senders
  <2>1. CASE Post(p)
    BY <2>1, WriteType DEF Post, readerVars
  <2>2. CASE PostFails(p)
    BY <2>2 DEF PostFails, netVars, readerVars
  <2> QED BY <1>4, <2>1, <2>2 DEF PostStep
<1>5. CASE Read \/ ReadFails
  <2>1. CASE Read
    BY <2>1, HeadTail DEF Read, callVars
  <2>2. CASE ReadFails
    BY <2>2 DEF ReadFails, callVars
  <2> QED BY <1>5, <2>1, <2>2
<1>6. CASE Lookup
  <2>1. frame.session \in Sessions
    BY SessionAssumption DEF Reply, NoReply, Sessions
  <2> QED BY <1>6, <2>1 DEF Lookup, callVars, netVars
<1>7. CASE Deliver
  BY <1>7 DEF Deliver, netVars
<1>8. CASE CloseBegin \/ CloseConn \/ CloseReturn
  BY <1>8 DEF CloseBegin, CloseConn, CloseReturn, callVars, readerVars, netVars
<1> QED
  BY <1>1, <1>2, <1>3, <1>4, <1>5, <1>6, <1>7, <1>8 DEF ServiceNext, ReaderStep

\* ... and the server's.
LEMMA TypeServer ==
  ASSUME TypeOK, ServerNext, UNCHANGED serviceVars PROVE TypeOK'
<1> USE DEF NetTypeOK, ServerTypeOK
<1> NetTypeOK /\ ServerTypeOK BY DEF TypeOK
<1>0. ServiceTypeOK'
  BY DEF TypeOK, ServiceTypeOK, serviceVars, callVars, readerVars
<1> SUFFICES NetTypeOK' /\ ServerTypeOK'
  BY <1>0 DEF TypeOK
<1>1. ASSUME NEW m \in Methods, RegisterAdmit(m) \/ RegisterStore(m) PROVE NetTypeOK' /\ ServerTypeOK'
  BY <1>1 DEF RegisterAdmit, RegisterStore, netVars, loopVars
<1>2. CASE Accept \/ AcceptFails \/ SrvCloseBegin \/ SrvCloseListener \/ SrvCloseReturn
  BY <1>2 DEF Accept, AcceptFails, SrvCloseBegin, SrvCloseListener, SrvCloseReturn, netVars, methodVars
<1>3. CASE Serve \/ ServeFails
  <2>1. CASE Serve
    <3>1. Head(toServer) \in Request /\ Tail(toServer) \in Seq(Request)
      BY <2>1, HeadTail DEF Serve
    <3> QED BY <2>1, <3>1 DEF Serve, Job, methodVars, loopVars
  <2>2. CASE ServeFails
    BY <2>2 DEF ServeFails, methodVars, loopVars
  <2> QED BY <1>3, <2>1, <2>2
<1>4. ASSUME NEW j \in jobs, JobLookup(j) \/ JobRun(j) \/ JobReply(j) PROVE NetTypeOK' /\ ServerTypeOK'
  <2> j \in Job /\ j.req \in Request BY DEF Job
  <2>1. CASE JobLookup(j)
    BY <2>1 DEF JobLookup, Refusal, Advance, Job, Codes, netVars, methodVars, loopVars
  <2>2. CASE JobRun(j)
    BY <2>2 DEF JobRun, Advance, Job, Codes, Request, netVars, methodVars, loopVars
  <2>3. CASE JobReply(j)
    <3>1. [session |-> j.req.session, of |-> j.req.of, code |-> j.code] \in Reply
      BY <2>3 DEF JobReply, Reply, Job, Request, Codes
    <3> QED BY <2>3, <3>1 DEF JobReply, Put, methodVars, loopVars
  <2> QED BY <1>4, <2>1, <2>2, <2>3
<1> QED
  BY <1>1, <1>2, <1>3, <1>4 DEF ServerNext

\* Every variable keeps its type through every interleaving of callers, loops,
\* handler goroutines and the two Close calls, and when the connection is cut.
THEOREM TypeCorrect == Spec => []TypeOK
<1>1. TypeOK /\ [Next]_vars => TypeOK'
  <2> SUFFICES ASSUME TypeOK, [Next]_vars PROVE TypeOK' OBVIOUS
  <2> USE DEF TypeOK, NetTypeOK, ServiceTypeOK, ServerTypeOK, netVars, serviceVars, serverVars,
              callVars, readerVars, methodVars, loopVars
  <2>1. CASE UNCHANGED vars
    BY <2>1 DEF vars
  <2>2. CASE Sever
    BY <2>2 DEF Sever
  <2> HIDE DEF TypeOK, serverVars, serviceVars
  <2> QED BY <2>1, <2>2, TypeService, TypeServer DEF Next
<1> QED BY TypeInit, <1>1, PTL DEF Spec

-----------------------------------------------------------------------------
(***************************************************************************)
(* What travels.                                                           *)
(***************************************************************************)
LEMMA Travelling ==
  ASSUME TypeOK
  PROVE  /\ \A r \in Elements(toServer) \cup {j.req : j \in jobs} \cup (Replies \ {NoReply}) : r.of \in Senders
         /\ NoReply.code \notin Refusals /\ NoReply.code \notin Executions
<1>1. Elements(toServer) \subseteq Request /\ Elements(toClient) \subseteq Reply
  BY DEF TypeOK, NetTypeOK, Elements
<1>2. Replies \subseteq Reply \cup {NoReply}
  BY <1>1 DEF Replies, TypeOK, ServiceTypeOK
<1>3. {j.req : j \in jobs} \subseteq Request
  BY DEF TypeOK, ServerTypeOK, Job
<1>4. NoReply.code \notin Refusals /\ NoReply.code \notin Executions
  BY DEF NoReply, Refusals, Executions
<1> QED BY <1>1, <1>2, <1>3, <1>4 DEF Request, Reply

\* A step that puts nothing new anywhere keeps the frames as they were sent.
LEMMA FrameQuiet ==
  ASSUME TypeOK, FrameInv,
         Elements(toServer)' \subseteq Elements(toServer),
         {j.req : j \in jobs'} \subseteq Elements(toServer) \cup {j.req : j \in jobs},
         Replies' \subseteq Replies \cup {NoReply},
         ran' \subseteq ran \cup {j.req.of : j \in jobs},
         \A y \in Senders : Sent(y) => Sent(y)' /\ session'[y] = session[y]
  PROVE  FrameInv'
<1>1. \A r \in Elements(toServer)' \cup {j.req : j \in jobs'} \cup (Replies' \ {NoReply}) :
          Sent(r.of)' /\ r.session = session'[r.of]
  BY Travelling DEF FrameInv
<1>2. \A x \in ran' : Sent(x)'
  BY Travelling DEF FrameInv, TypeOK, ServerTypeOK
<1> QED BY <1>1, <1>2, Zenon DEF FrameInv

LEMMA OnceQuiet ==
  ASSUME TypeOK, OnceInv, toServer' = toServer, jobs' = jobs, ran' = ran,
         Replies' \subseteq Replies \cup {NoReply}
  PROVE  OnceInv'
  BY Travelling DEF OnceInv, Undecided, Elements

\* A request is written once: nothing of it can be anywhere before.
LEMMA WriteKept ==
  ASSUME TypeOK, FrameInv, OnceInv, NEW x \in Senders, Write(x), ~Sent(x), Sent(x)',
         UNCHANGED <<jobs, ran, session>>, Replies' = Replies,
         \A y \in Senders : Sent(y) => Sent(y)'
  PROVE  FrameInv' /\ OnceInv'
<1> DEFINE q == [session |-> session[x], of |-> x]
<1>0. toServer \in Seq(Request) /\ q \in Request
  BY DEF TypeOK, NetTypeOK, ServiceTypeOK, Request
<1>1. CASE toServer' = toServer
  BY <1>1, FrameQuiet, OnceQuiet DEF Elements
<1>2. CASE toServer' = Append(toServer, q)
  <2>1. /\ Len(toServer') = Len(toServer) + 1 /\ Len(toServer) \in Nat
        /\ toServer'[Len(toServer')] = q /\ \A i \in 1..Len(toServer) : toServer'[i] = toServer[i]
    BY <1>0, <1>2
  <2>2. \A i \in 1..Len(toServer') : i \in 1..Len(toServer) \/ i = Len(toServer')
    BY <2>1
  <2>3. Elements(toServer)' \subseteq Elements(toServer) \cup {q}
    BY <2>1, <2>2 DEF Elements
  <2>4. q.of = x /\ q.session = session[x]
    OBVIOUS
  <2> HIDE DEF q
  <2>5. FrameInv'
    <3>1. \A r \in Elements(toServer)' \cup {j.req : j \in jobs'} \cup (Replies' \ {NoReply}) :
              Sent(r.of)' /\ r.session = session'[r.of]
      BY <2>3, <2>4, Travelling DEF FrameInv
    <3>2. \A y \in ran' : Sent(y)'
      BY DEF FrameInv, TypeOK, ServerTypeOK
    <3> QED BY <3>1, <3>2, Zenon DEF FrameInv
  <2>6. OnceInv'
    <3>1. /\ x \notin ran /\ \A j \in jobs : j.req.of # x
          /\ \A r \in Elements(toServer) : r.of # x
          /\ \A r \in Replies \ {NoReply} : r.of # x
      BY DEF FrameInv
    <3>2. Undecided(x)
      BY <3>1, Travelling DEF Undecided
    <3>3. \A i, j \in 1..Len(toServer') : toServer'[i].of = toServer'[j].of => i = j
      BY <2>1, <2>2, <2>4, <3>1 DEF OnceInv, Elements
    <3>4. \A y : Undecided(y) => Undecided(y)'
      BY DEF Undecided
    <3>5. \A r \in Elements(toServer)' : Undecided(r.of)' /\ \A j \in jobs' : j.req.of # r.of
      BY <2>3, <2>4, <3>1, <3>2, <3>4 DEF OnceInv
    <3> QED BY <3>3, <3>4, <3>5 DEF OnceInv
  <2> QED BY <2>5, <2>6
<1> QED BY <1>1, <1>2 DEF Write, Put

-----------------------------------------------------------------------------
(***************************************************************************)
(* The inductive invariant: initially, and across the service's steps.     *)
(***************************************************************************)
LEMMA IInvInit == Init => IInv
<1> SUFFICES ASSUME Init PROVE IInv OBVIOUS
<1>1. /\ Elements(toServer) = {} /\ Elements(toClient) = {} /\ Len(toServer) = 0
      /\ Replies \subseteq {NoReply} /\ jobs = {} /\ ran = {}
  BY DEF Init, Elements, Replies
<1>2. RefusalInv /\ SlotInv /\ ReaderInv /\ ChannelInv
  BY DEF Init, RefusalInv, SlotInv, ReaderInv, ChannelInv, Senders
<1>3. NumberInv
  BY DEF Init, NumberInv, Numbered
<1>4. FrameInv
  BY <1>1 DEF FrameInv
<1>5. OnceInv
  BY <1>1 DEF OnceInv, NoReply, Refusals, Executions
<1> QED BY <1>2, <1>3, <1>4, <1>5 DEF IInv

\* NextSession gives out a number no operation holds, unless the counter wraps.
LEMMA NumberingStep ==
  ASSUME TypeOK, IInv, UNCHANGED serverVars, NEW x \in Senders,
         Enter(x) \/ EnterClosed(x) \/ NextSession(x)
  PROVE  IInv'
<1> USE DEF Goto, Outcome
<1>0. /\ pc \in [Senders -> {"idle", "admitted", "numbered", "pending", "waiting", "leaving", "returned"}]
      /\ session \in [Senders -> Sessions] /\ Calls \subseteq Senders /\ sessionID \in Sessions
      /\ pending \in [Sessions -> Calls \cup {NoCall}]
      /\ result \in [Senders -> {"none", "answer", "sent", "sendError", "gaveUp", "ErrClosed"}]
  BY DEF TypeOK, ServiceTypeOK, Senders
<1>1. \A y \in Senders : Numbered(y) => Numbered(y)' /\ session'[y] = session[y]
  BY <1>0 DEF Enter, EnterClosed, NextSession, Numbered
<1>2. \A y \in Senders : Sent(y) => Sent(y)' /\ session'[y] = session[y]
  BY <1>0, <1>1 DEF Enter, EnterClosed, NextSession, Sent, Numbered
<1>3. RefusalInv'
  BY <1>0 DEF IInv, RefusalInv, Enter, EnterClosed, NextSession
<1>4. SlotInv'
  BY <1>0 DEF IInv, SlotInv, Enter, EnterClosed, NextSession
<1>5. ReaderInv'
  BY <1>0, <1>1 DEF IInv, ReaderInv, Enter, EnterClosed, NextSession, readerVars
<1>6. ChannelInv'
  BY <1>0, <1>1 DEF IInv, ChannelInv, Enter, EnterClosed, NextSession
<1>7. NumberInv'
  <2>1. CASE Enter(x) \/ EnterClosed(x)
    BY <1>0, <2>1 DEF IInv, NumberInv, Enter, EnterClosed, Numbered
  <2>2. CASE NextSession(x)
    <3> SUFFICES ASSUME ~wrapped' PROVE NumberInv' BY DEF NumberInv
    <3>1. ~wrapped /\ sessionID' = sessionID + 1 /\ session' = [session EXCEPT ![x] = sessionID + 1]
      BY <2>2 DEF NextSession, Bump
    <3>2. \A y \in Senders : Numbered(y)' => Numbered(y) \/ y = x
      BY <1>0, <2>2 DEF NextSession, Numbered
    <3>3. \A y \in Senders : Numbered(y) => y # x /\ session[y] \in 1..sessionID
      BY <2>2, <3>1 DEF NextSession, IInv, NumberInv, Numbered
    <3>4. sessionID \in Nat BY <1>0, SessionAssumption DEF Sessions
    <3>5. session'[x] = sessionID + 1 /\ \A y \in Senders : y # x => session'[y] = session[y]
      BY <1>0, <3>1
    <3>6. /\ sessionID + 1 \in 1..(sessionID + 1)
          /\ \A n \in 1..sessionID : n \in 1..(sessionID + 1) /\ n # sessionID + 1
      BY <3>4
    <3>7. \A y \in Senders : Numbered(y)' /\ y # x => session[y] \in 1..sessionID
      BY <3>2, <3>3
    <3>8. \A y \in Senders : Numbered(y)' => session'[y] \in 1..sessionID'
      BY <3>1, <3>5, <3>6, <3>7
    <3>9. ASSUME NEW y \in Senders, NEW z \in Senders, Numbered(y)', Numbered(z)', y # z
          PROVE  session'[y] # session'[z]
      <4>1. CASE y = x \/ z = x BY <4>1, <3>5, <3>6, <3>7, <3>9
      <4>2. CASE y # x /\ z # x BY <4>2, <3>1, <3>2, <3>5, <3>9 DEF IInv, NumberInv
      <4> QED BY <4>1, <4>2
    <3> QED BY <3>8, <3>9 DEF NumberInv
  <2> QED BY <2>1, <2>2
<1>8. UNCHANGED <<toServer, jobs, ran>> /\ Replies' = Replies
  BY DEF Enter, EnterClosed, NextSession, netVars, serverVars, readerVars, Replies, Elements
<1>9. FrameInv' /\ OnceInv'
  BY <1>2, <1>8, FrameQuiet, OnceQuiet DEF IInv, Elements
<1> QED BY <1>3, <1>4, <1>5, <1>6, <1>7, <1>9 DEF IInv

\* The steps of a Call after its number: filing, sending, waking, cleaning up.
LEMMA CallStepInv ==
  ASSUME TypeOK, IInv, UNCHANGED serverVars, NEW c \in Calls, CallStep(c) \/ Answer(c) PROVE IInv'
<1> USE DEF Goto, Outcome, PendingKey
<1>0. /\ c \in Senders /\ Calls \subseteq Senders /\ NoCall \notin Calls
      /\ pc \in [Senders -> {"idle", "admitted", "numbered", "pending", "waiting", "leaving", "returned"}]
      /\ session \in [Senders -> Sessions]
      /\ pending \in [Sessions -> Calls \cup {NoCall}]
      /\ result \in [Senders -> {"none", "answer", "sent", "sendError", "gaveUp", "ErrClosed"}]
      /\ replyCh \in [Calls -> Reply \cup {NoReply}] /\ got \in [Calls -> Reply \cup {NoReply}]
  BY SenderAssumption DEF TypeOK, ServiceTypeOK, Senders
<1> USE DEF CallStep, Register, Send, SendFails, Answer, GiveUp, Cleanup
<1>1. UNCHANGED <<session, sessionID, wrapped, toClient, readerPc, frame, target, jobs, ran>>
  BY DEF netVars, readerVars, serverVars
<1>2. \A y \in Senders : (Numbered(y)' <=> Numbered(y)) /\ (y # c => pc'[y] = pc[y])
  BY <1>0 DEF Numbered, IInv, RefusalInv
<1>3. \A y \in Senders : Sent(y) => Sent(y)'
  BY <1>0, <1>2 DEF Sent
<1>4. RefusalInv'
  BY <1>0 DEF IInv, RefusalInv
<1>5. SlotInv'
  <2>1. CASE Register(c) BY <1>0, <2>1 DEF IInv, SlotInv
  <2>2. CASE Cleanup(c) BY <1>0, <2>2 DEF IInv, SlotInv
  <2>3. CASE Send(c) \/ SendFails(c) \/ Answer(c) \/ GiveUp(c)
    BY <1>0, <2>3 DEF IInv, SlotInv
  <2> QED BY <2>1, <2>2, <2>3
<1>6. ReaderInv'
  BY <1>0, <1>1, <1>2 DEF IInv, ReaderInv
<1>7. \/ replyCh' = replyCh /\ got' = got
      \/ got' = [got EXCEPT ![c] = replyCh[c]] /\ replyCh' = [replyCh EXCEPT ![c] = NoReply]
  OBVIOUS
<1>8. \A d \in Calls : {replyCh'[d], got'[d]} \subseteq {replyCh[d], got[d], NoReply}
  BY <1>0, <1>7
<1>9. ChannelInv'
  BY <1>0, <1>1, <1>2, <1>8 DEF IInv, ChannelInv
<1>10. NumberInv'
  BY <1>1, <1>2 DEF IInv, NumberInv
<1>11. FrameInv' /\ OnceInv'
  <2>1. CASE Send(c)
    <3>1. Write(c) /\ Replies' = Replies
      BY <1>1, <2>1 DEF Replies, Elements
    <3>2. ~Sent(c) /\ Sent(c)'
      BY <1>0, <2>1 DEF Sent, Numbered, IInv, RefusalInv
    <3> QED BY <1>0, <1>1, <1>3, <3>1, <3>2, WriteKept DEF IInv
  <2>2. CASE ~Send(c)
    <3>1. toServer' = toServer
      BY <2>2 DEF netVars
    <3>2. Replies' \subseteq Replies \cup {NoReply}
      BY <1>1, <1>8 DEF Replies, Elements
    <3> QED BY <1>1, <1>3, <3>1, <3>2, FrameQuiet, OnceQuiet DEF IInv, Elements
  <2> QED BY <2>1, <2>2
<1> QED BY <1>4, <1>5, <1>6, <1>9, <1>10, <1>11 DEF IInv

\* A fire-and-forget only writes its frame.
LEMMA PostStepInv ==
  ASSUME TypeOK, IInv, UNCHANGED serverVars, NEW p \in Posts, PostStep(p) PROVE IInv'
<1> USE DEF Goto, Outcome, PostStep, Post, PostFails
<1>0. /\ p \in Senders /\ p \notin Calls /\ Calls \subseteq Senders
      /\ pc \in [Senders -> {"idle", "admitted", "numbered", "pending", "waiting", "leaving", "returned"}]
      /\ result \in [Senders -> {"none", "answer", "sent", "sendError", "gaveUp", "ErrClosed"}]
      /\ pending \in [Sessions -> Calls \cup {NoCall}]
  BY SenderAssumption DEF TypeOK, ServiceTypeOK, Senders
<1>1. UNCHANGED <<session, sessionID, wrapped, toClient, pending, readerPc, frame, target, replyCh, got, jobs, ran>>
  BY DEF netVars, readerVars, serverVars
<1>2. \A y \in Senders : (Numbered(y)' <=> Numbered(y)) /\ (y # p => pc'[y] = pc[y])
  BY <1>0 DEF Numbered, IInv, RefusalInv
<1>3. \A y \in Senders : Sent(y) => Sent(y)'
  BY <1>0, <1>2 DEF Sent
<1>4. RefusalInv'
  BY <1>0 DEF IInv, RefusalInv
<1>5. SlotInv'
  <2>1. \A c \in Calls : pc'[c] = pc[c] BY <1>0, <1>2
  <2> QED BY <1>0, <1>1, <2>1 DEF IInv, SlotInv
<1>6. ReaderInv' /\ ChannelInv' /\ NumberInv'
  BY <1>0, <1>1, <1>2 DEF IInv, ReaderInv, ChannelInv, NumberInv
<1>7. FrameInv' /\ OnceInv'
  <2>0. Replies' = Replies
    BY <1>1 DEF Replies, Elements
  <2>1. CASE Post(p)
    <3>1. ~Sent(p) /\ Sent(p)'
      BY <1>0, <2>1 DEF Sent, Numbered, IInv, RefusalInv
    <3> QED BY <1>0, <1>1, <1>3, <2>0, <2>1, <3>1, WriteKept DEF IInv
  <2>2. CASE ~Post(p)
    <3>1. toServer' = toServer
      BY <2>2 DEF netVars
    <3> QED BY <1>1, <1>3, <2>0, <3>1, FrameQuiet, OnceQuiet DEF IInv, Elements
  <2> QED BY <2>1, <2>2
<1> QED BY <1>4, <1>5, <1>6, <1>7 DEF IInv

\* The read loop hands a frame to the call it looked up, which bears the
\* frame's number although svc.mu was released in between.
LEMMA ReaderStepInv ==
  ASSUME TypeOK, IInv, UNCHANGED serverVars, Read \/ ReaderStep PROVE IInv'
<1>0. /\ NoCall \notin Calls /\ Calls \subseteq Senders
      /\ pending \in [Sessions -> Calls \cup {NoCall}]
      /\ frame \in Reply \cup {NoReply} /\ frame.session \in Sessions
      /\ replyCh \in [Calls -> Reply \cup {NoReply}] /\ toClient \in Seq(Reply)
  BY SenderAssumption, SessionAssumption
  DEF TypeOK, NetTypeOK, ServiceTypeOK, Senders, Reply, NoReply, Sessions
<1>1. UNCHANGED <<session, sessionID, wrapped, pending, toServer, jobs, ran, pc, result, got>>
  BY DEF ReaderStep, Read, ReadFails, Lookup, Deliver, netVars, callVars, serverVars
<1>2. RefusalInv' /\ SlotInv' /\ NumberInv'
  BY <1>1 DEF IInv, RefusalInv, SlotInv, NumberInv, Numbered
<1>3. ReaderInv'
  <2>1. CASE Read \/ ReadFails \/ Deliver
    BY <2>1 DEF Read, ReadFails, Deliver, ReaderInv
  <2>2. CASE Lookup
    <3> SUFFICES ASSUME readerPc' = "deliver" PROVE ReaderInv' BY DEF ReaderInv
    <3>1. target' = pending[frame.session] /\ target' # NoCall /\ frame' = frame
      BY <2>2 DEF Lookup
    <3>2. target' \in Calls /\ session[target'] = frame.session
          /\ pc[target'] \in {"pending", "waiting", "leaving"}
      BY <1>0, <3>1 DEF IInv, SlotInv
    <3>3. Numbered(target') BY <1>0, <3>2 DEF IInv, RefusalInv, Numbered
    <3> QED BY <1>1, <3>1, <3>2, <3>3 DEF ReaderInv, Numbered
  <2> QED BY <2>1, <2>2 DEF ReaderStep
<1>4. ASSUME NEW c \in Calls
      PROVE  \/ replyCh'[c] = replyCh[c]
             \/ Deliver /\ c = target /\ replyCh'[c] = frame
  <2>1. CASE Deliver BY <1>0, <2>1 DEF Deliver
  <2>2. CASE ~Deliver BY <2>2 DEF ReaderStep, Read, ReadFails, Lookup, callVars
  <2> QED BY <2>1, <2>2
<1>5. ChannelInv'
  BY <1>1, <1>4 DEF IInv, ChannelInv, ReaderInv, Deliver, Numbered
<1>6. Elements(toClient)' \cup {frame'} \subseteq Elements(toClient) \cup {frame, NoReply}
  <2>1. CASE Read
    BY <1>0, <2>1, HeadTail DEF Read, Elements
  <2>2. CASE ReadFails
    BY <2>2 DEF ReadFails, Elements
  <2>3. CASE Lookup \/ Deliver
    BY <2>3 DEF Lookup, Deliver, netVars, Elements
  <2> QED BY <2>1, <2>2, <2>3 DEF ReaderStep
<1>7. Replies' \subseteq Replies \cup {NoReply}
  <2>1. \A c \in Calls : replyCh'[c] \in {replyCh[c], frame}
    BY <1>4
  <2> QED BY <1>1, <1>6, <2>1 DEF Replies
<1>8. FrameInv' /\ OnceInv'
  BY <1>1, <1>7, FrameQuiet, OnceQuiet DEF IInv, Sent, Numbered, Elements
<1> QED BY <1>2, <1>3, <1>5, <1>8 DEF IInv

\* Closing the service touches nothing the invariant speaks of.
LEMMA CloseStepInv ==
  ASSUME TypeOK, IInv, UNCHANGED serverVars, CloseBegin \/ CloseConn \/ CloseReturn PROVE IInv'
<1>1. UNCHANGED <<sessionID, wrapped, pending, callVars, readerVars, netVars, serverVars>>
  BY DEF CloseBegin, CloseConn, CloseReturn
<1> QED BY <1>1 DEF IInv, RefusalInv, SlotInv, ReaderInv, ChannelInv, NumberInv, FrameInv, OnceInv, Undecided,
           Replies, Elements, Sent, Numbered, callVars, readerVars, netVars, serverVars

-----------------------------------------------------------------------------
(***************************************************************************)
(* ... across the server's steps.                                          *)
(***************************************************************************)
\* A server step leaves the service alone: what it holds of numbers and slots
\* stays.
LEMMA ServerFrame ==
  ASSUME TypeOK, IInv, UNCHANGED serviceVars, FrameInv', OnceInv' PROVE IInv'
  BY DEF IInv, RefusalInv, SlotInv, ReaderInv, ChannelInv, NumberInv, Numbered, serviceVars,
     callVars, readerVars

LEMMA SentSame ==
  ASSUME UNCHANGED serviceVars
  PROVE  /\ \A y \in Senders : (Sent(y) => Sent(y)') /\ session'[y] = session[y]
         /\ toClient' = toClient => Replies' = Replies
  BY DEF serviceVars, callVars, readerVars, Sent, Numbered, Replies, Elements

\* Registration, accepting and closing leave requests, goroutines and answers
\* alone; a read error drops requests.
LEMMA QuietServerInv ==
  ASSUME TypeOK, IInv, UNCHANGED serviceVars,
         \/ \E m \in Methods : RegisterAdmit(m) \/ RegisterStore(m)
         \/ Accept \/ AcceptFails \/ ServeFails \/ SrvCloseBegin \/ SrvCloseListener \/ SrvCloseReturn
  PROVE  IInv'
<1>1. UNCHANGED <<toClient, jobs, ran>> /\ toServer' \in {toServer, <<>>}
  BY DEF RegisterAdmit, RegisterStore, Accept, AcceptFails, ServeFails, SrvCloseBegin, SrvCloseListener,
     SrvCloseReturn, netVars
<1>2. Replies' = Replies
  BY <1>1, SentSame
<1>3. Elements(toServer)' \subseteq Elements(toServer) /\ (toServer' = <<>> => Elements(toServer)' = {})
  BY <1>1 DEF Elements
<1>4. FrameInv'
  BY <1>1, <1>2, <1>3, SentSame, FrameQuiet DEF IInv
<1>5. OnceInv'
  <2>1. CASE toServer' = toServer
    BY <1>1, <1>2, <2>1, OnceQuiet DEF IInv
  <2>2. CASE toServer' = <<>>
    BY <1>1, <1>2, <1>3, <2>2 DEF IInv, OnceInv, Undecided
  <2> QED BY <1>1, <2>1, <2>2
<1> QED BY <1>4, <1>5, ServerFrame

\* serveConn starts one goroutine for the request it takes off the wire.
LEMMA ServeInv ==
  ASSUME TypeOK, IInv, UNCHANGED serviceVars, Serve PROVE IInv'
<1> DEFINE q == Head(toServer)
           new == [req |-> q, at |-> "lookup", code |-> "None"]
<1>1. /\ toServer \in Seq(Request) /\ toServer # <<>> /\ toServer' = Tail(toServer)
      /\ jobs' = jobs \cup {new} /\ ran' = ran /\ toClient' = toClient
  BY DEF Serve, TypeOK, NetTypeOK
<1>2. /\ q = toServer[1] /\ 1 \in 1..Len(toServer) /\ Len(toServer') = Len(toServer) - 1
      /\ \A i \in 1..Len(toServer') : i + 1 \in 1..Len(toServer) /\ toServer'[i] = toServer[i + 1]
  BY <1>1, HeadTail
<1>3. /\ Elements(toServer)' \subseteq Elements(toServer) /\ q \in Elements(toServer)
      /\ new.req = q /\ new.at = "lookup" /\ new.code \notin Refusals \cup Executions
  BY <1>2 DEF Elements, Refusals, Executions
<1> HIDE DEF new
<1>4. Replies' = Replies
  BY <1>1, SentSame
<1>5. FrameInv'
  <2>1. {j.req : j \in jobs'} \subseteq Elements(toServer) \cup {j.req : j \in jobs}
    BY <1>1, <1>3
  <2> QED BY <1>1, <1>3, <1>4, <2>1, SentSame, FrameQuiet DEF IInv
<1>6. OnceInv'
  <2>1. \A i, j \in 1..Len(toServer') : toServer'[i].of = toServer'[j].of => i = j
    BY <1>2 DEF IInv, OnceInv
  <2>2. \A r \in Elements(toServer)' : r.of # q.of
    <3> SUFFICES ASSUME NEW i \in 1..Len(toServer') PROVE toServer'[i].of # q.of
      BY DEF Elements
    <3>1. i + 1 # 1
      BY <1>1
    <3> QED BY <1>2, <3>1 DEF IInv, OnceInv
  <2>3. Undecided(q.of) /\ \A j \in jobs : j.req.of # q.of
    BY <1>3 DEF IInv, OnceInv
  <2>4. \A y : Undecided(y) => Undecided(y)'
    BY <1>1, <1>4 DEF Undecided
  <2>5. \A r \in Elements(toServer)' : Undecided(r.of)' /\ \A j \in jobs' : j.req.of # r.of
    BY <1>1, <1>3, <2>2, <2>4 DEF IInv, OnceInv
  <2>6. \A j, k \in jobs' : j.req.of = k.req.of => j = k
    BY <1>1, <1>3, <2>3 DEF IInv, OnceInv
  <2>7. \A j \in jobs' : /\ j.at # "reply" => Undecided(j.req.of)'
                         /\ j.code \in Refusals => j.req.of \notin ran'
                         /\ j.code \in Executions => j.req.of \in ran'
    BY <1>1, <1>3, <2>3, <2>4 DEF IInv, OnceInv
  <2> QED BY <1>1, <1>4, <2>1, <2>5, <2>6, <2>7 DEF IInv, OnceInv
<1> QED BY <1>5, <1>6, ServerFrame

\* A goroutine's steps: it runs a handler that nothing else has decided about,
\* or refuses it, and answers under the number it was asked with.
LEMMA JobStepInv ==
  ASSUME TypeOK, IInv, UNCHANGED serviceVars, NEW j \in jobs, JobLookup(j) \/ JobRun(j) \/ JobReply(j)
  PROVE  IInv'
<1> DEFINE x == j.req.of
<1>0. j \in Job /\ x \in Senders
  BY DEF TypeOK, ServerTypeOK, Job, Request
<1>1. /\ \A k \in jobs : k # j => k.req.of # x
      /\ \A r \in Elements(toServer) : r.of # x
  BY DEF IInv, OnceInv
<1>2. CASE JobLookup(j) \/ JobRun(j)
  <2>1. UNCHANGED <<toServer, toClient>> /\ Replies' = Replies
    BY <1>2, SentSame DEF JobLookup, JobRun, netVars
  <2>2. /\ ran' \in {ran, ran \cup {x}} /\ Undecided(x)
        /\ \A k \in jobs' : \/ k \in jobs \ {j}
                            \/ /\ k.req = j.req
                               /\ k.at # "reply" => ran' = ran /\ k.code = "None"
                               /\ k.at = "reply" => \/ k.code \in Refusals /\ ran' = ran
                                                    \/ k.code \in Executions /\ x \in ran'
    <3>1. CASE JobLookup(j)
      BY <3>1 DEF JobLookup, Refusal, Refusals, Advance, IInv, OnceInv
    <3>2. CASE JobRun(j)
      BY <3>2 DEF JobRun, Executions, Advance, IInv, OnceInv
    <3> QED BY <1>2, <3>1, <3>2
  <2>3. \A j1, j2 \in jobs' : j1.req.of = j2.req.of => j1 = j2
    <3>1. \A k \in jobs' : k \in jobs \ {j} \/ k.req = j.req
      BY <2>2
    <3>2. \A j1, j2 \in jobs' : j1.req = j.req /\ j2.req = j.req => j1 = j2
      BY <1>1, <1>2 DEF JobLookup, JobRun, Advance
    <3> QED BY <1>1, <3>1, <3>2 DEF IInv, OnceInv
  <2>4. \A y : y # x /\ Undecided(y) => Undecided(y)'
    BY <2>1, <2>2 DEF Undecided
  <2>5. ran' = ran => Undecided(x)'
    BY <2>1, <2>2 DEF Undecided
  <2>6. \A k \in jobs' : /\ k.at # "reply" => Undecided(k.req.of)'
                         /\ k.code \in Refusals => k.req.of \notin ran'
                         /\ k.code \in Executions => k.req.of \in ran'
    <3> SUFFICES ASSUME NEW k \in jobs' PROVE /\ k.at # "reply" => Undecided(k.req.of)'
                                              /\ k.code \in Refusals => k.req.of \notin ran'
                                              /\ k.code \in Executions => k.req.of \in ran'
      OBVIOUS
    <3>1. CASE k \in jobs \ {j}
      BY <1>1, <2>2, <2>4, <3>1 DEF IInv, OnceInv
    <3>2. CASE k.req = j.req
      <4>1. k \in jobs \ {j} \/ /\ k.at # "reply" => ran' = ran /\ k.code = "None"
                                /\ k.at = "reply" => \/ k.code \in Refusals /\ ran' = ran
                                                     \/ k.code \in Executions /\ x \in ran'
        BY <2>2
      <4> QED BY <1>1, <2>2, <2>5, <3>1, <3>2, <4>1 DEF Undecided, Refusals, Executions
    <3> QED BY <2>2, <3>1, <3>2
  <2>7. \A r \in Elements(toServer)' : Undecided(r.of)' /\ \A k \in jobs' : k.req.of # r.of
    BY <1>1, <2>1, <2>2, <2>4 DEF IInv, OnceInv, Elements
  <2>8. \A r \in Replies' : /\ r.code \in Refusals => r.of \notin ran'
                            /\ r.code \in Executions => r.of \in ran'
    BY <2>1, <2>2 DEF IInv, OnceInv, Undecided
  <2>9. OnceInv'
    BY <2>1, <2>3, <2>6, <2>7, <2>8 DEF IInv, OnceInv
  <2>10. FrameInv'
    <3>1. {k.req : k \in jobs'} \subseteq Elements(toServer) \cup {k.req : k \in jobs}
      BY <2>2
    <3>2. ran' \subseteq ran \cup {k.req.of : k \in jobs}
      BY <2>2
    <3> QED BY <2>1, <3>1, <3>2, SentSame, FrameQuiet DEF IInv, Elements
  <2> QED BY <2>9, <2>10, ServerFrame
<1>3. CASE JobReply(j)
  <2> DEFINE a == [session |-> j.req.session, of |-> x, code |-> j.code]
  <2>1. /\ UNCHANGED <<toServer, ran>> /\ jobs' = jobs \ {j}
        /\ toClient' = toClient \/ toClient' = Append(toClient, a)
    BY <1>3 DEF JobReply, Put
  <2>2. Elements(toClient)' \subseteq Elements(toClient) \cup {a}
    <3>1. CASE toClient' = toClient
      BY <3>1 DEF Elements
    <3>2. CASE toClient' = Append(toClient, a)
      <4>1. toClient \in Seq(Reply)
        BY DEF TypeOK, NetTypeOK
      <4>2. /\ Len(toClient') = Len(toClient) + 1 /\ Len(toClient) \in Nat
            /\ toClient'[Len(toClient')] = a /\ \A i \in 1..Len(toClient) : toClient'[i] = toClient[i]
        BY <3>2, <4>1
      <4>3. \A i \in 1..Len(toClient') : i \in 1..Len(toClient) \/ i = Len(toClient')
        BY <4>2
      <4> QED BY <4>2, <4>3 DEF Elements
    <3> QED BY <2>1, <3>1, <3>2
  <2>3. Replies' \subseteq Replies \cup {a}
    BY <2>2 DEF Replies, serviceVars, callVars, readerVars
  <2>4. a.of = x /\ a.code = j.code /\ a.session = j.req.session
    OBVIOUS
  <2> HIDE DEF a
  <2>5. \A y : y # x /\ Undecided(y) => Undecided(y)'
    BY <2>1, <2>3, <2>4 DEF Undecided
  <2>6. OnceInv'
    BY <1>1, <2>1, <2>3, <2>4, <2>5 DEF IInv, OnceInv, Elements
  <2>7. FrameInv'
    <3>1. \A r \in Elements(toServer)' \cup {k.req : k \in jobs'} \cup (Replies' \ {NoReply}) :
              \/ r \in Elements(toServer) \cup {k.req : k \in jobs} \cup (Replies \ {NoReply})
              \/ r = a
      BY <2>1, <2>3 DEF Elements
    <3>2. Sent(x) /\ a.session = session[x]
      BY <2>4 DEF IInv, FrameInv
    <3>3. \A r \in Elements(toServer)' \cup {k.req : k \in jobs'} \cup (Replies' \ {NoReply}) :
              Sent(r.of)' /\ r.session = session'[r.of]
      BY <1>0, <2>4, <3>1, <3>2, SentSame, Travelling DEF IInv, FrameInv
    <3>4. \A y \in ran' : Sent(y)'
      BY <2>1, SentSame DEF IInv, FrameInv, TypeOK, ServerTypeOK
    <3> QED BY <3>3, <3>4, Zenon DEF FrameInv
  <2> QED BY <2>6, <2>7, ServerFrame
<1> QED BY <1>2, <1>3

\* Cutting the connection takes nothing back.
LEMMA UnchangedInv ==
  ASSUME TypeOK, IInv, Sever \/ UNCHANGED vars PROVE IInv'
<1>1. UNCHANGED <<toServer, toClient, serviceVars, serverVars>>
  BY DEF Sever, vars, netVars
<1>2. UNCHANGED <<jobs, ran>> /\ Replies' = Replies
  BY <1>1, SentSame DEF serverVars
<1>3. FrameInv' /\ OnceInv'
  BY <1>1, <1>2, SentSame, FrameQuiet, OnceQuiet DEF IInv, Elements
<1> QED BY <1>1, <1>3, ServerFrame

-----------------------------------------------------------------------------
(***************************************************************************)
(* Theorems.                                                               *)
(***************************************************************************)
LEMMA InvStep == TypeOK /\ IInv /\ [Next]_vars => IInv'
<1> SUFFICES ASSUME TypeOK, IInv, [Next]_vars PROVE IInv' OBVIOUS
<1>1. CASE ServiceNext /\ UNCHANGED serverVars
  BY <1>1, NumberingStep, CallStepInv, PostStepInv, ReaderStepInv, CloseStepInv DEF ServiceNext
<1>2. CASE ServerNext /\ UNCHANGED serviceVars
  BY <1>2, QuietServerInv, ServeInv, JobStepInv DEF ServerNext
<1>3. CASE Sever \/ UNCHANGED vars
  BY <1>3, UnchangedInv
<1> QED BY <1>1, <1>2, <1>3 DEF Next

THEOREM Inductive == Spec => [](TypeOK /\ IInv)
<1>1. Spec => []IInv
  BY IInvInit, InvStep, TypeCorrect, PTL DEF Spec
<1> QED BY <1>1, TypeCorrect, PTL

\* A call only returns a message with its own SessionID, across any number of
\* wraps of the counter (readLoop's unlocked send, Call's deferred delete).
THEOREM SessionMatchHolds == Spec => []SessionMatch
<1>1. IInv => SessionMatch
  BY DEF IInv, ChannelInv, SessionMatch
<1> QED BY <1>1, Inductive, PTL

\* As long as its number is its own, whatever a call is handed answers that very call.
LEMMA OwnAnswer ==
  ASSUME TypeOK, IInv, NEW c \in Calls, OwnNumber(c), got[c] # NoReply
  PROVE  got[c].of = c /\ got[c] \in Replies
<1>1. got[c] \in Replies \ {NoReply} /\ c \in Senders
  BY DEF Replies, Senders
<1>2. Sent(got[c].of) /\ session[got[c].of] = session[c] /\ got[c].of \in Senders
  BY <1>1, Travelling DEF IInv, FrameInv, ChannelInv
<1>3. Numbered(c) /\ Numbered(got[c].of)
  BY <1>2 DEF IInv, ChannelInv, Sent
<1>4. Sole(c)
  BY <1>1, <1>3 DEF OwnNumber, Sole, IInv, NumberInv
<1> QED BY <1>1, <1>2, <1>3, <1>4 DEF Sole

\* As long as its number is its own, what a call returns answers its own request
\* (REQ-TCP-009).
THEOREM CorrelatedHolds == Spec => []Correlated
<1>1. TypeOK /\ IInv => Correlated
  BY OwnAnswer DEF Correlated
<1> QED BY <1>1, Inductive, PTL

\* The pending map never keeps a channel of a call that has returned.
THEOREM NoStrayEntryHolds == Spec => []NoStrayEntry
<1>1. IInv => NoStrayEntry
  BY DEF IInv, SlotInv, NoStrayEntry
<1> QED BY <1>1, Inductive, PTL

\* A request that is refused, for its interface or its method, is not executed,
\* now or later: it was in one place only.
THEOREM RefusedNotRunHolds == Spec => []RefusedNotRun
<1>1. TypeOK /\ IInv => RefusedNotRun
  <2> SUFFICES ASSUME TypeOK, IInv, NEW c \in Calls, OwnNumber(c), got[c].code \in {"UnknownMethod", "WrongInterface"}
               PROVE  c \notin ran
    BY DEF RefusedNotRun
  <2>1. got[c] # NoReply BY DEF NoReply
  <2> QED BY <2>1, OwnAnswer DEF IInv, OnceInv, Refusals
<1> QED BY <1>1, Inductive, PTL

\* Once Server.Close has returned, no request is taken off a connection any more:
\* s.wg counts acceptLoop and serveConn, and neither starts again.
THEOREM ServerCloseQuietHolds == Spec => ServerCloseQuiet
<1> DEFINE Stopped == srvClose = "returned" => LoopsDone
           Quiet == srvClose = "returned" => \A j \in jobs' : j.at = "lookup" => j \in jobs
<1>1. Init => Stopped
  BY DEF Init
<1>2. Stopped /\ [Next]_vars => Stopped'
  <2> SUFFICES ASSUME Stopped, [Next]_vars PROVE Stopped'
    OBVIOUS
  <2>1. CASE ServerNext
    BY <2>1 DEF ServerNext, RegisterAdmit, RegisterStore, Accept, AcceptFails, Serve, ServeFails,
       SrvCloseBegin, SrvCloseListener, SrvCloseReturn, JobLookup, JobRun, JobReply, loopVars, LoopsDone
  <2>2. CASE UNCHANGED serverVars
    BY <2>2 DEF serverVars, loopVars, LoopsDone
  <2> QED BY <2>1, <2>2 DEF Next, Sever, vars
<1>3. Stopped /\ [Next]_vars => [Quiet]_vars
  <2> SUFFICES ASSUME Stopped, Next, srvClose = "returned", NEW j \in jobs', j.at = "lookup" PROVE j \in jobs
    OBVIOUS
  <2>1. CASE UNCHANGED serverVars
    BY <2>1 DEF serverVars
  <2>2. ASSUME NEW k \in jobs, JobLookup(k) \/ JobRun(k) \/ JobReply(k) PROVE j \in jobs
    BY <2>2 DEF JobLookup, JobRun, JobReply, Advance
  <2>3. ASSUME ServerNext, ~ \E k \in jobs : JobLookup(k) \/ JobRun(k) \/ JobReply(k) PROVE j \in jobs
    BY <2>3 DEF ServerNext, RegisterAdmit, RegisterStore, Accept, AcceptFails, Serve, ServeFails,
       SrvCloseBegin, SrvCloseListener, SrvCloseReturn, LoopsDone
  <2> QED BY <2>1, <2>2, <2>3 DEF Next, Sever
<1> QED BY <1>1, <1>2, <1>3, PTL DEF Spec, ServerCloseQuiet

-----------------------------------------------------------------------------
(***************************************************************************)
(* Refinement of CallPromise, but for its fairness.                        *)
(***************************************************************************)
Phases == [c \in Calls |-> Phase(c)]
Verdicts == [c \in Calls |-> Verdict(c)]

\* A step that moves no call between phases, keeps what returned calls returned,
\* and runs no handler of a call is a stutter of the promise.
LEMMA PromiseStutter ==
  ASSUME \A c \in Calls : Phase(c)' = Phase(c) /\ Verdict(c)' = Verdict(c), ran' \cap Calls = ran \cap Calls
  PROVE  UNCHANGED <<Phases, Verdicts, ran \cap Calls>>
  BY DEF Phases, Verdicts

\* Steps of an operation other than its first and its last.
LEMMA InsideStutter ==
  ASSUME TypeOK, NEW x \in Senders, UNCHANGED ran,
         \A y \in Senders : y # x => pc'[y] = pc[y] /\ result'[y] = result[y],
         \A y \in Calls : y # x => got'[y] = got[y],
         x \in Calls => /\ pc[x] \in {"admitted", "numbered", "pending", "waiting", "leaving"}
                        /\ pc'[x] \in {"admitted", "numbered", "pending", "waiting", "leaving"}
  PROVE  UNCHANGED <<Phases, Verdicts, ran \cap Calls>>
<1> Calls \subseteq Senders BY DEF Senders
<1>1. ASSUME NEW c \in Calls PROVE Phase(c)' = Phase(c) /\ Verdict(c)' = Verdict(c)
  <2>1. CASE c = x
    <3>1. /\ pc[c] \in {"admitted", "numbered", "pending", "waiting", "leaving"}
          /\ pc'[c] \in {"admitted", "numbered", "pending", "waiting", "leaving"}
      BY <2>1
    <3>2. Phase(c) = "open" /\ Verdict(c) = "none"
      BY <3>1 DEF Phase, Verdict, Returned
    <3>3. Phase(c)' = "open" /\ Verdict(c)' = "none"
      BY <3>1 DEF Phase, Verdict, Returned
    <3> QED BY <3>2, <3>3
  <2>2. CASE c # x
    <3>1. pc'[c] = pc[c] /\ result'[c] = result[c] /\ got'[c] = got[c]
      BY <2>2
    <3> QED BY <3>1 DEF Phase, Verdict, Returned
  <2> QED BY <2>1, <2>2
<1> QED BY <1>1, PromiseStutter

\* Call is accepted, or refused because the service is closed.
LEMMA PromiseEnter ==
  ASSUME TypeOK, NEW c \in Calls, Enter(c) \/ EnterClosed(c), UNCHANGED serverVars
  PROVE  Promise!Open(c) \/ Promise!Refuse(c)
<1>0. /\ Calls \subseteq Senders /\ ran' = ran
      /\ pc \in [Senders -> {"idle", "admitted", "numbered", "pending", "waiting", "leaving", "returned"}]
      /\ result \in [Senders -> {"none", "answer", "sent", "sendError", "gaveUp", "ErrClosed"}]
  BY DEF TypeOK, ServiceTypeOK, Senders, serverVars
<1> USE DEF Goto, Outcome
<1>1. \A d \in Calls : d # c => Phase(d)' = Phase(d) /\ Verdict(d)' = Verdict(d)
  BY <1>0 DEF Enter, EnterClosed, Phase, Verdict, Returned
<1>2. CASE Enter(c)
  <2>1. Phase(c) = "idle" /\ Phase(c)' = "open" /\ Verdict(c)' = Verdict(c)
    BY <1>0, <1>2 DEF Enter, Phase, Verdict, Returned
  <2>2. Phases[c] = "idle" /\ Phases' = [Phases EXCEPT ![c] = "open"] /\ Verdicts' = Verdicts
    BY <1>1, <2>1 DEF Phases, Verdicts
  <2> QED BY <1>0, <2>2 DEF Promise!Open, Phases, Verdicts
<1>3. CASE EnterClosed(c)
  <2>1. Phase(c) = "idle" /\ Phase(c)' = "done" /\ Verdict(c)' = "ErrClosed"
    BY <1>0, <1>3 DEF EnterClosed, Phase, Verdict, Returned
  <2>2. /\ Phases[c] = "idle" /\ Phases' = [Phases EXCEPT ![c] = "done"]
        /\ Verdicts' = [Verdicts EXCEPT ![c] = "ErrClosed"]
    BY <1>1, <2>1 DEF Phases, Verdicts
  <2> QED BY <1>0, <2>2 DEF Promise!Refuse, Phases, Verdicts
<1> QED BY <1>2, <1>3

\* Call returns: with an error of its own, or with the server's verdict on it.
LEMMA PromiseReturn ==
  ASSUME TypeOK, IInv, ~wrapped, NEW c \in Calls, Cleanup(c), UNCHANGED serverVars
  PROVE  Promise!Finish(c)
<1>0. /\ Calls \subseteq Senders /\ UNCHANGED <<ran, result, got>>
      /\ pc \in [Senders -> {"idle", "admitted", "numbered", "pending", "waiting", "leaving", "returned"}]
      /\ got \in [Calls -> Reply \cup {NoReply}]
      /\ pc[c] = "leaving" /\ pc' = [pc EXCEPT ![c] = "returned"]
  BY DEF TypeOK, ServiceTypeOK, Senders, serverVars, Cleanup, Goto
<1>1. \A d \in Calls : d # c => Phase(d)' = Phase(d) /\ Verdict(d)' = Verdict(d)
  BY <1>0 DEF Phase, Verdict, Returned
<1>2. Phase(c) = "open" /\ Phase(c)' = "done"
  BY <1>0 DEF Phase
<1>3. Verdict(c)' \in Promise!Executions \cup Promise!Failures
  <2>1. CASE result[c] = "answer"
    <3>1. got[c] \in Reply /\ Verdict(c)' = got[c].code
      BY <1>0, <2>1 DEF IInv, RefusalInv, Verdict, Returned
    <3> QED BY <3>1 DEF Reply, Codes, Promise!Executions, Promise!Failures
  <2>2. CASE result[c] # "answer"
    <3>1. result[c] # "ErrClosed"
      BY <1>0 DEF IInv, RefusalInv
    <3>2. Verdict(c)' = "failed"
      BY <1>0, <2>2, <3>1 DEF Verdict, Returned
    <3> QED BY <3>2 DEF Promise!Failures
  <2> QED BY <2>1, <2>2
<1>4. Verdict(c)' \in Promise!Executions => c \in ran
  <2> SUFFICES ASSUME Verdict(c)' \in Promise!Executions PROVE c \in ran OBVIOUS
  <2>1. result[c] = "answer" /\ got[c].code \in Executions
    BY <1>0 DEF Verdict, Returned, Promise!Executions, Executions
  <2>2. got[c] # NoReply
    BY <2>1 DEF IInv, RefusalInv
  <2> QED BY <2>1, <2>2, OwnAnswer DEF OwnNumber, IInv, OnceInv
<1>5. /\ Phases[c] = "open" /\ Phases' = [Phases EXCEPT ![c] = "done"]
      /\ Verdicts' = [Verdicts EXCEPT ![c] = Verdict(c)']
  BY <1>1, <1>2 DEF Phases, Verdicts
<1>6. Promise!Return(c, Verdict(c)')
  BY <1>0, <1>3, <1>4, <1>5 DEF Promise!Return, Phases, Verdicts
<1> QED BY <1>3, <1>6 DEF Promise!Finish

\* A handler runs for a call that was accepted, maybe after it has given up.
LEMMA PromiseExecute ==
  ASSUME TypeOK, IInv, NEW j \in jobs, JobRun(j), j.req.of \in Calls, UNCHANGED serviceVars
  PROVE  Promise!Execute(j.req.of)
<1> DEFINE c == j.req.of
<1>1. Sent(c) /\ c \in Senders
  BY DEF IInv, FrameInv, Senders
<1>2. Phase(c) # "idle" /\ Verdict(c) # "ErrClosed"
  <2>1. result[c] = "answer" => got[c].code # "ErrClosed"
    BY DEF TypeOK, ServiceTypeOK, Reply, NoReply, Codes
  <2> QED BY <1>1, <2>1 DEF Sent, Numbered, Phase, Verdict, Returned
<1>3. UNCHANGED <<Phases, Verdicts>>
  BY DEF serviceVars, callVars, Phases, Verdicts, Phase, Verdict, Returned
<1>4. ran' \cap Calls = (ran \cap Calls) \cup {c}
  BY DEF JobRun
<1> QED BY <1>2, <1>3, <1>4 DEF Promise!Execute, Phases, Verdicts

LEMMA PromiseService ==
  ASSUME TypeOK, IInv, ~wrapped, ServiceNext, UNCHANGED serverVars
  PROVE  [Promise!Next]_(Promise!vars)
<1> USE DEF Goto, Outcome
<1>0. /\ ran' = ran /\ Calls \subseteq Senders /\ Posts \subseteq Senders /\ Calls \cap Posts = {}
      /\ pc \in [Senders -> {"idle", "admitted", "numbered", "pending", "waiting", "leaving", "returned"}]
      /\ result \in [Senders -> {"none", "answer", "sent", "sendError", "gaveUp", "ErrClosed"}]
      /\ got \in [Calls -> Reply \cup {NoReply}]
  BY SenderAssumption DEF TypeOK, ServiceTypeOK, Senders, serverVars
<1> DEFINE Stutter == UNCHANGED <<Phases, Verdicts, ran \cap Calls>>
<1>1. ASSUME NEW c \in Calls, Enter(c) \/ EnterClosed(c) PROVE Promise!Next
  BY <1>1, PromiseEnter DEF Promise!Next
<1>2. ASSUME NEW p \in Posts, Enter(p) \/ EnterClosed(p) \/ PostStep(p) PROVE Stutter
  <2>1. /\ \A y \in Senders : y # p => pc'[y] = pc[y] /\ result'[y] = result[y]
        /\ got' = got
    BY <1>0, <1>2 DEF Enter, EnterClosed, PostStep, Post, PostFails
  <2> QED BY <1>0, <2>1, InsideStutter
<1>3. ASSUME NEW x \in Senders, NextSession(x) PROVE Stutter
  <2>1. /\ \A y \in Senders : y # x => pc'[y] = pc[y] /\ result'[y] = result[y]
        /\ got' = got /\ pc[x] = "admitted" /\ pc'[x] = "numbered"
    BY <1>0, <1>3 DEF NextSession
  <2> QED BY <1>0, <2>1, InsideStutter
<1>4. ASSUME NEW c \in Calls, Register(c) \/ Send(c) \/ SendFails(c) \/ GiveUp(c) \/ Answer(c) PROVE Stutter
  <2>1. /\ \A y \in Senders : y # c => pc'[y] = pc[y] /\ result'[y] = result[y]
        /\ \A y \in Calls : y # c => got'[y] = got[y]
        /\ pc[c] \in {"numbered", "pending", "waiting"} /\ pc'[c] \in {"pending", "waiting", "leaving"}
    BY <1>0, <1>4 DEF Register, Send, SendFails, GiveUp, Answer
  <2> QED BY <1>0, <2>1, InsideStutter
<1>5. ASSUME NEW c \in Calls, Cleanup(c) PROVE Promise!Next
  BY <1>5, PromiseReturn DEF Promise!Next
<1>6. ASSUME Read \/ ReaderStep \/ CloseBegin \/ CloseConn \/ CloseReturn PROVE Stutter
  <2>1. UNCHANGED <<pc, result, got>>
    BY <1>6 DEF Read, ReaderStep, ReadFails, Lookup, Deliver, CloseBegin, CloseConn, CloseReturn, callVars
  <2> QED BY <1>0, <2>1 DEF Phases, Verdicts, Phase, Verdict, Returned
<1>7. Promise!Next \/ Stutter
  <2> HIDE DEF Stutter
  <2>1. ASSUME NEW x \in Senders, Enter(x) \/ EnterClosed(x) \/ NextSession(x) PROVE Promise!Next \/ Stutter
    BY <1>1, <1>2, <1>3, <2>1 DEF Senders
  <2>2. ASSUME NEW c \in Calls, CallStep(c) \/ Answer(c) PROVE Promise!Next \/ Stutter
    BY <1>4, <1>5, <2>2 DEF CallStep
  <2>3. ASSUME NEW p \in Posts, PostStep(p) PROVE Promise!Next \/ Stutter
    BY <1>2, <2>3
  <2> QED BY <1>6, <2>1, <2>2, <2>3 DEF ServiceNext
<1> QED BY <1>7 DEF Promise!vars, Phases, Verdicts

LEMMA PromiseServer ==
  ASSUME TypeOK, IInv, ServerNext, UNCHANGED serviceVars
  PROVE  [Promise!Next]_(Promise!vars)
<1>1. UNCHANGED <<Phases, Verdicts>>
  BY DEF serviceVars, callVars, Phases, Verdicts, Phase, Verdict, Returned
<1>2. ASSUME NEW j \in jobs, JobRun(j) PROVE Promise!Next \/ ran' \cap Calls = ran \cap Calls
  <2>1. CASE j.req.of \in Calls
    BY <1>2, <2>1, PromiseExecute DEF Promise!Next
  <2>2. CASE j.req.of \notin Calls
    BY <1>2, <2>2 DEF JobRun
  <2> QED BY <2>1, <2>2
<1>3. (\E j \in jobs : JobRun(j)) \/ ran' = ran
  BY DEF ServerNext, RegisterAdmit, RegisterStore, Accept, AcceptFails, Serve, ServeFails, SrvCloseBegin,
         SrvCloseListener, SrvCloseReturn, JobLookup, JobReply
<1> QED BY <1>1, <1>2, <1>3 DEF Promise!vars, Phases, Verdicts

\* As long as the counter does not wrap, TCP implements CallPromise: a call ends
\* at most once, refused, with an error of its own or with the server's verdict
\* on this very call, and is told that its handler ran only if it did.
THEOREM PromiseKept == Spec /\ []~wrapped => Promise!Init /\ [][Promise!Next]_(Promise!vars)
<1>1. Init => Promise!Init
  BY DEF Init, Promise!Init, Phase, Verdict, Returned, Senders
<1>2. TypeOK /\ IInv /\ ~wrapped /\ [Next]_vars => [Promise!Next]_(Promise!vars)
  <2> SUFFICES ASSUME TypeOK, IInv, ~wrapped, [Next]_vars PROVE [Promise!Next]_(Promise!vars)
    OBVIOUS
  <2>1. CASE ServiceNext /\ UNCHANGED serverVars
    BY <2>1, PromiseService
  <2>2. CASE ServerNext /\ UNCHANGED serviceVars
    BY <2>2, PromiseServer
  <2>3. CASE Sever \/ UNCHANGED vars
    <3>1. UNCHANGED <<pc, result, got, ran>>
      BY <2>3 DEF Sever, vars, serviceVars, serverVars, callVars
    <3> QED BY <3>1 DEF Promise!vars, Phase, Verdict, Returned
  <2> QED BY <2>1, <2>2, <2>3 DEF Next
<1> QED BY <1>1, <1>2, Inductive, PTL DEF Spec
=============================================================================
