--------------------------- MODULE UdpCallsProofs ---------------------------
(***************************************************************************)
(* Theorems about UdpCalls, for any number of calls, any SessionID width   *)
(* and any number of wraps of the counter.                                 *)
(***************************************************************************)
EXTENDS UdpCalls, TLAPS

\* An empty channel is not mistaken for a response.
LEMMA NoReplyIsNoReply == NoReply \notin Reply
  BY SendersAssumption DEF NoReply, Reply, Senders

\* nextSession's increment stays within the width of the counter.
LEMMA BumpType == ASSUME NEW n \in Sessions PROVE Bump(n) \in Sessions
  BY SessionAssumption DEF Bump, Sessions

-----------------------------------------------------------------------------
(***************************************************************************)
(* Type correctness.                                                       *)
(***************************************************************************)
LEMMA TypeInit == Init => TypeOK
<1> 0 \in Sessions BY SessionAssumption DEF Sessions
<1> SUFFICES ASSUME Init PROVE TypeOK OBVIOUS
<1>1. NetTypeOK BY DEF Init, NetInit, NetTypeOK
<1>2. ServiceTypeOK BY DEF Init, ServiceInit, ServiceTypeOK, PcValues, Results
<1>3. ServerTypeOK BY DEF Init, ServerInit, ServerTypeOK
<1> QED BY <1>1, <1>2, <1>3 DEF TypeOK

\* The types of the network and of the client survive every client step.
LEMMA TypeService ==
  ASSUME TypeOK, ServiceNext, UNCHANGED serverVars PROVE TypeOK'
<1>0. ServerTypeOK'
  BY DEF TypeOK, ServerTypeOK, serverVars
<1>1. ASSUME NEW x \in Senders, SenderStep(x) PROVE NetTypeOK' /\ ServiceTypeOK'
  BY <1>1, BumpType DEF TypeOK, NetTypeOK, ServiceTypeOK, SenderStep, Enter, EnterClosed, NextSession,
     Goto, Outcome, PcValues, Results, netVars, readerVars
<1>2. ASSUME NEW c \in Calls, CallStep(c) PROVE NetTypeOK' /\ ServiceTypeOK'
  <2> c \in Senders BY DEF Senders
  <2>1. CASE Register(c)
    BY <2>1 DEF TypeOK, NetTypeOK, ServiceTypeOK, Register, Goto, PendingKey, PcValues, netVars, readerVars
  <2>2. CASE Send(c)
    BY <2>2 DEF TypeOK, NetTypeOK, ServiceTypeOK, Send, Goto, RequestOf, Request, PcValues, readerVars
  <2>3. CASE SendFails(c) \/ GiveUp(c)
    BY <2>3 DEF TypeOK, NetTypeOK, ServiceTypeOK, SendFails, GiveUp, Goto, Outcome, PcValues, Results,
       netVars, readerVars
  <2>4. CASE Answer(c)
    BY <2>4 DEF TypeOK, NetTypeOK, ServiceTypeOK, Answer, Goto, Outcome, PcValues, Results, netVars, readerVars
  <2>5. CASE Cleanup(c)
    BY <2>5 DEF TypeOK, NetTypeOK, ServiceTypeOK, Cleanup, Forget, Goto, PendingKey, PcValues, netVars, readerVars
  <2> QED BY <1>2, <2>1, <2>2, <2>3, <2>4, <2>5 DEF CallStep
<1>3. ASSUME NEW p \in Posts, PostStep(p) PROVE NetTypeOK' /\ ServiceTypeOK'
  <2> p \in Senders BY DEF Senders
  <2> QED
    BY <1>3 DEF TypeOK, NetTypeOK, ServiceTypeOK, PostStep, Post, PostFails, Goto, Outcome, RequestOf,
       Request, PcValues, Results, netVars, readerVars
<1>4. ASSUME ReaderStep PROVE NetTypeOK' /\ ServiceTypeOK'
  <2>1. CASE Read \/ ReadFails
    BY <2>1 DEF TypeOK, NetTypeOK, ServiceTypeOK, Read, ReadFails, callVars, netVars
  <2>2. CASE Lookup
    <3>1. frame.session \in Sessions
      BY SessionAssumption DEF TypeOK, ServiceTypeOK, Reply, NoReply, Sessions
    <3> QED BY <2>2, <3>1 DEF TypeOK, NetTypeOK, ServiceTypeOK, Lookup, callVars, netVars
  <2>3. CASE Deliver
    BY <2>3 DEF TypeOK, NetTypeOK, ServiceTypeOK, Deliver, Offer, netVars
  <2> QED BY <1>4, <2>1, <2>2, <2>3 DEF ReaderStep
<1>5. ASSUME CloseStep PROVE NetTypeOK' /\ ServiceTypeOK'
  BY <1>5 DEF TypeOK, NetTypeOK, ServiceTypeOK, CloseStep, CloseBegin, CloseSocket, CloseReturn,
     callVars, readerVars, netVars
<1> QED BY <1>0, <1>1, <1>2, <1>3, <1>4, <1>5 DEF TypeOK, ServiceNext

\* ... and every server step.
LEMMA TypeServer ==
  ASSUME TypeOK, ServerNext, UNCHANGED serviceVars PROVE TypeOK'
<1>0. ServiceTypeOK'
  BY DEF TypeOK, ServiceTypeOK, serviceVars, callVars, readerVars
<1>1. ASSUME NEW m \in Methods, MethodStep(m) PROVE NetTypeOK' /\ ServerTypeOK'
  BY <1>1 DEF TypeOK, NetTypeOK, ServerTypeOK, MethodStep, RegisterAdmit, RegisterStore, netVars
<1>2. CASE ServerRead \/ ServerReadFails
  BY <1>0, <1>2 DEF TypeOK, NetTypeOK, ServerTypeOK, ServerRead, ServerReadFails, Job, netVars
<1>3. ASSUME NEW j \in jobs, JobStep(j) PROVE NetTypeOK' /\ ServerTypeOK'
  <2> j \in Job BY DEF TypeOK, ServerTypeOK
  <2>1. CASE JobLookup(j)
    BY <2>1 DEF TypeOK, NetTypeOK, ServerTypeOK, JobLookup, MissingCode, Advance, Job, Codes, netVars
  <2>2. CASE JobRun(j)
    BY <2>2, HandlerAssumption DEF TypeOK, NetTypeOK, ServerTypeOK, JobRun, Advance, Job, Codes, Request, netVars
  <2>3. CASE JobReply(j)
    <3>1. j.at = "reply" => ReplyTo(j.req, j.code) \in Reply
      BY DEF ReplyTo, Reply, Job, Request, Codes
    <3> QED BY <2>3, <3>1 DEF TypeOK, NetTypeOK, ServerTypeOK, JobReply
  <2> QED BY <1>3, <2>1, <2>2, <2>3 DEF JobStep
<1>4. CASE ServerCloseStep
  BY <1>0, <1>4 DEF TypeOK, NetTypeOK, ServerTypeOK, ServerCloseStep, ServerCloseBegin, ServerCloseSocket,
     ServerCloseReturn, netVars
<1> QED BY <1>0, <1>1, <1>2, <1>3, <1>4 DEF TypeOK, ServerNext

\* Every variable of the transport keeps its type through every interleaving
\* of callers, read loops, handler goroutines and the two Close calls.
THEOREM TypeCorrect == Spec => []TypeOK
<1>1. TypeOK /\ [Next]_vars => TypeOK'
  <2> SUFFICES ASSUME TypeOK, [Next]_vars PROVE TypeOK' OBVIOUS
  <2>1. CASE UNCHANGED vars
    BY <2>1 DEF vars, netVars, serviceVars, serverVars, callVars, readerVars, TypeOK, NetTypeOK,
       ServiceTypeOK, ServerTypeOK
  <2> QED BY <2>1, TypeService, TypeServer DEF Next
<1> QED BY TypeInit, <1>1, PTL DEF Spec
-----------------------------------------------------------------------------
(***************************************************************************)
(* The inductive invariant: initially, and across the client's steps.      *)
(***************************************************************************)
LEMMA IInvInit == Init => IInv
<1> SUFFICES ASSUME Init PROVE IInv OBVIOUS
<1> USE DEF Init, NetInit, ServiceInit, ServerInit
<1>0. RefusalInv BY DEF RefusalInv
<1>1. SlotInv /\ ReaderInv BY DEF SlotInv, ReaderInv
<1>2. ChannelInv BY DEF ChannelInv
<1>3. NumberInv BY DEF NumberInv, Numbered
<1>4. OwnerInv BY DEF OwnerInv, Senders
<1>5. FrameInv BY DEF FrameInv
<1>6. AnswerInv BY DEF AnswerInv
<1> QED BY <1>0, <1>1, <1>2, <1>3, <1>4, <1>5, <1>6 DEF IInv

\* A number that was given to nobody else by now was not given to anybody before.
LEMMA SoleKept ==
  ASSUME NEW c \in Senders, Numbered(c), Sole(c)',
         \A y \in Senders : Numbered(y) => Numbered(y)' /\ session'[y] = session[y]
  PROVE  Sole(c)
<1>1. ASSUME NEW y \in Senders \ {c}, Numbered(y) PROVE session[y] # session[c]
  <2>1. Numbered(y)' /\ session'[y] = session[y] /\ session'[c] = session[c]
    BY <1>1
  <2> QED BY <2>1, Zenon DEF Sole
<1> QED BY <1>1 DEF Sole

\* The number of a call that has one is its own before the counter wraps.
LEMMA SoleBefore ==
  ASSUME NumberInv, NEW c \in Senders, Numbered(c), OwnNumber(c) PROVE Sole(c)
  BY DEF OwnNumber, Sole, NumberInv

\* nextSession gives out a number no operation holds, unless the counter wraps,
\* and leaves every slot, frame and channel as it was.
LEMMA NumberingStep ==
  ASSUME TypeOK, IInv, UNCHANGED serverVars, NEW x \in Senders, SenderStep(x) PROVE IInv'
<1> USE DEF Numbered, Goto, Outcome
<1> pc \in [Senders -> PcValues] /\ session \in [Senders -> Sessions] /\ Calls \subseteq Senders
    /\ sessionID \in Sessions /\ pending \in [Sessions -> Calls \cup {NoCall}]
    /\ result \in [Senders -> Results]
  BY DEF TypeOK, ServiceTypeOK, Senders
<1>1. \A y \in Senders : Numbered(y) => Numbered(y)' /\ session'[y] = session[y]
  BY DEF SenderStep, Enter, EnterClosed, NextSession, PcValues
<1>0. RefusalInv'
  BY DEF IInv, RefusalInv, SenderStep, Enter, EnterClosed, NextSession
<1>2. SlotInv'
  BY <1>1 DEF IInv, SlotInv, SenderStep, Enter, EnterClosed, NextSession
<1>3. ReaderInv'
  BY <1>1 DEF IInv, ReaderInv, SenderStep, Enter, EnterClosed, NextSession, readerVars
<1>4. ChannelInv'
  BY <1>1 DEF IInv, ChannelInv, SenderStep, Enter, EnterClosed, NextSession
<1>5. NumberInv'
  <2>1. CASE Enter(x) \/ EnterClosed(x)
    BY <2>1 DEF IInv, NumberInv, Enter, EnterClosed
  <2>2. CASE NextSession(x)
    <3> SUFFICES ASSUME ~wrapped' PROVE NumberInv' BY DEF NumberInv
    <3>1. ~wrapped /\ sessionID' = sessionID + 1 /\ session' = [session EXCEPT ![x] = sessionID + 1]
      BY <2>2 DEF NextSession, Bump
    <3>2. \A y \in Senders : Numbered(y)' => Numbered(y) \/ y = x
      BY <2>2 DEF NextSession
    <3>3. \A y \in Senders : Numbered(y) => y # x /\ session[y] \in 1..sessionID
      BY <2>2, <3>1 DEF NextSession, IInv, NumberInv
    <3>4. sessionID \in Nat BY SessionAssumption DEF Sessions
    <3>5. session'[x] = sessionID + 1 /\ \A y \in Senders : y # x => session'[y] = session[y]
      BY <3>1
    <3>6. sessionID + 1 \in 1..(sessionID + 1) /\ \A n \in 1..sessionID : n \in 1..(sessionID + 1) /\ n # sessionID + 1
      BY <3>4
    <3>7. \A y \in Senders : Numbered(y)' /\ y # x => session[y] \in 1..sessionID
      BY <3>2, <3>3
    <3>8. \A y \in Senders : Numbered(y)' => session'[y] \in 1..sessionID'
      BY <3>1, <3>5, <3>6, <3>7
    <3>9. ASSUME NEW y \in Senders, NEW z \in Senders, Numbered(y)', Numbered(z)', y # z
          PROVE  session'[y] # session'[z]
      <4>1. CASE y = x \/ z = x BY <4>1, <3>5, <3>6, <3>7, <3>9
      <4>2. CASE y # x /\ z # x BY <4>2, <3>1, <3>2, <3>5, <3>9 DEF IInv, NumberInv
      <4> QED BY <4>1, <4>2
    <3> HIDE DEF Numbered
    <3> QED BY <3>8, <3>9 DEF NumberInv
  <2> QED BY <2>1, <2>2 DEF SenderStep
<1>6. OwnerInv'
  <2> SUFFICES ASSUME NEW c \in Calls, pc'[c] \in {"pending", "waiting", "leaving"}, Sole(c)'
               PROVE  pending'[session'[c]] = c
    BY DEF OwnerInv
  <2>1. pc[c] = pc'[c] /\ session'[c] = session[c] /\ pending' = pending
    BY DEF SenderStep, Enter, EnterClosed, NextSession
  <2>2. Numbered(c)
    BY <2>1 DEF IInv, RefusalInv
  <2>3. Sole(c)
    BY <1>1, <2>2, SoleKept
  <2> QED BY <2>1, <2>3 DEF IInv, OwnerInv
<1>7. FrameInv'
  <2>1. \A r \in requests \cup replies \cup {j.req : j \in jobs} : r.of \in Senders
    BY DEF TypeOK, NetTypeOK, ServerTypeOK, Request, Reply, Job
  <2> QED BY <1>1, <2>1 DEF IInv, FrameInv, SenderStep, Enter, EnterClosed, NextSession, serverVars, netVars,
           readerVars
<1>8. AnswerInv'
  BY DEF IInv, AnswerInv, SenderStep, Enter, EnterClosed, NextSession, serverVars, netVars
<1> QED BY <1>0, <1>2, <1>3, <1>4, <1>5, <1>6, <1>7, <1>8 DEF IInv
\* The steps of a Call after its number: filing, sending, waking, cleaning up.
LEMMA CallStepInv ==
  ASSUME TypeOK, IInv, UNCHANGED serverVars, NEW c \in Calls, CallStep(c) PROVE IInv'
<1> USE DEF Goto, Outcome, PendingKey, Forget
<1>0. /\ c \in Senders /\ Calls \subseteq Senders /\ NoCall \notin Calls
      /\ pc \in [Senders -> PcValues] /\ result \in [Senders -> Results]
      /\ session \in [Senders -> Sessions] /\ pending \in [Sessions -> Calls \cup {NoCall}]
      /\ replyCh \in [Calls -> Reply \cup {NoReply}] /\ got \in [Calls -> Reply \cup {NoReply}]
      /\ requests \cup {RequestOf(c)} \subseteq Request
  BY SendersAssumption DEF TypeOK, NetTypeOK, ServiceTypeOK, Senders, RequestOf, Request
<1>1. /\ session' = session /\ sessionID' = sessionID /\ wrapped' = wrapped /\ replies' = replies
      /\ readerPc' = readerPc /\ frame' = frame /\ target' = target
      /\ jobs' = jobs /\ ran' = ran
  BY DEF CallStep, Register, Send, SendFails, Answer, GiveUp, Cleanup, netVars, readerVars, serverVars
<1>2. \A y \in Senders : (Numbered(y)' <=> Numbered(y)) /\ (y # c => pc'[y] = pc[y])
  BY <1>0 DEF CallStep, Register, Send, SendFails, Answer, GiveUp, Cleanup, Numbered, PcValues, IInv, RefusalInv
<1>3. RefusalInv'
  BY <1>0 DEF CallStep, Register, Send, SendFails, Answer, GiveUp, Cleanup, PcValues, IInv, RefusalInv
<1>4. SlotInv'
  <2>1. CASE Register(c) BY <1>0, <2>1 DEF Register, IInv, SlotInv, PcValues
  <2>2. CASE Cleanup(c) BY <1>0, <2>2 DEF Cleanup, IInv, SlotInv, PcValues
  <2>3. CASE Send(c) \/ SendFails(c) \/ Answer(c) \/ GiveUp(c)
    BY <1>0, <2>3 DEF Send, SendFails, Answer, GiveUp, IInv, SlotInv, PcValues
  <2> QED BY <2>1, <2>2, <2>3 DEF CallStep
<1>5. ReaderInv'
  BY <1>0, <1>1, <1>2 DEF IInv, ReaderInv
<1>6. \/ replyCh' = replyCh /\ got' = got
      \/ Answer(c) /\ got' = [got EXCEPT ![c] = replyCh[c]] /\ replyCh' = [replyCh EXCEPT ![c] = NoReply]
  <2>1. CASE Answer(c) BY <2>1 DEF Answer
  <2>2. CASE ~Answer(c) BY <2>2 DEF CallStep, Register, Send, SendFails, GiveUp, Cleanup
  <2> QED BY <2>1, <2>2
<1>7. \A d \in Calls : {replyCh'[d], got'[d]} \subseteq {replyCh[d], got[d], NoReply}
  BY <1>0, <1>6
<1>8. ChannelInv'
  BY <1>0, <1>1, <1>2, <1>7 DEF IInv, ChannelInv
<1>9. NumberInv'
  BY <1>1, <1>2 DEF IInv, NumberInv
<1>10. OwnerInv'
  <2> SUFFICES ASSUME NEW d \in Calls, pc'[d] \in {"pending", "waiting", "leaving"}, Sole(d)'
               PROVE pending'[session[d]] = d
    BY <1>1 DEF OwnerInv
  <2>0. Sole(d)
    BY <1>1, <1>2 DEF Sole
  <2>1. CASE d = c
    <3>1. pc[c] = "numbered" => pending' = [pending EXCEPT ![session[c]] = c]
      BY <1>0 DEF CallStep, Register, Send, SendFails, Answer, GiveUp, Cleanup
    <3>2. pc[c] # "numbered" => pc[c] \in {"pending", "waiting"} /\ pending' = pending
      BY <1>0, <2>1 DEF CallStep, Register, Send, SendFails, Answer, GiveUp, Cleanup, PcValues
    <3> QED BY <1>0, <2>0, <2>1, <3>1, <3>2 DEF IInv, OwnerInv
  <2>2. CASE d # c
    <3>1. pending[session[d]] = d
      BY <1>0, <1>2, <2>0, <2>2 DEF IInv, OwnerInv
    <3>2. Numbered(c) /\ Numbered(d)
      BY <1>0, <1>2, <2>2 DEF CallStep, Register, Send, SendFails, Answer, GiveUp, Cleanup, Numbered, IInv, RefusalInv
    <3>3. session[c] # session[d]
      BY <1>0, <2>0, <2>2, <3>2 DEF Sole
    <3> QED BY <1>0, <3>1, <3>3 DEF CallStep, Register, Send, SendFails, Answer, GiveUp, Cleanup
  <2> QED BY <2>1, <2>2
<1>11. FrameInv'
  <2>1. requests' \in {requests, requests \cup {RequestOf(c)}} /\ (requests' # requests => Numbered(c))
    BY <1>0 DEF CallStep, Register, Send, SendFails, Answer, GiveUp, Cleanup, netVars, Numbered, IInv, RefusalInv
  <2>2. \A r \in requests \cup replies \cup {j.req : j \in jobs} : r.of \in Senders
    BY DEF TypeOK, NetTypeOK, ServerTypeOK, Request, Reply, Job
  <2>3. \A r \in requests' : r.of \in Senders /\ Numbered(r.of) /\ r.session = session[r.of]
    BY <1>0, <2>1, <2>2 DEF RequestOf, IInv, FrameInv
  <2> QED BY <1>0, <1>1, <1>2, <1>7, <2>2, <2>3 DEF IInv, FrameInv
<1>12. AnswerInv'
  BY <1>1 DEF IInv, AnswerInv
<1> QED BY <1>3, <1>4, <1>5, <1>8, <1>9, <1>10, <1>11, <1>12 DEF IInv

\* A fire-and-forget only adds its datagram to the network.
LEMMA PostStepInv ==
  ASSUME TypeOK, IInv, UNCHANGED serverVars, NEW p \in Posts, PostStep(p) PROVE IInv'
<1> USE DEF Goto, Outcome
<1>0. /\ p \in Senders /\ p \notin Calls /\ Calls \subseteq Senders
      /\ pc \in [Senders -> PcValues] /\ result \in [Senders -> Results]
      /\ pending \in [Sessions -> Calls \cup {NoCall}]
  BY SendersAssumption DEF TypeOK, ServiceTypeOK, Senders
<1>1. /\ session' = session /\ sessionID' = sessionID /\ wrapped' = wrapped /\ replies' = replies
      /\ readerPc' = readerPc /\ frame' = frame /\ target' = target /\ pending' = pending
      /\ jobs' = jobs /\ ran' = ran /\ replyCh' = replyCh /\ got' = got
  BY DEF PostStep, Post, PostFails, netVars, readerVars, serverVars
<1>2. \A y \in Senders : (Numbered(y)' <=> Numbered(y)) /\ (y # p => pc'[y] = pc[y])
  BY <1>0 DEF PostStep, Post, PostFails, Numbered, PcValues, IInv, RefusalInv
<1>3. RefusalInv'
  BY <1>0 DEF PostStep, Post, PostFails, PcValues, IInv, RefusalInv
<1>4. SlotInv' /\ OwnerInv'
  <2>1. \A c \in Calls : pc'[c] = pc[c] /\ (Sole(c)' <=> Sole(c))
    BY <1>0, <1>1, <1>2 DEF Sole
  <2> QED BY <1>0, <1>1, <2>1 DEF IInv, SlotInv, OwnerInv
<1>5. ReaderInv' /\ ChannelInv' /\ NumberInv'
  BY <1>0, <1>1, <1>2 DEF IInv, ReaderInv, ChannelInv, NumberInv
<1>6. FrameInv'
  <2>1. requests' \in {requests, requests \cup {RequestOf(p)}} /\ Numbered(p)
    BY <1>0 DEF PostStep, Post, PostFails, netVars, Numbered, IInv, RefusalInv
  <2>2. \A r \in requests \cup replies \cup {j.req : j \in jobs} : r.of \in Senders
    BY DEF TypeOK, NetTypeOK, ServerTypeOK, Request, Reply, Job
  <2>3. \A r \in requests' : r.of \in Senders /\ Numbered(r.of) /\ r.session = session[r.of]
    BY <1>0, <2>1, <2>2 DEF RequestOf, IInv, FrameInv
  <2> QED BY <1>0, <1>1, <1>2, <2>2, <2>3 DEF IInv, FrameInv
<1>7. AnswerInv'
  BY <1>1 DEF IInv, AnswerInv
<1> QED BY <1>3, <1>4, <1>5, <1>6, <1>7 DEF IInv

\* The read loop hands a frame to the call it looked up, which bears the
\* frame's number although svc.mu was released in between.
LEMMA ReaderStepInv ==
  ASSUME TypeOK, IInv, UNCHANGED serverVars, ReaderStep PROVE IInv'
<1>0. /\ NoCall \notin Calls /\ Calls \subseteq Senders
      /\ pending \in [Sessions -> Calls \cup {NoCall}]
      /\ frame \in Reply \cup {NoReply} /\ frame.session \in Sessions
      /\ replyCh \in [Calls -> Reply \cup {NoReply}]
  BY SendersAssumption, SessionAssumption
  DEF TypeOK, ServiceTypeOK, Senders, Reply, NoReply, Sessions
<1>1. /\ session' = session /\ sessionID' = sessionID /\ wrapped' = wrapped /\ pending' = pending
      /\ requests' = requests /\ replies' = replies /\ jobs' = jobs /\ ran' = ran
      /\ pc' = pc /\ result' = result /\ got' = got
  BY DEF ReaderStep, Read, ReadFails, Lookup, Deliver, netVars, callVars, serverVars
<1>2. RefusalInv' /\ SlotInv' /\ NumberInv' /\ OwnerInv' /\ AnswerInv'
  BY <1>1 DEF IInv, RefusalInv, SlotInv, NumberInv, OwnerInv, Sole, AnswerInv, Numbered
<1>3. ReaderInv'
  <2>1. CASE Read \/ ReadFails \/ Deliver
    BY <2>1 DEF Read, ReadFails, Deliver, ReaderInv
  <2>2. CASE Lookup
    <3> SUFFICES ASSUME readerPc' = "deliver" PROVE ReaderInv' BY DEF ReaderInv
    <3>1. target' = pending[frame.session] /\ target' # NoCall /\ frame' = frame
      BY <2>2 DEF Lookup
    <3>2. target' \in Calls /\ session[target'] = frame.session
          /\ pc[target'] \in {"pending", "waiting", "leaving"}
      BY <1>0, <3>1 DEF IInv, SlotInv
    <3>3. Numbered(target') BY <1>0, <3>2 DEF IInv, RefusalInv, Numbered
    <3> QED BY <1>1, <3>1, <3>2, <3>3 DEF ReaderInv, Numbered
  <2> QED BY <2>1, <2>2 DEF ReaderStep
<1>4. ASSUME NEW c \in Calls
      PROVE  \/ replyCh'[c] = replyCh[c]
             \/ Deliver /\ c = target /\ replyCh'[c] = frame
  <2>1. CASE Deliver BY <1>0, <2>1 DEF Deliver, Offer
  <2>2. CASE ~Deliver BY <2>2 DEF ReaderStep, Read, ReadFails, Lookup, callVars
  <2> QED BY <2>1, <2>2
<1>5. ChannelInv'
  BY <1>1, <1>4 DEF IInv, ChannelInv, ReaderInv, Deliver, Numbered
<1>6. FrameInv'
  <2>1. frame' \in replies \cup {NoReply}
    BY DEF ReaderStep, Read, ReadFails, Lookup, Deliver, IInv, FrameInv
  <2>2. \A c \in Calls : {replyCh'[c], got[c]} \subseteq replies \cup {NoReply}
    BY <1>4 DEF IInv, FrameInv
  <2> QED BY <1>1, <2>1, <2>2 DEF IInv, FrameInv, Numbered
<1> QED BY <1>2, <1>3, <1>5, <1>6 DEF IInv

\* Closing touches nothing the invariant speaks of.
LEMMA CloseStepInv ==
  ASSUME IInv, UNCHANGED serverVars, CloseStep PROVE IInv'
<1>1. UNCHANGED <<sessionID, wrapped, pending, callVars, readerVars, netVars, serverVars>>
  BY DEF CloseStep, CloseBegin, CloseSocket, CloseReturn
<1> QED BY <1>1 DEF IInv, RefusalInv, SlotInv, ReaderInv, ChannelInv, NumberInv, OwnerInv, Sole, FrameInv, AnswerInv,
           Numbered, callVars, readerVars, netVars, serverVars

-----------------------------------------------------------------------------
(***************************************************************************)
(* ... across the server's steps.                                          *)
(***************************************************************************)
\* A server step leaves the client alone; it is enough to look at what it
\* puts on the network and at the goroutines it leaves behind.
LEMMA ServerFrame ==
  ASSUME TypeOK, IInv, UNCHANGED serviceVars, requests' = requests,
         \A j \in jobs' : j.req \in requests \cup {k.req : k \in jobs},
         replies \subseteq replies',
         \A r \in replies' \ replies : r.of \in Senders /\ Numbered(r.of) /\ r.session = session[r.of],
         AnswerInv'
  PROVE  IInv'
<1>1. RefusalInv' /\ SlotInv' /\ ReaderInv' /\ ChannelInv' /\ NumberInv' /\ OwnerInv'
  BY DEF IInv, RefusalInv, SlotInv, ReaderInv, ChannelInv, NumberInv, OwnerInv, Sole, Numbered, serviceVars,
     callVars, readerVars
<1>2. FrameInv'
  BY DEF IInv, FrameInv, Numbered, serviceVars, callVars, readerVars
<1> QED BY <1>1, <1>2 DEF IInv

\* Registration, receipt and closing answer nothing.
LEMMA QuietServerInv ==
  ASSUME TypeOK, IInv, UNCHANGED serviceVars,
         (\E m \in Methods : MethodStep(m)) \/ ServerRead \/ ServerReadFails \/ ServerCloseStep
  PROVE  IInv'
<1>1. UNCHANGED netVars /\ ran' = ran
      /\ \/ jobs' = jobs
         \/ \E q \in requests : jobs' = jobs \cup {[req |-> q, at |-> "lookup", code |-> "None"]}
  BY DEF MethodStep, RegisterAdmit, RegisterStore, ServerRead, ServerReadFails, ServerCloseStep,
     ServerCloseBegin, ServerCloseSocket, ServerCloseReturn
<1>2. AnswerInv'
  BY <1>1 DEF IInv, AnswerInv, netVars
<1> QED BY <1>1, <1>2, ServerFrame DEF netVars

\* A goroutine's steps: it answers with the number it was asked under, never
\* answers a fire-and-forget, and reports a verdict only after the handler ran.
LEMMA JobStepInv ==
  ASSUME TypeOK, IInv, UNCHANGED serviceVars, NEW j \in jobs, JobStep(j) PROVE IInv'
<1>0. j \in Job BY DEF TypeOK, ServerTypeOK
<1>1. CASE JobLookup(j) \/ JobRun(j)
  <2>1. UNCHANGED netVars BY <1>1 DEF JobLookup, JobRun
  <2>2. ran \subseteq ran' /\ \A k \in jobs' : \/ k \in jobs
                                            \/ /\ k.req = j.req
                                               /\ k.at = "reply" => /\ ~IsPost(j.req)
                                                                    /\ \/ k.code = "UnknownMethod"
                                                                       \/ j.req.of \in ran'
    BY <1>1 DEF JobLookup, JobRun, MissingCode, Advance
  <2>3. AnswerInv'
    BY <2>1, <2>2 DEF IInv, AnswerInv, IsPost, netVars
  <2>4. \A k \in jobs' : k.req \in requests \cup {i.req : i \in jobs}
    BY <2>2
  <2> QED BY <2>1, <2>3, <2>4, ServerFrame DEF netVars
<1>2. CASE JobReply(j)
  <2>1. requests' = requests /\ jobs' \subseteq jobs /\ ran' = ran
        /\ replies' \in {replies, replies \cup {ReplyTo(j.req, j.code)}} /\ j.at = "reply"
    BY <1>2 DEF JobReply
  <2>2. j.req.of \in Senders /\ Numbered(j.req.of) /\ j.req.session = session[j.req.of]
    BY <1>0 DEF IInv, FrameInv, Job, Request
  <2>3. \A r \in replies' \ replies : r = ReplyTo(j.req, j.code)
    BY <2>1
  <2>4. AnswerInv'
    BY <2>1, <2>3 DEF IInv, AnswerInv, ReplyTo
  <2>5. \A r \in replies' \ replies : r.of \in Senders /\ Numbered(r.of) /\ r.session = session[r.of]
    BY <2>2, <2>3 DEF ReplyTo
  <2> QED BY <2>1, <2>4, <2>5, ServerFrame
<1> QED BY <1>1, <1>2 DEF JobStep

-----------------------------------------------------------------------------
(***************************************************************************)
(* Theorems.                                                               *)
(***************************************************************************)
\* The strengthening itself: who owns each slot of svc.pending, what travels,
\* and how numbers are issued, at every step of every interleaving.
THEOREM Inductive == Spec => [](TypeOK /\ IInv)
<1>1. TypeOK /\ IInv /\ [Next]_vars => IInv'
  <2> SUFFICES ASSUME TypeOK, IInv, [Next]_vars PROVE IInv' OBVIOUS
  <2>1. CASE ServiceNext /\ UNCHANGED serverVars
    BY <2>1, NumberingStep, CallStepInv, PostStepInv, ReaderStepInv, CloseStepInv DEF ServiceNext
  <2>2. CASE ServerNext /\ UNCHANGED serviceVars
    BY <2>2, QuietServerInv, JobStepInv DEF ServerNext
  <2>3. CASE UNCHANGED vars
    BY <2>3 DEF vars, netVars, serviceVars, serverVars, callVars, readerVars, IInv, RefusalInv, SlotInv,
       ReaderInv, ChannelInv, NumberInv, OwnerInv, Sole, FrameInv, AnswerInv, Numbered
  <2> QED BY <2>1, <2>2, <2>3 DEF Next
<1>2. Spec => []IInv
  BY IInvInit, <1>1, TypeCorrect, PTL DEF Spec
<1> QED BY <1>2, TypeCorrect, PTL

\* A call only returns a message with its own SessionID, across any number of
\* wraps of the uint16 counter (dispatchFrame, Call's deferred delete).
THEOREM SessionMatchHolds == Spec => []SessionMatch
<1>1. IInv => SessionMatch
  BY DEF IInv, ChannelInv, SessionMatch
<1> QED BY <1>1, Inductive, PTL

\* As long as its number is its own, what a call returns answers its own request
\* (the correlation the package comment of udp.go promises).
THEOREM CorrelatedHolds == Spec => []Correlated
<1>1. TypeOK /\ IInv => Correlated
  <2> SUFFICES ASSUME TypeOK, IInv, NEW c \in Calls, got[c] # NoReply, OwnNumber(c) PROVE got[c].of = c
    BY DEF Correlated
  <2>1. got[c] \in replies /\ got[c].of \in Senders /\ c \in Senders
    BY DEF IInv, FrameInv, TypeOK, NetTypeOK, Reply, Senders
  <2>2. Numbered(got[c].of) /\ session[got[c].of] = session[c] /\ Numbered(c)
    BY <2>1 DEF IInv, FrameInv, ChannelInv
  <2>3. Sole(c)
    BY <2>1, <2>2, SoleBefore DEF IInv
  <2> QED BY <2>1, <2>2, <2>3 DEF Sole
<1> QED BY <1>1, Inductive, PTL

\* The pending map never keeps a channel of a call that has returned (Call's
\* deferred delete), wraps included.
THEOREM NoStrayEntryHolds == Spec => []NoStrayEntry
<1>1. IInv => NoStrayEntry
  BY DEF IInv, SlotInv, NoStrayEntry
<1> QED BY <1>1, Inductive, PTL

\* A call blocked in its select owns its slot as long as its number is its own: no
\* other call can have taken it over or deleted it (Register, Cleanup).
THEOREM WaiterReachableHolds == Spec => []WaiterReachable
<1>1. IInv => WaiterReachable
  <2> SUFFICES ASSUME IInv, NEW c \in Calls, pc[c] = "waiting", OwnNumber(c) PROVE pending[session[c]] = c
    BY DEF WaiterReachable
  <2>1. c \in Senders /\ Numbered(c)
    BY DEF Senders, Numbered, IInv, RefusalInv
  <2>2. Sole(c)
    BY <2>1, SoleBefore DEF IInv
  <2> QED BY <2>2 DEF IInv, OwnerInv
<1> QED BY <1>1, Inductive, PTL

\* The server never answers a RequestNoReturn (handleFrame's early return).
THEOREM PostsUnansweredHolds == Spec => []PostsUnanswered
<1>1. IInv => PostsUnanswered
  BY DEF IInv, AnswerInv, PostsUnanswered
<1> QED BY <1>1, Inductive, PTL

\* As long as its number is its own, a call that returns the handler's verdict had
\* its handler run (handleFrame answers after the handler, under its number).
THEOREM AnswerWasExecutedHolds == Spec => []AnswerWasExecuted
<1>1. TypeOK /\ IInv /\ Correlated => AnswerWasExecuted
  <2> SUFFICES ASSUME TypeOK, IInv, Correlated, NEW c \in Calls, got[c].code \in {"OK", "NotOK"}, OwnNumber(c)
               PROVE  c \in ran
    BY DEF AnswerWasExecuted
  <2>1. got[c] # NoReply BY DEF NoReply
  <2> QED BY <2>1 DEF Correlated, IInv, FrameInv, AnswerInv
<1> QED BY <1>1, Inductive, CorrelatedHolds, PTL
\* Close returns after svc.wg.Wait, and the read loop does not start again.
LEMMA StoppedStep ==
  ASSUME closePc = "returned" => readerPc = "exited", [Next]_vars
  PROVE  (closePc = "returned" => readerPc = "exited")'
<1> USE DEF Read, ReadFails, Lookup, Deliver, CloseBegin, CloseSocket, CloseReturn, ReaderDone
<1>1. ASSUME NEW x \in Senders, SenderStep(x) PROVE UNCHANGED <<closePc, readerPc>>
  BY <1>1 DEF SenderStep, Enter, EnterClosed, NextSession, readerVars
<1>2. ASSUME NEW c \in Calls, CallStep(c) PROVE UNCHANGED <<closePc, readerPc>>
  BY <1>2 DEF CallStep, Register, Send, SendFails, Answer, GiveUp, Cleanup, readerVars
<1>3. ASSUME NEW p \in Posts, PostStep(p) PROVE UNCHANGED <<closePc, readerPc>>
  BY <1>3 DEF PostStep, Post, PostFails, readerVars
<1>4. CASE ReaderStep \/ CloseStep
  BY <1>4 DEF ReaderStep, CloseStep, readerVars
<1>5. CASE UNCHANGED serviceVars
  BY <1>5 DEF serviceVars, readerVars
<1> QED BY <1>1, <1>2, <1>3, <1>4, <1>5 DEF Next, ServiceNext, vars

\* Once Service.Close has returned, the read loop hands nothing to any call,
\* however many frames were being dispatched (svc.wg.Wait in Close).
THEOREM CloseQuietHolds == Spec => CloseQuiet
<1> DEFINE Stopped == closePc = "returned" => readerPc = "exited"
           Quiet == closePc = "returned" => \A c \in Calls : replyCh'[c] \in {replyCh[c], NoReply}
<1>1. Init => Stopped
  BY DEF Init, ServiceInit
<1>2. Stopped /\ [Next]_vars => Stopped'
  BY StoppedStep
<1>3. TypeOK /\ Stopped /\ [Next]_vars => [Quiet]_vars
  <2> SUFFICES ASSUME TypeOK, Stopped, Next, closePc = "returned", NEW d \in Calls
               PROVE  replyCh'[d] \in {replyCh[d], NoReply}
    OBVIOUS
  <2>1. replyCh \in [Calls -> Reply \cup {NoReply}]
    BY DEF TypeOK, ServiceTypeOK
  <2>2. ASSUME NEW c \in Calls, Answer(c) PROVE replyCh'[d] \in {replyCh[d], NoReply}
    BY <2>1, <2>2 DEF Answer
  <2>3. \/ \E c \in Calls : Answer(c)
        \/ replyCh' = replyCh
    BY DEF Next, ServiceNext, SenderStep, Enter, EnterClosed, NextSession, CallStep, Register, Send, SendFails,
       GiveUp, Cleanup, PostStep, Post, PostFails, ReaderStep, Read, ReadFails, Lookup, Deliver,
       CloseStep, CloseBegin, CloseSocket, CloseReturn, callVars, serviceVars
  <2> QED BY <2>2, <2>3
<1> QED BY <1>1, <1>2, <1>3, TypeCorrect, PTL DEF Spec, CloseQuiet

-----------------------------------------------------------------------------
(***************************************************************************)
(* Refinement of CallPromise, but for its fairness.                        *)
(***************************************************************************)
Phases == [c \in Calls |-> Phase(c)]
Verdicts == [c \in Calls |-> Verdict(c)]

\* A step that moves no call between phases, keeps what returned calls returned,
\* and runs no handler of a call is a stutter of the promise.
LEMMA PromiseStutter ==
  ASSUME \A c \in Calls : Phase(c)' = Phase(c) /\ Verdict(c)' = Verdict(c), ran' \cap Calls = ran \cap Calls
  PROVE  UNCHANGED <<Phases, Verdicts, ran \cap Calls>>
  BY DEF Phases, Verdicts

\* Steps of an operation other than its first and its last.
LEMMA InsideStutter ==
  ASSUME TypeOK, NEW x \in Senders, UNCHANGED ran,
         \A y \in Senders : y # x => pc'[y] = pc[y] /\ result'[y] = result[y],
         \A y \in Calls : y # x => got'[y] = got[y],
         x \in Calls => /\ pc[x] \in {"admitted", "numbered", "pending", "waiting", "leaving"}
                        /\ pc'[x] \in {"admitted", "numbered", "pending", "waiting", "leaving"}
  PROVE  UNCHANGED <<Phases, Verdicts, ran \cap Calls>>
<1> Calls \subseteq Senders BY DEF Senders
<1>1. ASSUME NEW c \in Calls PROVE Phase(c)' = Phase(c) /\ Verdict(c)' = Verdict(c)
  <2>1. CASE c = x
    <3>1. /\ pc[c] \in {"admitted", "numbered", "pending", "waiting", "leaving"}
          /\ pc'[c] \in {"admitted", "numbered", "pending", "waiting", "leaving"}
      BY <2>1
    <3>2. Phase(c) = "open" /\ Verdict(c) = "none"
      BY <3>1 DEF Phase, Verdict, Returned
    <3>3. Phase(c)' = "open" /\ Verdict(c)' = "none"
      BY <3>1 DEF Phase, Verdict, Returned
    <3> QED BY <3>2, <3>3
  <2>2. CASE c # x
    <3>1. pc'[c] = pc[c] /\ result'[c] = result[c] /\ got'[c] = got[c]
      BY <2>2
    <3> QED BY <3>1 DEF Phase, Verdict, Returned
  <2> QED BY <2>1, <2>2
<1> QED BY <1>1, PromiseStutter

\* Call is accepted, or refused because the service is closed.
LEMMA PromiseEnter ==
  ASSUME TypeOK, NEW c \in Calls, Enter(c) \/ EnterClosed(c), UNCHANGED serverVars
  PROVE  Promise!Open(c) \/ Promise!Refuse(c)
<1>0. /\ Calls \subseteq Senders /\ ran' = ran
      /\ pc \in [Senders -> {"idle", "admitted", "numbered", "pending", "waiting", "leaving", "returned"}]
      /\ result \in [Senders -> {"none", "answer", "sent", "failed", "ErrClosed"}]
  BY DEF TypeOK, ServiceTypeOK, Senders, serverVars, PcValues, Results
<1> USE DEF Goto, Outcome
<1>1. \A d \in Calls : d # c => Phase(d)' = Phase(d) /\ Verdict(d)' = Verdict(d)
  BY <1>0 DEF Enter, EnterClosed, Phase, Verdict, Returned
<1>2. CASE Enter(c)
  <2>1. Phase(c) = "idle" /\ Phase(c)' = "open" /\ Verdict(c)' = Verdict(c)
    BY <1>0, <1>2 DEF Enter, Phase, Verdict, Returned
  <2>2. Phases[c] = "idle" /\ Phases' = [Phases EXCEPT ![c] = "open"] /\ Verdicts' = Verdicts
    BY <1>1, <2>1 DEF Phases, Verdicts
  <2> QED BY <1>0, <2>2 DEF Promise!Open, Phases, Verdicts
<1>3. CASE EnterClosed(c)
  <2>1. Phase(c) = "idle" /\ Phase(c)' = "done" /\ Verdict(c)' = "ErrClosed"
    BY <1>0, <1>3 DEF EnterClosed, Phase, Verdict, Returned
  <2>2. /\ Phases[c] = "idle" /\ Phases' = [Phases EXCEPT ![c] = "done"]
        /\ Verdicts' = [Verdicts EXCEPT ![c] = "ErrClosed"]
    BY <1>1, <2>1 DEF Phases, Verdicts
  <2> QED BY <1>0, <2>2 DEF Promise!Refuse, Phases, Verdicts
<1> QED BY <1>2, <1>3

\* How a Call ends: its select took a message, or it failed.
EndInv ==
    \A c \in Calls : /\ result[c] = "answer" => got[c] # NoReply
                     /\ pc[c] = "leaving" => result[c] \in {"answer", "failed"}

LEMMA EndStep == TypeOK /\ EndInv /\ [Next]_vars => EndInv'
<1> SUFFICES ASSUME TypeOK, EndInv, [Next]_vars PROVE EndInv' OBVIOUS
<1> USE DEF Goto, Outcome
<1>0. /\ Calls \subseteq Senders /\ Calls \cap Posts = {}
      /\ pc \in [Senders -> PcValues] /\ result \in [Senders -> Results]
      /\ got \in [Calls -> Reply \cup {NoReply}]
  BY SendersAssumption DEF TypeOK, ServiceTypeOK, Senders
<1>1. ASSUME NEW x \in Senders, SenderStep(x) PROVE EndInv'
  BY <1>0, <1>1 DEF EndInv, SenderStep, Enter, EnterClosed, NextSession
<1>2. ASSUME NEW c \in Calls, CallStep(c) PROVE EndInv'
  BY <1>0, <1>2 DEF EndInv, CallStep, Register, Send, SendFails, Answer, GiveUp, Cleanup
<1>3. ASSUME NEW p \in Posts, PostStep(p) PROVE EndInv'
  BY <1>0, <1>3 DEF EndInv, PostStep, Post, PostFails
<1>4. CASE ReaderStep \/ CloseStep \/ UNCHANGED serviceVars
  BY <1>4 DEF EndInv, ReaderStep, Read, ReadFails, Lookup, Deliver, CloseStep, CloseBegin, CloseSocket,
     CloseReturn, serviceVars, callVars
<1> QED BY <1>1, <1>2, <1>3, <1>4 DEF Next, ServiceNext, vars

\* Call returns: with an error of its own, or with the server's verdict on it.
LEMMA PromiseReturn ==
  ASSUME TypeOK, IInv, EndInv, ~wrapped, NEW c \in Calls, Cleanup(c), UNCHANGED serverVars
  PROVE  Promise!Finish(c)
<1>0. /\ Calls \subseteq Senders /\ UNCHANGED <<ran, result, got>>
      /\ pc \in [Senders -> PcValues] /\ got \in [Calls -> Reply \cup {NoReply}]
      /\ pc[c] = "leaving" /\ pc' = [pc EXCEPT ![c] = "returned"]
      /\ result[c] = "failed" \/ (result[c] = "answer" /\ got[c] \in Reply)
  BY DEF TypeOK, ServiceTypeOK, Senders, serverVars, Cleanup, Goto, EndInv
<1>1. \A d \in Calls : d # c => Phase(d)' = Phase(d) /\ Verdict(d)' = Verdict(d)
  BY <1>0 DEF Phase, Verdict, Returned
<1>2. Phase(c) = "open" /\ Phase(c)' = "done"
  BY <1>0 DEF Phase, PcValues
<1>3. Verdict(c)' = IF result[c] = "answer" THEN got[c].code ELSE "failed"
  BY <1>0 DEF Verdict, Returned, PcValues
<1>4. Verdict(c)' \in Promise!Executions \cup Promise!Failures
  BY <1>0, <1>3 DEF Reply, Codes, Promise!Executions, Promise!Failures
<1>5. Verdict(c)' \in Promise!Executions => c \in ran
  <2> SUFFICES ASSUME Verdict(c)' \in Promise!Executions PROVE c \in ran OBVIOUS
  <2>1. result[c] = "answer" /\ got[c] \in Reply /\ got[c].code # "UnknownMethod"
    BY <1>0, <1>3 DEF Promise!Executions
  <2>2. got[c] # NoReply
    BY <2>1, NoReplyIsNoReply
  <2>3. got[c] \in replies
    BY <2>2 DEF IInv, FrameInv
  <2>4. got[c].session = session[c] /\ Numbered(c)
    BY <2>2 DEF IInv, ChannelInv
  <2>5. got[c].session = session[got[c].of] /\ Numbered(got[c].of) /\ got[c].of \in Senders
    BY <2>1, <2>3 DEF IInv, FrameInv, Reply
  <2>6. got[c].of = c
    BY <1>0, <2>4, <2>5 DEF IInv, NumberInv
  <2> QED BY <2>1, <2>3, <2>6 DEF IInv, AnswerInv
<1>6. /\ Phases[c] = "open" /\ Phases' = [Phases EXCEPT ![c] = "done"]
      /\ Verdicts' = [Verdicts EXCEPT ![c] = Verdict(c)']
  BY <1>1, <1>2 DEF Phases, Verdicts
<1>7. Promise!Return(c, Verdict(c)')
  BY <1>0, <1>4, <1>5, <1>6 DEF Promise!Return, Phases, Verdicts
<1> QED BY <1>4, <1>7 DEF Promise!Finish

\* A handler runs for a call that was accepted, maybe after it has given up.
LEMMA PromiseExecute ==
  ASSUME TypeOK, IInv, NEW j \in jobs, JobRun(j), j.req.of \in Calls, UNCHANGED serviceVars
  PROVE  Promise!Execute(j.req.of)
<1> DEFINE c == j.req.of
<1>1. Numbered(c) /\ c \in Senders
  BY DEF IInv, FrameInv, Senders
<1>2. Phase(c) # "idle" /\ Verdict(c) # "ErrClosed"
  <2>1. result[c] = "answer" => got[c].code # "ErrClosed"
    BY DEF TypeOK, ServiceTypeOK, Reply, NoReply, Codes
  <2> QED BY <1>1, <2>1 DEF Numbered, Phase, Verdict, Returned
<1>3. UNCHANGED <<Phases, Verdicts>>
  BY DEF serviceVars, callVars, Phases, Verdicts, Phase, Verdict, Returned
<1>4. ran' \cap Calls = (ran \cap Calls) \cup {c}
  BY DEF JobRun
<1> QED BY <1>2, <1>3, <1>4 DEF Promise!Execute, Phases, Verdicts

LEMMA PromiseService ==
  ASSUME TypeOK, IInv, EndInv, ~wrapped, ServiceNext, UNCHANGED serverVars
  PROVE  [Promise!Next]_(Promise!vars)
<1> USE DEF Goto, Outcome
<1>0. /\ ran' = ran /\ Calls \subseteq Senders /\ Posts \subseteq Senders /\ Calls \cap Posts = {}
      /\ pc \in [Senders -> {"idle", "admitted", "numbered", "pending", "waiting", "leaving", "returned"}]
      /\ result \in [Senders -> {"none", "answer", "sent", "failed", "ErrClosed"}]
      /\ got \in [Calls -> Reply \cup {NoReply}]
  BY SendersAssumption DEF TypeOK, ServiceTypeOK, Senders, serverVars, PcValues, Results
<1> DEFINE Stutter == UNCHANGED <<Phases, Verdicts, ran \cap Calls>>
<1>1. ASSUME NEW c \in Calls, Enter(c) \/ EnterClosed(c) PROVE Promise!Next
  BY <1>1, PromiseEnter DEF Promise!Next
<1>2. ASSUME NEW p \in Posts, Enter(p) \/ EnterClosed(p) \/ PostStep(p) PROVE Stutter
  <2>1. /\ \A y \in Senders : y # p => pc'[y] = pc[y] /\ result'[y] = result[y]
        /\ got' = got
    BY <1>0, <1>2 DEF Enter, EnterClosed, PostStep, Post, PostFails
  <2> QED BY <1>0, <2>1, InsideStutter
<1>3. ASSUME NEW x \in Senders, NextSession(x) PROVE Stutter
  <2>1. /\ \A y \in Senders : y # x => pc'[y] = pc[y] /\ result'[y] = result[y]
        /\ got' = got /\ pc[x] = "admitted" /\ pc'[x] = "numbered"
    BY <1>0, <1>3 DEF NextSession
  <2> QED BY <1>0, <2>1, InsideStutter
<1>4. ASSUME NEW c \in Calls, Register(c) \/ Send(c) \/ SendFails(c) \/ GiveUp(c) \/ Answer(c) PROVE Stutter
  <2>1. /\ \A y \in Senders : y # c => pc'[y] = pc[y] /\ result'[y] = result[y]
        /\ \A y \in Calls : y # c => got'[y] = got[y]
        /\ pc[c] \in {"numbered", "pending", "waiting"} /\ pc'[c] \in {"pending", "waiting", "leaving"}
    BY <1>0, <1>4 DEF Register, Send, SendFails, GiveUp, Answer
  <2> QED BY <1>0, <2>1, InsideStutter
<1>5. ASSUME NEW c \in Calls, Cleanup(c) PROVE Promise!Next
  BY <1>5, PromiseReturn DEF Promise!Next
<1>6. ASSUME ReaderStep \/ CloseStep PROVE Stutter
  <2>1. UNCHANGED <<pc, result, got>>
    BY <1>6 DEF ReaderStep, Read, ReadFails, Lookup, Deliver, CloseStep, CloseBegin, CloseSocket, CloseReturn,
       callVars
  <2> QED BY <1>0, <2>1 DEF Phases, Verdicts, Phase, Verdict, Returned
<1>7. Promise!Next \/ Stutter
  <2> HIDE DEF Stutter
  <2>1. ASSUME NEW x \in Senders, SenderStep(x) PROVE Promise!Next \/ Stutter
    BY <1>1, <1>2, <1>3, <2>1 DEF SenderStep, Senders
  <2>2. ASSUME NEW c \in Calls, CallStep(c) PROVE Promise!Next \/ Stutter
    BY <1>4, <1>5, <2>2 DEF CallStep
  <2>3. ASSUME NEW p \in Posts, PostStep(p) PROVE Promise!Next \/ Stutter
    BY <1>2, <2>3
  <2> QED BY <1>6, <2>1, <2>2, <2>3 DEF ServiceNext
<1> QED BY <1>7 DEF Promise!vars, Phases, Verdicts

LEMMA PromiseServer ==
  ASSUME TypeOK, IInv, ServerNext, UNCHANGED serviceVars
  PROVE  [Promise!Next]_(Promise!vars)
<1>1. UNCHANGED <<Phases, Verdicts>>
  BY DEF serviceVars, callVars, Phases, Verdicts, Phase, Verdict, Returned
<1>2. ASSUME NEW j \in jobs, JobRun(j) PROVE Promise!Next \/ ran' \cap Calls = ran \cap Calls
  <2>1. CASE j.req.of \in Calls
    BY <1>2, <2>1, PromiseExecute DEF Promise!Next
  <2>2. CASE j.req.of \notin Calls
    BY <1>2, <2>2 DEF JobRun
  <2> QED BY <2>1, <2>2
<1>3. (\E j \in jobs : JobRun(j)) \/ ran' = ran
  BY DEF ServerNext, MethodStep, RegisterAdmit, RegisterStore, ServerRead, ServerReadFails, JobStep, JobLookup,
         JobReply, ServerCloseStep, ServerCloseBegin, ServerCloseSocket, ServerCloseReturn
<1> QED BY <1>1, <1>2, <1>3 DEF Promise!vars, Phases, Verdicts

\* As long as the counter does not wrap, UDP implements CallPromise: a call ends
\* at most once, refused, with an error of its own or with the server's verdict
\* on this very call, and is told that its handler ran only if it did.
THEOREM PromiseKept == Spec /\ []~wrapped => Promise!Init /\ [][Promise!Next]_(Promise!vars)
<1>1. Init => Promise!Init
  BY DEF Init, ServiceInit, ServerInit, Promise!Init, Phase, Verdict, Returned, Senders
<1>2. TypeOK /\ IInv /\ EndInv /\ ~wrapped /\ [Next]_vars => [Promise!Next]_(Promise!vars)
  <2> SUFFICES ASSUME TypeOK, IInv, EndInv, ~wrapped, [Next]_vars PROVE [Promise!Next]_(Promise!vars)
    OBVIOUS
  <2>1. CASE ServiceNext /\ UNCHANGED serverVars
    BY <2>1, PromiseService
  <2>2. CASE ServerNext /\ UNCHANGED serviceVars
    BY <2>2, PromiseServer
  <2>3. CASE UNCHANGED vars
    <3>1. UNCHANGED <<pc, result, got, ran>>
      BY <2>3 DEF vars, serviceVars, serverVars, callVars
    <3> QED BY <3>1 DEF Promise!vars, Phase, Verdict, Returned
  <2> QED BY <2>1, <2>2, <2>3 DEF Next
<1>3. Init => EndInv
  BY DEF Init, ServiceInit, EndInv, Senders
<1> QED BY <1>1, <1>2, <1>3, EndStep, Inductive, PTL DEF Spec
=============================================================================
