---------------------------- MODULE MockBusProofs ----------------------------
(***************************************************************************)
(* Theorems about MockBus, for any number of servers under the key, of     *)
(* services, subscriptions, Emit and Close calls, and any depth.           *)
(*                                                                         *)
(* Each part of the inductive invariant has its lemma, and each lemma one  *)
(* step for every action that writes a variable of the part.               *)
(***************************************************************************)
EXTENDS MockBus, TLAPS

Typed == TypeOK /\ got \in [Subs -> Seq(Emits)]

IInv == Typed /\ OnceInv /\ panicked # "close" /\ BoundInv /\ ListInv /\ EmitInv

LEMMA IInvInit == Init => IInv
<1> SUFFICES ASSUME Init PROVE IInv
  OBVIOUS
<1>1. Typed
  <2>1. /\ queue \in [Subs -> Seq(Emits)] /\ got \in [Subs -> Seq(Emits)]
        /\ \A x \in Subs : Len(queue[x]) <= Depth
    BY BusAssumption DEF Init
  <2>2. toSend \in [Emits -> SUBSET Subs] /\ goneAt \in [Emits -> SUBSET Subs] /\ listed \in [Servers -> SUBSET Subs]
    BY DEF Init
  <2> QED BY <2>1, <2>2 DEF Init, Typed, TypeOK
<1>2. OnceInv /\ panicked # "close" /\ BoundInv /\ ListInv
  BY DEF Init, OnceInv, BoundInv, ListInv
<1>3. EmitInv
  BY DEF Init, EmitInv, ToSet
<1> QED BY <1>1, <1>2, <1>3 DEF IInv

-----------------------------------------------------------------------------
\* Every action keeps the types; a queue grows only while it has room.
LEMMA TypedKept == ASSUME IInv, Next PROVE Typed'
<1> USE BusAssumption DEF IInv, Typed, TypeOK
<1>1. ASSUME NEW s \in Servers, NewServer(s) \/ CloseMark(s) \/ CloseUnbind(s) \/ CloseLock(s) \/ CloseUnlock(s)
      PROVE Typed'
  BY <1>1 DEF NewServer, CloseMark, CloseUnbind, Unbound, CloseLock, CloseUnlock,
              SrvGoto, svcVars, chanVars, emitVars
<1>2. ASSUME NEW s \in Servers, CloseShut(s) PROVE Typed'
  BY <1>2 DEF CloseShut, OnceShut, OnceInv, svcVars, emitVars
<1>3. ASSUME NEW s \in Servers, NEW x \in Subs, CloseEnter(s, x) PROVE Typed'
  BY <1>3 DEF CloseEnter, OnceEnter, svcVars, emitVars
<1>4. ASSUME NEW c \in Services, NewService(c) PROVE Typed'
  BY <1>4 DEF NewService, BoundInv, srvVars, chanVars, emitVars
<1>5. ASSUME NEW c \in Services, CloseService(c) PROVE Typed'
  BY <1>5 DEF CloseService, srvVars, chanVars, emitVars
<1>6. ASSUME NEW x \in Subs, SubscribeEnter(x) PROVE Typed'
  BY <1>6 DEF SubscribeEnter, srvVars, svcVars, chanVars, emitVars
<1>7. ASSUME NEW x \in Subs, AddSub(x) PROVE Typed'
  BY <1>7 DEF AddSub, srvVars, svcVars, chanVars, emitVars
<1>8. ASSUME NEW x \in Subs, RemoveSub(x) PROVE listed' \in [Servers -> SUBSET Subs] /\ gone' \subseteq Subs
  BY <1>8 DEF RemoveSub, Drop
<1>9. ASSUME NEW x \in Subs, Unsubscribe(x) PROVE Typed'
  BY <1>8, <1>9 DEF Unsubscribe, srvVars, svcVars, chanVars, emitVars
<1>10. ASSUME NEW x \in Subs, Take(x) PROVE Typed'
  BY <1>10 DEF Take, srvVars, svcVars, chanVars, emitVars
<1>11. ASSUME NEW k \in Closers, CloseSubBegin(k) PROVE Typed'
  BY <1>8, <1>11 DEF CloseSubBegin, srvVars, svcVars, chanVars, emitVars
<1>12. ASSUME NEW k \in Closers, CloseSubEnter(k) \/ CloseSubSkip(k) PROVE Typed'
  <2>1. CASE CloseSubEnter(k)
    BY <2>1 DEF CloseSubEnter, OnceEnter, srvVars, svcVars, emitVars
  <2>2. CASE CloseSubSkip(k)
    BY <2>2 DEF CloseSubSkip, srvVars, svcVars, chanVars, emitVars
  <2> QED BY <1>12, <2>1, <2>2
<1>13. ASSUME NEW k \in Closers, CloseSubShut(k) PROVE Typed'
  BY <1>13 DEF CloseSubShut, OnceShut, OnceInv, srvVars, svcVars, emitVars
<1>14. ASSUME NEW e \in Emits, NEW s \in Servers, EmitEnter(e, s) PROVE Typed'
  BY <1>14 DEF EmitEnter, EmitGoto, srvVars, svcVars, chanVars
<1>15. ASSUME NEW e \in Emits, EmitSnapshot(e) \/ EmitReturn(e) PROVE Typed'
  <2>1. CASE EmitSnapshot(e)
    <3>1. emitOn[e] \in Servers
      BY <2>1 DEF EmitSnapshot, EmitGoto, EmitInv
    <3> QED BY <2>1, <3>1 DEF EmitSnapshot, EmitGoto, srvVars, svcVars, chanVars
  <2>2. CASE EmitReturn(e)
    BY <2>2 DEF EmitReturn, EmitGoto, srvVars, svcVars, chanVars
  <2> QED BY <1>15, <2>1, <2>2
<1>16. ASSUME NEW e \in Emits, NEW x \in Subs, EmitCheck(e, x) PROVE Typed'
  <2>1. toSend' \in [Emits -> SUBSET Subs]
    <3>1. toSend[e] \ {x} \in SUBSET Subs
      OBVIOUS
    <3> QED BY <1>16, <3>1 DEF EmitCheck
  <2>2. CASE x \in entered
    BY <1>16, <2>1, <2>2 DEF EmitCheck, srvVars, svcVars, chanVars
  <2>3. CASE x \notin entered
    <3>1. emitPc' = [emitPc EXCEPT ![e] = "checked"] /\ target' = [target EXCEPT ![e] = x]
      BY <1>16, <2>3 DEF EmitCheck
    <3>2. /\ emitPc' \in [Emits -> {"idle", "admitted", "sending", "checked", "done"}]
          /\ target' \in [Emits -> Subs \cup {None}]
      BY <3>1
    <3> QED BY <1>16, <2>1, <3>2 DEF EmitCheck, srvVars, svcVars, chanVars
  <2> QED BY <2>2, <2>3
<1>17. ASSUME NEW e \in Emits, EmitSend(e) PROVE Typed'
  <2>1. /\ queue' \in [Subs -> Seq(Emits)] /\ got' \in [Subs -> Seq(Emits)]
        /\ \A x \in Subs : Len(queue'[x]) <= Depth
    <3>1. CASE target[e] \notin shut /\ HasRoom(target[e]) /\ target[e] \in Subs
      <4> DEFINE x == target[e]
      <4>1. queue' = [queue EXCEPT ![x] = Append(@, e)] /\ got' = [got EXCEPT ![x] = Append(@, e)]
        BY <1>17, <3>1 DEF EmitSend
      <4>2. /\ Append(queue[x], e) \in Seq(Emits) /\ Append(got[x], e) \in Seq(Emits)
            /\ Len(Append(queue[x], e)) <= Depth
        BY <3>1 DEF HasRoom
      <4> HIDE DEF x
      <4> QED BY <4>1, <4>2
    <3>2. CASE queue' = queue /\ got' = got
      BY <3>2
    <3>3. CASE target[e] \notin Subs
      BY <1>17, <3>3 DEF EmitSend
    <3> QED BY <1>17, <3>1, <3>2, <3>3 DEF EmitSend
  <2>2. /\ emitPc' \in [Emits -> {"idle", "admitted", "sending", "checked", "done"}]
        /\ target' \in [Emits -> Subs \cup {None}] /\ panicked' \in {"no", "send", "close"}
    BY <1>17 DEF EmitSend, EmitGoto
  <2> QED BY <1>17, <2>1, <2>2 DEF EmitSend, srvVars, svcVars, chanVars
<1> HIDE DEF Typed
<1> QED
  BY <1>1, <1>2, <1>3, <1>4, <1>5, <1>6, <1>7, <1>9, <1>10, <1>11, <1>12, <1>13, <1>14, <1>15,
     <1>16, <1>17
     DEF Next, SrvCloseStep, SubStep, CloserStep, EmitStep

-----------------------------------------------------------------------------
\* closeOnce: entering and leaving the once keep OnceInv, whoever does it.
LEMMA OnceKept == ASSUME IInv, Next PROVE OnceInv' /\ panicked' # "close"
<1> USE BusAssumption DEF IInv, Typed, TypeOK, OnceInv
<1> DEFINE Goal == OnceInv' /\ panicked' # "close"
<1>1. ASSUME NEW s \in Servers, NEW x \in Subs, CloseEnter(s, x) PROVE Goal
  BY <1>1 DEF CloseEnter, OnceEnter, OnceFree
<1>2. ASSUME NEW s \in Servers, CloseShut(s) PROVE Goal
  BY <1>2 DEF CloseShut, OnceShut
<1>3. ASSUME NEW k \in Closers, CloseSubEnter(k) PROVE Goal
  BY <1>3 DEF CloseSubEnter, OnceEnter, OnceFree, srvVars
<1>4. ASSUME NEW k \in Closers, CloseSubShut(k) PROVE Goal
  BY <1>4 DEF CloseSubShut, OnceShut, srvVars
<1>5. ASSUME NEW k \in Closers, CloseSubBegin(k) \/ CloseSubSkip(k) PROVE Goal
  <2>1. \A j \in Closers : closerPc'[j] = "inside" => closerPc[j] = "inside"
    BY <1>5 DEF CloseSubBegin, CloseSubSkip
  <2> QED BY <1>5, <2>1 DEF CloseSubBegin, CloseSubSkip, srvVars, chanVars
<1>6. ASSUME NEW e \in Emits, EmitSend(e) PROVE Goal
  BY <1>6 DEF EmitSend, srvVars, chanVars
<1>7. CASE UNCHANGED <<entered, shut, closerPc, srvAt, panicked>>
  BY <1>7
<1>8. ASSUME NEW s \in Servers, \/ NewServer(s) \/ CloseMark(s) \/ CloseUnbind(s)
                                \/ CloseLock(s) \/ CloseUnlock(s)
      PROVE Goal
  BY <1>7, <1>8 DEF NewServer, CloseMark, CloseUnbind, CloseLock, CloseUnlock, chanVars
<1>9. ASSUME NEW c \in Services, NewService(c) \/ CloseService(c) PROVE Goal
  BY <1>7, <1>9 DEF NewService, CloseService, srvVars, chanVars
<1>10. ASSUME NEW x \in Subs, SubStep(x) PROVE Goal
  BY <1>7, <1>10 DEF SubStep, SubscribeEnter, AddSub, Unsubscribe, Take, srvVars, chanVars
<1>11. ASSUME NEW e \in Emits, EmitSnapshot(e) \/ EmitReturn(e) PROVE Goal
  BY <1>7, <1>11 DEF EmitSnapshot, EmitReturn, srvVars, chanVars
<1>12. ASSUME NEW e \in Emits, NEW x \in Subs, EmitCheck(e, x) PROVE Goal
  BY <1>7, <1>12 DEF EmitCheck, srvVars, chanVars
<1>13. ASSUME NEW e \in Emits, NEW s \in Servers, EmitEnter(e, s) PROVE Goal
  BY <1>7, <1>13 DEF EmitEnter, srvVars, chanVars
<1> HIDE DEF Goal
<1>14. ASSUME NEW s \in Servers, SrvCloseStep(s) PROVE Goal
  BY <1>1, <1>2, <1>8, <1>14 DEF SrvCloseStep
<1>15. ASSUME NEW e \in Emits, EmitStep(e) PROVE Goal
  BY <1>6, <1>11, <1>12, <1>15 DEF EmitStep
<1>16. Goal
  BY <1>3, <1>4, <1>5, <1>8, <1>9, <1>10, <1>13, <1>14, <1>15 DEF Next, CloserStep
<1> QED BY <1>16 DEF Goal

-----------------------------------------------------------------------------
\* Only NewServer and CloseUnbind write the map, and only a Close that has
\* unbound goes on to the end.
LEMMA BoundKept == ASSUME IInv, Next PROVE BoundInv'
<1> USE DEF IInv, Typed, TypeOK, BoundInv
<1>1. ASSUME NEW s \in Servers, NewServer(s) \/ CloseMark(s) \/ SrvCloseStep(s) PROVE BoundInv'
  BY <1>1 DEF NewServer, CloseMark, SrvCloseStep, CloseUnbind, Unbound, CloseLock, CloseShut,
              CloseUnlock, CloseEnter, SrvGoto
<1>2. ASSUME NEW c \in Services, NewService(c) \/ CloseService(c) PROVE BoundInv'
  BY <1>2 DEF NewService, CloseService, srvVars
<1>3. ASSUME NEW x \in Subs, SubStep(x) PROVE BoundInv'
  BY <1>3 DEF SubStep, SubscribeEnter, AddSub, Unsubscribe, Take, srvVars
<1>4. ASSUME NEW k \in Closers, CloserStep(k) PROVE BoundInv'
  BY <1>4 DEF CloserStep, CloseSubBegin, CloseSubEnter, CloseSubShut, CloseSubSkip, srvVars
<1>5. ASSUME NEW e \in Emits, EmitStep(e) \/ \E s \in Servers : EmitEnter(e, s) PROVE BoundInv'
  BY <1>5 DEF EmitStep, EmitSnapshot, EmitSend, EmitReturn, EmitCheck, EmitEnter, srvVars
<1> QED BY <1>1, <1>2, <1>3, <1>4, <1>5 DEF Next

\* addSub puts a subscription on the list of its server, once; removeSub takes
\* it off the only list it can be on.
LEMMA ListKept == ASSUME IInv, Next PROVE ListInv'
<1> USE BusAssumption DEF IInv, Typed, TypeOK, ListInv
<1>1. ASSUME NEW s \in Servers, NewServer(s) \/ CloseMark(s) \/ SrvCloseStep(s) PROVE ListInv'
  BY <1>1 DEF NewServer, CloseMark, SrvCloseStep, CloseUnbind, CloseLock, CloseShut,
              CloseUnlock, CloseEnter, svcVars
<1>2. ASSUME NEW c \in Services, NewService(c) PROVE ListInv'
  BY <1>2 DEF NewService
<1>3. ASSUME NEW c \in Services, CloseService(c) PROVE ListInv'
  BY <1>3 DEF CloseService
<1>4. ASSUME NEW x \in Subs, SubscribeEnter(x) PROVE ListInv'
  BY <1>4 DEF SubscribeEnter, svcVars
<1>5. ASSUME NEW x \in Subs, AddSub(x) PROVE ListInv'
  BY <1>5 DEF AddSub, svcVars
<1>6. ASSUME NEW x \in Subs, RemoveSub(x), UNCHANGED <<svcVars, subPc>> PROVE ListInv'
  BY <1>6 DEF RemoveSub, Drop, svcVars
<1>7. ASSUME NEW x \in Subs, Unsubscribe(x) \/ Take(x) PROVE ListInv'
  BY <1>6, <1>7 DEF Unsubscribe, Take, svcVars
<1>8. ASSUME NEW k \in Closers, CloserStep(k) PROVE ListInv'
  BY <1>6, <1>8 DEF CloserStep, CloseSubBegin, CloseSubEnter, CloseSubShut, CloseSubSkip, svcVars
<1>9. ASSUME NEW e \in Emits, EmitStep(e) \/ \E s \in Servers : EmitEnter(e, s) PROVE ListInv'
  BY <1>9 DEF EmitStep, EmitSnapshot, EmitSend, EmitReturn, EmitCheck, EmitEnter, svcVars
<1> QED BY <1>1, <1>2, <1>3, <1>4, <1>5, <1>7, <1>8, <1>9 DEF Next, SubStep

\* What an Emit has picked up was on the list when it looked, and nothing that
\* is gone comes back to the list.
LEMMA EmitKept == ASSUME IInv, Next PROVE EmitInv'
<1> USE BusAssumption DEF IInv, Typed, TypeOK, EmitInv
<1>1. ASSUME NEW s \in Servers, NewServer(s) \/ CloseMark(s) \/ SrvCloseStep(s) PROVE EmitInv'
  BY <1>1 DEF NewServer, CloseMark, SrvCloseStep, CloseUnbind, CloseLock, CloseShut,
              CloseUnlock, CloseEnter, emitVars
<1>2. ASSUME NEW c \in Services, NewService(c) \/ CloseService(c) PROVE EmitInv'
  BY <1>2 DEF NewService, CloseService, emitVars
<1>3. ASSUME NEW x \in Subs, SubStep(x) PROVE EmitInv'
  BY <1>3 DEF SubStep, SubscribeEnter, AddSub, Unsubscribe, RemoveSub, Take, emitVars
<1>4. ASSUME NEW k \in Closers, CloserStep(k) PROVE EmitInv'
  BY <1>4 DEF CloserStep, CloseSubBegin, CloseSubEnter, CloseSubShut, CloseSubSkip, RemoveSub, emitVars
<1>5. ASSUME NEW e \in Emits, NEW s \in Servers, EmitEnter(e, s) PROVE EmitInv'
  BY <1>5 DEF EmitEnter, EmitGoto
<1>6. ASSUME NEW e \in Emits, EmitSnapshot(e) PROVE EmitInv'
  <2>1. emitOn[e] \in Servers /\ \A x \in goneAt[e] : x \notin listed[emitOn[e]]
    BY <1>6 DEF EmitSnapshot, EmitGoto, ListInv
  <2> QED BY <1>6, <2>1 DEF EmitSnapshot, EmitGoto
<1>7. ASSUME NEW e \in Emits, NEW x \in Subs, EmitCheck(e, x) PROVE EmitInv'
  BY <1>7 DEF EmitCheck
<1>8. ASSUME NEW e \in Emits, EmitSend(e) PROVE EmitInv'
  <2>1. \A x \in Subs, f \in Emits : f \in ToSet(got'[x]) => f \in ToSet(got[x]) \/ (f = e /\ x = target[e])
    <3> SUFFICES ASSUME NEW x \in Subs, NEW f \in Emits, f \in ToSet(got'[x]),
                        ~ (f = e /\ x = target[e])
                 PROVE  f \in ToSet(got[x])
      OBVIOUS
    <3>1. CASE got'[x] = got[x]
      BY <3>1
    <3>2. CASE got'[x] = Append(got[x], e) /\ x = target[e]
      <4>1. PICK i \in 1..Len(Append(got[x], e)) : Append(got[x], e)[i] = f
        BY <3>2 DEF ToSet
      <4>2. got[x] \in Seq(Emits)
        OBVIOUS
      <4>3. i \in 1..Len(got[x]) /\ got[x][i] = f
        BY <3>2, <4>1, <4>2
      <4> QED BY <4>3 DEF ToSet
    <3> QED BY <1>8, <3>1, <3>2 DEF EmitSend
  <2> QED BY <1>8, <2>1 DEF EmitSend, EmitGoto
<1>9. ASSUME NEW e \in Emits, EmitReturn(e) PROVE EmitInv'
  BY <1>9 DEF EmitReturn, EmitGoto
<1> QED
  BY <1>1, <1>2, <1>3, <1>4, <1>5, <1>6, <1>7, <1>8, <1>9 DEF Next, EmitStep

-----------------------------------------------------------------------------
THEOREM Inductive == Spec => []IInv
<1>1. Init => IInv
  BY IInvInit
<1>2. IInv /\ [Next]_vars => IInv'
  <2> SUFFICES ASSUME IInv, [Next]_vars PROVE IInv'
    OBVIOUS
  <2>1. CASE Next
    BY <2>1, TypedKept, OnceKept, BoundKept, ListKept, EmitKept DEF IInv
  <2>2. CASE UNCHANGED vars
    BY <2>2 DEF vars, srvVars, svcVars, chanVars, emitVars, IInv, Typed, TypeOK, OnceInv, BoundInv,
                ListInv, EmitInv
  <2> QED BY <2>1, <2>2
<1> QED BY <1>1, <1>2, PTL DEF Spec

\* Every variable keeps its type, and no channel holds more than its depth.
THEOREM TypeOKHolds == Spec => []TypeOK
<1>1. IInv => TypeOK
  BY DEF IInv, Typed
<1> QED BY <1>1, Inductive, PTL

\* closeOnce: however subscription.Close calls and server.Close race, no channel
\* is closed twice (REQ-MOCK-013).
THEOREM ClosedOnceHolds == Spec => []ClosedOnce
<1>1. IInv => ClosedOnce
  BY DEF IInv, ClosedOnce
<1> QED BY <1>1, Inductive, PTL

\* A service never attaches to a server whose Close has returned.
THEOREM BoundIsLiveHolds == Spec => []BoundIsLive
<1>1. IInv => BoundIsLive
  BY DEF IInv, BoundInv, BoundIsLive
<1> QED BY <1>1, Inductive, PTL

\* An Emit that is called after Unsubscribe has returned delivers nothing to
\* that subscription (REQ-MOCK-012).
THEOREM LaterEmitsQuietHolds == Spec => []LaterEmitsQuiet
<1>1. IInv => LaterEmitsQuiet
  BY DEF IInv, EmitInv, LaterEmitsQuiet
<1> QED BY <1>1, Inductive, PTL
=============================================================================
