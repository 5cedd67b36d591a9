-------------------------- MODULE UdpEventsProofs ---------------------------
(***************************************************************************)
(* Theorems about UdpEvents, for any number of services, subscriptions and *)
(* Emits, any depth of the channels and any misbehaviour of the network.   *)
(***************************************************************************)
EXTENDS UdpEvents, SequenceTheorems, WellFoundedInduction, TLAPS

\* All that IInv speaks of.
clientVars == <<pc, listed, got, chanClosed, panicked, readerPc, toSend>>

LEMMA IInvInit == Init => IInv
  BY DEF Init, IInv, ClientTypeOK, ListedInv, FreshInv, FanOutInv

LEMMA IInvStutter == ASSUME IInv, UNCHANGED clientVars PROVE IInv'
  BY DEF clientVars, IInv, ClientTypeOK, ListedInv, FreshInv, FanOutInv

\* Subscribe, Unsubscribe and subscription.Close: svc.mu keeps a channel that
\* is being sent to on the list, and only an unlisted one is closed.
LEMMA SubStepInv ==
  ASSUME IInv, NEW s \in Subs, SubStep(s) PROVE IInv'
<1> USE DEF IInv, ClientTypeOK, Goto
<1>1. CASE SubscribeEnter(s)
  BY <1>1 DEF SubscribeEnter, ListedInv, FreshInv, FanOutInv, chanVars, readerVars
<1>2. CASE SubscribeList(s)
  BY <1>2 DEF SubscribeList, ListedInv, FreshInv, FanOutInv, readerVars
<1>3. CASE SubscribeSend(s) \/ SubscribeFails(s)
  BY <1>3 DEF SubscribeSend, SubscribeFails, ListedInv, FreshInv, FanOutInv, chanVars, readerVars
<1>4. CASE UnsubscribeBegin(s) \/ CloseSubBegin(s)
  BY <1>4 DEF UnsubscribeBegin, CloseSubBegin, End, ListedInv, FreshInv, FanOutInv, chanVars, readerVars
<1>5. CASE Unlist(s)
  <2>1. ClientTypeOK' /\ ListedInv' /\ FreshInv' /\ ~panicked'
    BY <1>5 DEF Unlist, ListedInv, FreshInv, readerVars
  <2>2. FanOutInv'
    BY <1>5 DEF Unlist, MuFree, FanOutInv, readerVars
  <2> QED BY <2>1, <2>2
<1>6. CASE SendStop(s)
  BY <1>6 DEF SendStop, ListedInv, FreshInv, FanOutInv, chanVars, readerVars
<1>7. CASE CloseChan(s)
  BY <1>7 DEF CloseChan, ListedInv, FreshInv, FanOutInv, readerVars
<1>8. CASE Take(s)
  BY <1>8, IInvStutter DEF Take, clientVars, subVars, readerVars
<1> QED BY <1>1, <1>2, <1>3, <1>4, <1>5, <1>6, <1>7, <1>8 DEF SubStep

\* The read loop: its snapshot is of listed channels, and so is every send.
LEMMA ReaderStepInv ==
  ASSUME IInv, NEW v \in Services, ReaderStep(v) PROVE IInv'
<1> USE DEF IInv, ClientTypeOK
<1>1. CASE Read(v) \/ ReadFails(v)
  BY <1>1 DEF Read, ReadFails, ListedInv, FreshInv, FanOutInv, subVars, chanVars
<1>2. CASE Lock(v)
  BY <1>2 DEF Lock, Audience, ListedInv, FreshInv, FanOutInv, subVars, chanVars
<1>3. CASE Unlock(v)
  BY <1>3 DEF Unlock, ListedInv, FreshInv, FanOutInv, subVars, chanVars
<1>4. ASSUME NEW s \in toSend[v], SendTo(v, s) PROVE IInv'
  <2>1. s \in listed /\ s \notin chanClosed
    BY <1>4 DEF SendTo, FanOutInv, ListedInv
  <2>2. ClientTypeOK' /\ ~panicked'
    BY <1>4, <2>1 DEF SendTo, subVars
  <2>3. ListedInv' /\ FreshInv' /\ FanOutInv'
    BY <1>4 DEF SendTo, ListedInv, FreshInv, FanOutInv, subVars
  <2> QED BY <2>2, <2>3
<1> QED BY <1>1, <1>2, <1>3, <1>4 DEF ReaderStep

\* Service.Close, the server and the network leave the client's lists alone.
LEMMA OtherStepInv ==
  ASSUME IInv, ServerStep \/ \E v \in Services : SvcCloseStep(v) \/ Lose(v) \/ Duplicate(v) PROVE IInv'
<1>1. UNCHANGED clientVars
  BY DEF ServerStep, ServerRead, HandleSubscribe, EmitBegin, EmitWrite, SrvCloseStep, SvcCloseStep,
     Lose, Duplicate, clientVars, subVars, chanVars, readerVars
<1> QED BY <1>1, IInvStutter

\* Whatever the application, the server and the network do, listed channels are
\* open and a fan-out sends to listed channels only (dispatchFrame under svc.mu).
THEOREM Inductive == Spec => []IInv
<1>1. IInv /\ [Next]_vars => IInv'
  <2> SUFFICES ASSUME IInv, [Next]_vars PROVE IInv'
    OBVIOUS
  <2>1. CASE Next
    BY <2>1, SubStepInv, ReaderStepInv, OtherStepInv DEF Next
  <2>2. CASE UNCHANGED vars
    BY <2>2, IInvStutter DEF vars, clientVars, subVars, chanVars, readerVars
  <2> QED BY <2>1, <2>2
<1> QED BY IInvInit, <1>1, PTL DEF Spec

\* The read loop never sends on a closed channel (the comment in dispatchFrame).
THEOREM NoSendOnClosedHolds == Spec => []NoSendOnClosed
<1>1. IInv => NoSendOnClosed
  BY DEF IInv, NoSendOnClosed
<1> QED BY <1>1, Inductive, PTL

\* Nothing is sent into a channel once Unsubscribe has taken it off the list,
\* however many notifications are being dispatched (REQ-UDP-011).
THEOREM QuietAfterUnsubscribeHolds == Spec => QuietAfterUnsubscribe
<1> DEFINE Quiet == \A s \in Subs : pc[s] \in {"unlisted", "closing", "left"} => got'[s] = got[s]
<1>1. IInv /\ [Next]_vars => [Quiet]_vars
  <2> SUFFICES ASSUME IInv, Next, NEW t \in Subs, pc[t] \in {"unlisted", "closing", "left"}
               PROVE  got'[t] = got[t]
    OBVIOUS
  <2>1. ASSUME NEW v \in Services, NEW s \in toSend[v], SendTo(v, s) PROVE got'[t] = got[t]
    <3>1. s \in listed /\ s # t
      BY <2>1 DEF SendTo, IInv, FanOutInv, ListedInv
    <3> QED BY <2>1, <3>1 DEF SendTo, IInv, ClientTypeOK
  <2>2. ASSUME NEW s \in Subs, SubStep(s) PROVE got' = got
    BY <2>2 DEF SubStep, SubscribeEnter, SubscribeList, SubscribeSend, SubscribeFails, UnsubscribeBegin,
       CloseSubBegin, End, Unlist, SendStop, CloseChan, Take, chanVars
  <2>3. ASSUME NEW v \in Services, Read(v) \/ ReadFails(v) \/ Lock(v) \/ Unlock(v) PROVE got' = got
    BY <2>3 DEF Read, ReadFails, Lock, Unlock, chanVars
  <2>4. ASSUME ServerStep \/ \E v \in Services : SvcCloseStep(v) \/ Lose(v) \/ Duplicate(v) PROVE got' = got
    BY <2>4 DEF ServerStep, ServerRead, HandleSubscribe, EmitBegin, EmitWrite, SrvCloseStep, SvcCloseStep,
       Lose, Duplicate, chanVars
  <2> QED BY <2>1, <2>2, <2>3, <2>4 DEF Next, ReaderStep
<1> QED BY <1>1, Inductive, PTL DEF Spec, QuietAfterUnsubscribe
-----------------------------------------------------------------------------

\* Every non-empty set of natural numbers has a least element.
LEMMA Least ==
  ASSUME NEW T \in SUBSET Nat, T # {} PROVE \E x \in T : \A y \in T : x <= y
<1> DEFINE R == {ss \in Nat \X Nat : ss[1] < ss[2]}
<1>1. IsWellFoundedOn(R, Nat)
  BY NatLessThanWellFounded DEF OpToRel
<1>2. PICK x \in T : \A y \in T : ~ (<<y, x>> \in R)
  <2> HIDE DEF R
  <2> QED BY <1>1, WFMin
<1>3. ASSUME NEW y \in T PROVE x <= y
  <2>1. <<y, x>> \notin R /\ x \in Nat /\ y \in Nat
    BY <1>2
  <2>2. <<y, x>> \in Nat \X Nat
    BY <2>1
  <2>3. ~ (y < x)
    BY <2>1, <2>2
  <2> QED BY <2>1, <2>3
<1> QED BY <1>3

\* Induction, for a set in the place of a predicate.
LEMMA SetInduction ==
  ASSUME NEW S, 0 \in S, \A n \in Nat : n \in S => n + 1 \in S
  PROVE  Nat \subseteq S
<1> SUFFICES ASSUME Nat \ S # {} PROVE FALSE
  OBVIOUS
<1>1. PICK x \in Nat \ S : \A y \in Nat \ S : x <= y
  <2> Nat \ S \in SUBSET Nat OBVIOUS
  <2> QED BY Least
<1>2. x # 0 /\ x - 1 \in Nat
  BY <1>1
<1>3. x - 1 \in S
  BY <1>1, <1>2
<1> QED BY <1>1, <1>2, <1>3

\* A recursive function on an interval exists, for a step that is a function.
LEMMA Recursion ==
  ASSUME NEW A, NEW a \in A, NEW n \in Nat, NEW step \in [1..n -> [A -> A]]
  PROVE  \E f \in [0..n -> A] : f[0] = a /\ \A i \in 1..n : f[i] = step[i][f[i - 1]]
<1> DEFINE Good(m) == \E f \in [0..m -> A] : f[0] = a /\ \A i \in 1..m : f[i] = step[i][f[i - 1]]
           T == {m \in Nat : m <= n => Good(m)}
<1>1. 0 \in T
  <2> DEFINE f == [i \in 0..0 |-> a]
  <2>1. f \in [0..0 -> A] /\ f[0] = a /\ \A i \in 1..0 : FALSE
    OBVIOUS
  <2> HIDE DEF f
  <2> QED BY <2>1
<1>2. ASSUME NEW m \in Nat, m \in T PROVE m + 1 \in T
  <2> SUFFICES ASSUME m + 1 <= n PROVE Good(m + 1)
    OBVIOUS
  <2>1. PICK f \in [0..m -> A] : f[0] = a /\ \A i \in 1..m : f[i] = step[i][f[i - 1]]
    BY <1>2
  <2> DEFINE g == [i \in 0..(m + 1) |-> IF i <= m THEN f[i] ELSE step[m + 1][f[m]]]
  <2>2. step[m + 1][f[m]] \in A
    OBVIOUS
  <2>3. g \in [0..(m + 1) -> A]
    BY <2>2
  <2>4. g[0] = a /\ \A i \in 1..(m + 1) : g[i] = step[i][g[i - 1]]
    <3>1. ASSUME NEW i \in 1..m PROVE g[i] = f[i] /\ g[i - 1] = f[i - 1]
      OBVIOUS
    <3>2. g[m + 1] = step[m + 1][f[m]] /\ g[m] = f[m] /\ g[0] = f[0] /\ (m + 1) - 1 = m
      OBVIOUS
    <3> HIDE DEF g
    <3> QED BY <2>1, <3>1, <3>2
  <2> HIDE DEF g
  <2> QED BY <2>3, <2>4
<1>3. n \in T
  <2> HIDE DEF T
  <2> QED BY <1>1, <1>2, SetInduction
<1> QED BY <1>3

\* What Removed computes: filtered, the slice UnregisterSubscriber builds.
Filters(f, list, v) ==
    /\ f[0] = <<>>
    /\ \A i \in 1..Len(list) : f[i] = IF list[i] # v THEN Append(f[i - 1], list[i]) ELSE f[i - 1]
    /\ Removed(list, v) = f[Len(list)]

LEMMA Filtered ==
  ASSUME NEW S, NEW list \in Seq(S), NEW v
  PROVE  \E f \in [0..Len(list) -> Seq(S)] : Filters(f, list, v)
<1> DEFINE n == Len(list)
           g == CHOOSE h : h = [i \in 0..n |-> IF i = 0 THEN <<>>
                                                ELSE IF list[i] # v THEN Append(h[i - 1], list[i]) ELSE h[i - 1]]
           step == [i \in 1..n |-> [q \in Seq(S) |-> IF list[i] # v THEN Append(q, list[i]) ELSE q]]
<1>1. n \in Nat /\ step \in [1..n -> [Seq(S) -> Seq(S)]] /\ <<>> \in Seq(S)
  OBVIOUS
<1>2. PICK f \in [0..n -> Seq(S)] : f[0] = <<>> /\ \A i \in 1..n : f[i] = step[i][f[i - 1]]
  <2> DEFINE A == Seq(S)
             a == <<>>
  <2>1. a \in A /\ step \in [1..n -> [A -> A]]
    BY <1>1
  <2>0. n \in Nat
    OBVIOUS
  <2> HIDE DEF n, step, a, A
  <2>2. \E f \in [0..n -> A] : f[0] = a /\ \A i \in 1..n : f[i] = step[i][f[i - 1]]
    <3>1. ASSUME NEW x \in A, NEW m \in Nat, NEW st \in [1..m -> [A -> A]]
          PROVE  \E f \in [0..m -> A] : f[0] = x /\ \A i \in 1..m : f[i] = st[i][f[i - 1]]
      BY Recursion
    <3>2. \A st \in [1..n -> [A -> A]] : \E f \in [0..n -> A] : f[0] = a /\ \A i \in 1..n : f[i] = st[i][f[i - 1]]
      BY <2>0, <2>1, <3>1
    <3> QED BY <2>1, <3>2
  <2> QED BY <2>2 DEF a, A
<1>3. \A i \in 1..n : f[i] = IF list[i] # v THEN Append(f[i - 1], list[i]) ELSE f[i - 1]
  <2> SUFFICES ASSUME NEW i \in 1..n PROVE f[i] = IF list[i] # v THEN Append(f[i - 1], list[i]) ELSE f[i - 1]
    OBVIOUS
  <2>1. \A q \in Seq(S) : step[i][q] = IF list[i] # v THEN Append(q, list[i]) ELSE q
    OBVIOUS
  <2>2. f[i] = step[i][f[i - 1]] /\ f[i - 1] \in Seq(S)
    <3>1. i - 1 \in 0..n
      OBVIOUS
    <3> HIDE DEF step, n
    <3> QED BY <1>2, <3>1
  <2> HIDE DEF step
  <2> QED BY <2>1, <2>2
<1>4. f = [i \in 0..n |-> IF i = 0 THEN <<>> ELSE IF list[i] # v THEN Append(f[i - 1], list[i]) ELSE f[i - 1]]
  <2> HIDE DEF n, step
  <2>1. \A i \in 0..n : i = 0 \/ i \in 1..n
    BY <1>1
  <2>2. \A i \in 0..n : f[i] = IF i = 0 THEN <<>>
                                 ELSE IF list[i] # v THEN Append(f[i - 1], list[i]) ELSE f[i - 1]
    BY <1>2, <1>3, <2>1
  <2> QED BY <2>2
<1>5. g = [i \in 0..n |-> IF i = 0 THEN <<>> ELSE IF list[i] # v THEN Append(g[i - 1], list[i]) ELSE g[i - 1]]
  BY <1>4
<1>6. Removed(list, v) = g[n]
  BY DEF Removed
<1> HIDE DEF g, step, n
<1>7. g \in [0..n -> Seq(S)] /\ g[0] = <<>>
      /\ \A i \in 1..n : g[i] = IF list[i] # v THEN Append(g[i - 1], list[i]) ELSE g[i - 1]
  <2>1. \A i \in 0..n : g[i] = f[i]
    <3> DEFINE T == {i \in Nat : i <= n => g[i] = f[i]}
    <3>1. 0 \in T
      BY <1>1, <1>2, <1>5
    <3>2. ASSUME NEW i \in Nat, i \in T PROVE i + 1 \in T
      <4> SUFFICES ASSUME i + 1 <= n PROVE g[i + 1] = f[i + 1]
        OBVIOUS
      <4>1. i + 1 \in 0..n /\ i + 1 \in 1..n /\ (i + 1) - 1 = i /\ i + 1 # 0 /\ g[i] = f[i]
        BY <1>1, <3>2
      <4> QED BY <1>3, <1>5, <4>1
    <3>3. Nat \subseteq T
      <4> HIDE DEF T
      <4> QED BY <3>1, <3>2, SetInduction
    <3> QED BY <1>1, <3>3
  <2>2. g = f
    BY <1>2, <1>5, <2>1
  <2> QED BY <1>2, <1>3, <2>2
<1> QED BY <1>6, <1>7 DEF n, Filters

LEMMA AppendOnce ==
  ASSUME NEW S, NEW q \in Seq(S), NEW x \in S
  PROVE  /\ Append(q, x) \in Seq(S) /\ ToSet(Append(q, x)) = ToSet(q) \cup {x}
         /\ IsInjective(q) /\ x \notin ToSet(q) => IsInjective(Append(q, x))
<1> DEFINE p == Append(q, x)
<1>1. /\ p \in Seq(S) /\ DOMAIN p = 1..(Len(q) + 1) /\ DOMAIN q = 1..Len(q) /\ p[Len(q) + 1] = x
      /\ \A i \in 1..Len(q) : p[i] = q[i]
  OBVIOUS
<1>2. Len(q) \in Nat
  OBVIOUS
<1> HIDE DEF p
<1>3. \A i \in DOMAIN p : i = Len(q) + 1 \/ i \in DOMAIN q
  BY <1>1, <1>2
<1>4. DOMAIN q \subseteq DOMAIN p /\ Len(q) + 1 \in DOMAIN p
  BY <1>1, <1>2
<1>5. ToSet(p) = ToSet(q) \cup {x}
  BY <1>1, <1>3, <1>4 DEF ToSet
<1>6. IsInjective(q) /\ x \notin ToSet(q) => IsInjective(p)
  BY <1>1, <1>3 DEF IsInjective, ToSet
<1> QED BY <1>1, <1>5, <1>6 DEF p

LEMMA TailOnce ==
  ASSUME NEW S, NEW q \in Seq(S), q # <<>>
  PROVE  /\ Tail(q) \in Seq(S) /\ Head(q) \in S /\ Head(q) \in ToSet(q) /\ ToSet(Tail(q)) \subseteq ToSet(q)
         /\ IsInjective(q) => IsInjective(Tail(q)) /\ Head(q) \notin ToSet(Tail(q))
<1> DEFINE p == Tail(q)
<1>1. /\ p \in Seq(S) /\ DOMAIN p = 1..(Len(q) - 1) /\ DOMAIN q = 1..Len(q) /\ Len(q) \in Nat \ {0}
      /\ Head(q) = q[1] /\ q[1] \in S /\ \A i \in 1..(Len(q) - 1) : p[i] = q[i + 1]
  OBVIOUS
<1> HIDE DEF p
<1>2. \A i \in DOMAIN p : i + 1 \in DOMAIN q /\ i + 1 # 1 /\ p[i] = q[i + 1]
  BY <1>1
<1>3. 1 \in DOMAIN q
  BY <1>1
<1>4. ToSet(p) \subseteq ToSet(q)
  BY <1>2 DEF ToSet
<1>5. ASSUME IsInjective(q) PROVE IsInjective(p) /\ Head(q) \notin ToSet(p)
  <2>1. \A i, j \in DOMAIN p : i + 1 = j + 1 => i = j
    BY <1>1
  <2> QED BY <1>1, <1>2, <1>3, <1>5, <2>1 DEF IsInjective, ToSet
<1> QED BY <1>1, <1>3, <1>4, <1>5 DEF p, ToSet

LEMMA RemoveAtOnce ==
  ASSUME NEW S, NEW q \in Seq(S), NEW k \in DOMAIN q
  PROVE  /\ RemoveAt(q, k) \in Seq(S) /\ q[k] \in S /\ ToSet(RemoveAt(q, k)) \subseteq ToSet(q)
         /\ IsInjective(q) => IsInjective(RemoveAt(q, k)) /\ q[k] \notin ToSet(RemoveAt(q, k))
<1> DEFINE p == RemoveAt(q, k)
<1>1. DOMAIN q = 1..Len(q) /\ Len(q) \in Nat /\ k \in 1..Len(q) /\ q[k] \in S
  OBVIOUS
<1>2. /\ p \in Seq(S) /\ DOMAIN p = 1..(Len(q) - 1)
      /\ \A i \in 1..(Len(q) - 1) : p[i] = IF i < k THEN q[i] ELSE q[i + 1]
  <2> DEFINE a == SubSeq(q, 1, k - 1)
             b == SubSeq(q, k + 1, Len(q))
  <2>1. a \in Seq(S) /\ Len(a) = k - 1 /\ \A i \in 1..(k - 1) : a[i] = q[i]
    BY <1>1
  <2>2. b \in Seq(S) /\ Len(b) = Len(q) - k /\ \A i \in 1..(Len(q) - k) : b[i] = q[k + i]
    BY <1>1
  <2>3. p = a \o b
    BY DEF RemoveAt
  <2> HIDE DEF a, b, p
  <2>4. /\ p \in Seq(S) /\ Len(p) = Len(a) + Len(b)
        /\ \A i \in 1..(Len(a) + Len(b)) : p[i] = IF i <= Len(a) THEN a[i] ELSE b[i - Len(a)]
    BY <2>1, <2>2, <2>3, ConcatProperties
  <2>5. Len(p) = Len(q) - 1 /\ DOMAIN p = 1..(Len(q) - 1)
    BY <1>1, <2>1, <2>2, <2>4
  <2>6. ASSUME NEW i \in 1..(Len(q) - 1) PROVE p[i] = IF i < k THEN q[i] ELSE q[i + 1]
    <3>1. p[i] = IF i <= k - 1 THEN a[i] ELSE b[i - (k - 1)]
      BY <1>1, <2>1, <2>2, <2>4
    <3>2. CASE i < k
      <4>1. i \in 1..(k - 1) /\ i <= k - 1
        BY <1>1, <3>2
      <4> QED BY <2>1, <3>1, <3>2, <4>1
    <3>3. CASE ~ (i < k)
      <4>1. i - (k - 1) \in 1..(Len(q) - k) /\ k + (i - (k - 1)) = i + 1 /\ ~ (i <= k - 1)
        BY <1>1, <3>3
      <4> QED BY <2>2, <3>1, <3>3, <4>1
    <3> QED BY <3>2, <3>3
  <2> QED BY <2>4, <2>5, <2>6
<1> HIDE DEF p
<1> DEFINE f == [i \in 1..(Len(q) - 1) |-> IF i < k THEN i ELSE i + 1]
<1>3. \A i \in DOMAIN p : f[i] \in DOMAIN q /\ f[i] # k /\ p[i] = q[f[i]]
  BY <1>1, <1>2
<1>4. \A i, j \in DOMAIN p : f[i] = f[j] => i = j
  BY <1>1, <1>2
<1> HIDE DEF f
<1>5. ToSet(p) \subseteq ToSet(q)
  BY <1>3 DEF ToSet
<1>6. ASSUME IsInjective(q) PROVE IsInjective(p) /\ q[k] \notin ToSet(p)
  BY <1>3, <1>4, <1>6 DEF IsInjective, ToSet
<1> QED BY <1>1, <1>2, <1>5, <1>6 DEF p

\* UnregisterSubscriber keeps the other addresses, each once if it was there once.
LEMMA RemovedOnce ==
  ASSUME NEW S, NEW list \in Seq(S), NEW v
  PROVE  /\ Removed(list, v) \in Seq(S)
         /\ ToSet(Removed(list, v)) \subseteq ToSet(list) \ {v}
         /\ IsInjective(list) => IsInjective(Removed(list, v))
<1> DEFINE n == Len(list)
<1>0. n \in Nat /\ DOMAIN list = 1..n /\ \A i \in 1..n : list[i] \in S
  OBVIOUS
<1>. PICK f \in [0..n -> Seq(S)] : Filters(f, list, v)
  BY Filtered
<1>1. /\ f[0] = <<>>
      /\ \A i \in 1..n : f[i] = IF list[i] # v THEN Append(f[i - 1], list[i]) ELSE f[i - 1]
      /\ Removed(list, v) = f[n]
  BY DEF Filters
<1> HIDE DEF n
<1> DEFINE Good(i) == /\ ToSet(f[i]) \subseteq {list[j] : j \in 1..i} \ {v}
                      /\ IsInjective(list) => IsInjective(f[i])
           T == {i \in Nat : i <= n => Good(i)}
<1>2. 0 \in T
  BY <1>0, <1>1 DEF ToSet, IsInjective
<1>3. ASSUME NEW i \in Nat, i \in T PROVE i + 1 \in T
  <2> SUFFICES ASSUME i + 1 <= n PROVE Good(i + 1)
    OBVIOUS
  <2>1. i + 1 \in 1..n /\ (i + 1) - 1 = i /\ i \in 0..n /\ Good(i) /\ f[i] \in Seq(S) /\ list[i + 1] \in S
    BY <1>0, <1>1, <1>3
  <2>2. f[i + 1] = IF list[i + 1] # v THEN Append(f[i], list[i + 1]) ELSE f[i]
    BY <1>1, <2>1
  <2>3. 1..i \subseteq 1..(i + 1) /\ i + 1 \in 1..(i + 1) /\ 1..(i + 1) \subseteq DOMAIN list /\ i + 1 \notin 1..i
    BY <1>0, <2>1
  <2>4. IsInjective(list) => list[i + 1] \notin ToSet(f[i])
    BY <2>1, <2>3 DEF IsInjective
  <2>5. /\ ToSet(Append(f[i], list[i + 1])) = ToSet(f[i]) \cup {list[i + 1]}
        /\ IsInjective(f[i]) /\ list[i + 1] \notin ToSet(f[i]) => IsInjective(Append(f[i], list[i + 1]))
    BY <2>1, AppendOnce
  <2> QED BY <2>1, <2>2, <2>3, <2>4, <2>5
<1>4. n \in T
  <2> HIDE DEF T
  <2> QED BY <1>0, <1>2, <1>3, SetInduction
<1>5. Good(n) /\ n \in 0..n
  BY <1>0, <1>4
<1>6. Removed(list, v) \in Seq(S) /\ Removed(list, v) = f[n]
  BY <1>0, <1>1
<1>7. {list[j] : j \in 1..n} = ToSet(list)
  BY <1>0 DEF ToSet
<1> QED BY <1>5, <1>6, <1>7
-----------------------------------------------------------------------------

LEMMA ElementOf == ASSUME NEW S, NEW q \in Seq(S), NEW x \in ToSet(q) PROVE x \in S
  BY DEF ToSet

LEMMA TypeInit == Init => TypeOK /\ CountInv
<1> SUFFICES ASSUME Init PROVE TypeOK /\ CountInv
  OBVIOUS
<1>1. /\ 0 \in 0..MaxStops /\ 0 \in 0..MaxFaults /\ 0 <= MaxEmits
      /\ <<>> \in Seq(Emission) /\ <<>> \in Seq(Datagram) /\ <<>> \in Seq(Services)
      /\ <<>> \in Seq([event : Events, to : Seq(Services)]) /\ Len(<<>>) = 0 /\ IsInjective(<<>>)
  BY BoundsAssumption DEF IsInjective
<1> QED BY <1>1 DEF Init, TypeOK, CountInv

\* The subscriber lists keep each address once.
LEMMA AddedOnce ==
  ASSUME NEW list \in Seq(Services), IsInjective(list), NEW v \in Services
  PROVE  Added(list, v) \in Seq(Services) /\ IsInjective(Added(list, v))
<1>1. ~Contains(list, v) => v \notin ToSet(list)
  BY DEF Contains, ToSet
<1> QED BY <1>1, AppendOnce DEF Added

LEMMA TransmitType ==
  ASSUME TypeOK, NEW v \in Services, NEW d \in Datagram, Transmit(v, d)
  PROVE  uplink' \in [Services -> Seq(Datagram)]
<1>1. uplink[v] \in Seq(Datagram)
  BY DEF TypeOK
<1>2. Append(uplink[v], d) \in Seq(Datagram)
  BY <1>1
<1> QED BY <1>2 DEF Transmit, TypeOK

LEMMA TypeSub ==
  ASSUME TypeOK, CountInv, NEW s \in Subs, SubStep(s) PROVE TypeOK' /\ CountInv'
<1> DEFINE Pcs == {"idle", "entering", "listed", "live", "leaving", "unlisted", "closing", "left"}
<1>0. /\ ServiceOf[s] \in Services /\ MaxStops \in Nat \ {0}
      /\ pc \in [Subs -> Pcs] /\ op \in [Subs -> {"none", "unsubscribe", "close"}]
      /\ stops \in [Subs -> 0..MaxStops] /\ stops[s] \in 0..MaxStops
      /\ uplink \in [Services -> Seq(Datagram)]
  BY SubsAssumption, BoundsAssumption DEF TypeOK
<1>1. UNCHANGED <<panicked, readerVars, svcClose, downlink, faults, serverVars>>
  BY DEF SubStep, SubscribeEnter, SubscribeList, SubscribeSend, SubscribeFails, UnsubscribeBegin,
     CloseSubBegin, End, Unlist, SendStop, CloseChan, Take, chanVars, netVars
<1>2. pc' \in [Subs -> Pcs]
  BY <1>0 DEF SubStep, SubscribeEnter, SubscribeList, SubscribeSend, SubscribeFails, UnsubscribeBegin,
     CloseSubBegin, End, Unlist, SendStop, CloseChan, Take, Goto, subVars
<1>3. op' \in [Subs -> {"none", "unsubscribe", "close"}]
  <2>1. op' = op \/ op' = [op EXCEPT ![s] = "unsubscribe"] \/ op' = [op EXCEPT ![s] = "close"]
    BY DEF SubStep, SubscribeEnter, SubscribeList, SubscribeSend, SubscribeFails, UnsubscribeBegin,
       CloseSubBegin, End, Unlist, SendStop, CloseChan, Take, subVars
  <2> QED BY <1>0, <2>1
<1>4. /\ stops' \in [Subs -> 0..MaxStops]
      /\ \A t \in Subs : pc'[t] \in {"idle", "entering", "listed"} => stops'[t] = 0
  <2>1. CASE SubscribeFails(s)
    <3>1. pc' = [pc EXCEPT ![s] = "leaving"] /\ stops' = [stops EXCEPT ![s] = MaxStops]
      BY <2>1 DEF SubscribeFails, Goto
    <3> QED BY <1>0, <3>1 DEF CountInv
  <2>2. CASE UnsubscribeBegin(s) \/ CloseSubBegin(s)
    <3>1. stops[s] < MaxStops /\ pc' = [pc EXCEPT ![s] = "leaving"] /\ stops' = [stops EXCEPT ![s] = @ + 1]
      BY <2>2 DEF UnsubscribeBegin, CloseSubBegin, End
    <3> QED BY <1>0, <3>1 DEF CountInv
  <2>3. CASE SubscribeEnter(s) \/ SubscribeList(s) \/ SubscribeSend(s) \/ Unlist(s) \/ SendStop(s) \/ CloseChan(s)
             \/ Take(s)
    <3>1. stops' = stops /\ \A t \in Subs : \/ pc'[t] = pc[t]
                                            \/ pc[t] \in {"idle", "entering", "listed"}
                                            \/ pc'[t] \notin {"idle", "entering", "listed"}
      BY <1>0, <2>3 DEF SubscribeEnter, SubscribeList, SubscribeSend, Unlist, SendStop, CloseChan, Take, Goto, subVars
    <3> QED BY <1>0, <3>1 DEF CountInv
  <2> QED BY <2>1, <2>2, <2>3 DEF SubStep
<1>5. listed' \subseteq Subs /\ chanClosed' \subseteq Subs /\ got' = got /\ taken' \in [Subs -> Nat]
  <2>1. listed \subseteq Subs /\ chanClosed \subseteq Subs /\ taken \in [Subs -> Nat]
    BY DEF TypeOK
  <2> QED
    BY <2>1 DEF SubStep, SubscribeEnter, SubscribeList, SubscribeSend, SubscribeFails, UnsubscribeBegin,
       CloseSubBegin, End, Unlist, SendStop, CloseChan, Take, chanVars
<1>6. uplink' \in [Services -> Seq(Datagram)]
  <2>1. CASE SubscribeSend(s)
    <3>1. [sub |-> s, k |-> 0] \in Datagram
      BY <1>0 DEF Datagram
    <3> QED BY <1>0, <2>1, <3>1, TransmitType DEF SubscribeSend
  <2>2. CASE SendStop(s)
    <3>1. [sub |-> s, k |-> stops[s]] \in Datagram
      BY <1>0 DEF Datagram
    <3> QED BY <1>0, <2>2, <3>1, TransmitType DEF SendStop
  <2>3. CASE SubscribeEnter(s) \/ SubscribeList(s) \/ SubscribeFails(s) \/ UnsubscribeBegin(s)
             \/ CloseSubBegin(s) \/ Unlist(s) \/ CloseChan(s) \/ Take(s)
    BY <1>0, <2>3 DEF SubscribeEnter, SubscribeList, SubscribeFails, UnsubscribeBegin, CloseSubBegin, End,
       Unlist, CloseChan, Take, netVars
  <2> QED BY <2>1, <2>2, <2>3 DEF SubStep
<1> QED BY <1>1, <1>2, <1>3, <1>4, <1>5, <1>6 DEF TypeOK, CountInv, readerVars, serverVars

\* Emissions are numbered from 1, up to the bound.
LEMMA EmitsDomain == ASSUME TypeOK, CountInv PROVE DOMAIN emits \subseteq Emission
<1> DEFINE Emitted == [event : Events, to : Seq(Services)]
<1>1. emits \in Seq(Emitted) /\ Len(emits) <= MaxEmits /\ MaxEmits \in Nat
  BY BoundsAssumption DEF TypeOK, CountInv
<1> HIDE DEF Emitted
<1> QED BY <1>1 DEF Emission

LEMMA TypeReader ==
  ASSUME TypeOK, CountInv, PathInv, NEW v \in Services, ReaderStep(v) PROVE TypeOK' /\ CountInv'
<1>1. UNCHANGED <<subVars, listed, taken, chanClosed, svcClose, uplink, faults, serverVars>>
  BY DEF ReaderStep, Read, ReadFails, Lock, Unlock, SendTo, chanVars, netVars
<1>2. readerPc' \in [Services -> {"read", "locking", "sending", "exited"}] /\ panicked' \in BOOLEAN
  BY DEF ReaderStep, Read, ReadFails, Lock, Unlock, SendTo, chanVars, TypeOK
<1>3. downlink' \in [Services -> Seq(Emission)] /\ msg' \in [Services -> Emission \cup {0}]
  <2>1. CASE Read(v)
    <3>1. PICK i \in Receivable(downlink[v]) : /\ msg' = [msg EXCEPT ![v] = downlink[v][i]]
                                               /\ downlink' = [downlink EXCEPT ![v] = RemoveAt(@, i)]
      BY <2>1 DEF Read
    <3>2. i \in DOMAIN downlink[v] /\ downlink[v] \in Seq(Emission)
      BY DEF Receivable, TypeOK
    <3>3. RemoveAt(downlink[v], i) \in Seq(Emission) /\ downlink[v][i] \in Emission
      BY <3>2, RemoveAtOnce
    <3> QED BY <3>1, <3>3 DEF TypeOK
  <2>2. CASE Unlock(v)
    BY <2>2 DEF Unlock, netVars, TypeOK
  <2>3. CASE UNCHANGED <<downlink, msg>>
    BY <2>3 DEF TypeOK
  <2> QED BY <2>1, <2>2, <2>3 DEF ReaderStep, ReadFails, Lock, SendTo, netVars
<1>4. toSend' \in [Services -> SUBSET Subs]
  <2>1. Audience(v, emits[msg[v]].event) \subseteq Subs
    BY DEF Audience, TypeOK
  <2> QED BY <2>1 DEF ReaderStep, Read, ReadFails, Lock, Unlock, SendTo, TypeOK
<1>5. got' \in [Subs -> Seq(Emission)]
  <2>1. ASSUME NEW s \in toSend[v], SendTo(v, s), msg[v] \in Emission
        PROVE  got' \in [Subs -> Seq(Emission)]
    <3>1. s \in Subs /\ got[s] \in Seq(Emission)
      BY DEF TypeOK
    <3>2. Append(got[s], msg[v]) \in Seq(Emission)
      BY <2>1, <3>1, AppendOnce
    <3> QED BY <2>1, <3>1, <3>2 DEF SendTo, TypeOK
  <2>2. DOMAIN emits \subseteq Emission
    BY EmitsDomain
  <2>3. readerPc[v] = "sending" => msg[v] \in Emission
    BY <2>2 DEF PathInv
  <2>4. CASE UNCHANGED got
    BY <2>4 DEF TypeOK
  <2> QED BY <2>1, <2>3, <2>4 DEF ReaderStep, Read, ReadFails, Lock, Unlock, SendTo, chanVars
<1> QED BY <1>1, <1>2, <1>3, <1>4, <1>5 DEF TypeOK, CountInv, subVars, serverVars

LEMMA TypeServer ==
  ASSUME TypeOK, CountInv, ServerStep PROVE TypeOK' /\ CountInv'
<1>1. UNCHANGED <<subVars, chanVars, readerVars, svcClose, faults>>
  BY DEF ServerStep, ServerRead, HandleSubscribe, EmitBegin, EmitWrite, SrvCloseStep, netVars
<1>2. srvClose' \in {"open", "closing", "closed"}
  BY DEF ServerStep, ServerRead, HandleSubscribe, EmitBegin, EmitWrite, SrvCloseStep, netVars, TypeOK
<1>3. uplink' \in [Services -> Seq(Datagram)] /\ jobs' \subseteq Datagram
  <2>1. ASSUME NEW v \in Services, ServerRead(v) PROVE uplink' \in [Services -> Seq(Datagram)] /\ jobs' \subseteq Datagram
    <3>1. PICK i \in Receivable(uplink[v]) : /\ jobs' = jobs \cup {uplink[v][i]}
                                             /\ uplink' = [uplink EXCEPT ![v] = RemoveAt(@, i)]
      BY <2>1 DEF ServerRead
    <3>2. i \in DOMAIN uplink[v] /\ uplink[v] \in Seq(Datagram)
      BY DEF Receivable, TypeOK
    <3>3. RemoveAt(uplink[v], i) \in Seq(Datagram) /\ uplink[v][i] \in Datagram
      BY <3>2, RemoveAtOnce
    <3> QED BY <3>1, <3>3 DEF TypeOK
  <2>2. CASE UNCHANGED uplink /\ jobs' \subseteq jobs
    BY <2>2 DEF TypeOK
  <2> QED BY <2>1, <2>2 DEF ServerStep, HandleSubscribe, EmitBegin, EmitWrite, SrvCloseStep, netVars
<1>4. srvSubs' \in [Events -> Seq(Services)] /\ \A e \in Events : IsInjective(srvSubs'[e])
  <2>1. ASSUME NEW d \in jobs, HandleSubscribe(d)
        PROVE  srvSubs' \in [Events -> Seq(Services)] /\ \A e \in Events : IsInjective(srvSubs'[e])
    <3> DEFINE v == ServiceOf[d.sub]
               e == EventOf[d.sub]
    <3>1. v \in Services /\ e \in Events
      BY SubsAssumption DEF TypeOK, Datagram
    <3>2. srvSubs[e] \in Seq(Services) /\ IsInjective(srvSubs[e])
      BY <3>1 DEF TypeOK
    <3>3. /\ Added(srvSubs[e], v) \in Seq(Services) /\ IsInjective(Added(srvSubs[e], v))
          /\ Removed(srvSubs[e], v) \in Seq(Services) /\ IsInjective(Removed(srvSubs[e], v))
      BY <3>1, <3>2, AddedOnce, RemovedOnce
    <3>4. \/ srvSubs' = srvSubs
          \/ srvSubs' = [srvSubs EXCEPT ![e] = Added(@, v)]
          \/ srvSubs' = [srvSubs EXCEPT ![e] = Removed(@, v)]
      BY <2>1 DEF HandleSubscribe
    <3> HIDE DEF e, v
    <3> QED BY <3>1, <3>3, <3>4 DEF TypeOK
  <2>2. CASE UNCHANGED srvSubs
    BY <2>2 DEF TypeOK
  <2> QED BY <2>1, <2>2 DEF ServerStep, ServerRead, EmitBegin, EmitWrite, SrvCloseStep
<1> DEFINE Emitted == [event : Events, to : Seq(Services)]
<1>5. emits' \in Seq(Emitted) /\ Len(emits') <= MaxEmits /\ downlink' \in [Services -> Seq(Emission)]
  <2>0. emits \in Seq(Emitted) /\ downlink \in [Services -> Seq(Emission)] /\ Len(emits) <= MaxEmits
        /\ MaxEmits \in Nat
    BY BoundsAssumption DEF TypeOK, CountInv
  <2>1. ASSUME NEW e \in Events, EmitBegin(e)
        PROVE  emits' \in Seq(Emitted) /\ Len(emits') <= MaxEmits /\ downlink' = downlink
    <3>1. [event |-> e, to |-> srvSubs[e]] \in Emitted
      BY DEF TypeOK
    <3> HIDE DEF Emitted
    <3> QED BY <2>0, <2>1, <3>1 DEF EmitBegin, netVars
  <2>2. ASSUME NEW n \in DOMAIN emits, EmitWrite(n)
        PROVE  emits' \in Seq(Emitted) /\ Len(emits') <= MaxEmits /\ downlink' \in [Services -> Seq(Emission)]
    <3>1. emits[n] \in Emitted
      <4> HIDE DEF Emitted
      <4> QED BY <2>0
    <3>2. emits[n].to \in Seq(Services) /\ emits[n].to # <<>>
      BY <2>2, <3>1 DEF EmitWrite
    <3>3. Tail(emits[n].to) \in Seq(Services) /\ Head(emits[n].to) \in Services
      BY <3>2, TailOnce
    <3>4. [emits[n] EXCEPT !.to = Tail(@)] \in Emitted
      BY <3>1, <3>3
    <3>5. emits' = [emits EXCEPT ![n] = [emits[n] EXCEPT !.to = Tail(@)]]
      BY <2>2 DEF EmitWrite
    <3>6. emits' \in Seq(Emitted) /\ Len(emits') = Len(emits)
      <4> HIDE DEF Emitted
      <4> QED BY <2>0, <3>4, <3>5
    <3>7. n \in Emission
      BY EmitsDomain
    <3>8. Append(downlink[Head(emits[n].to)], n) \in Seq(Emission)
      BY <2>0, <3>3, <3>7
    <3> QED BY <2>0, <2>2, <3>3, <3>6, <3>8 DEF EmitWrite
  <2>3. CASE UNCHANGED <<emits, downlink>>
    BY <2>0, <2>3
  <2> QED BY <2>0, <2>1, <2>2, <2>3 DEF ServerStep, ServerRead, HandleSubscribe, SrvCloseStep, netVars
<1> QED BY <1>1, <1>2, <1>3, <1>4, <1>5 DEF TypeOK, CountInv, subVars, chanVars, readerVars

LEMMA TypeNetwork ==
  ASSUME TypeOK, CountInv, NEW v \in Services, Lose(v) \/ Duplicate(v) PROVE TypeOK' /\ CountInv'
<1>1. UNCHANGED <<subVars, chanVars, readerVars, svcClose, serverVars>> /\ faults' \in 0..MaxFaults
  BY BoundsAssumption DEF Lose, Duplicate, TypeOK
<1>2. uplink[v] \in Seq(Datagram) /\ downlink[v] \in Seq(Emission)
  BY DEF TypeOK
<1>3. uplink' \in [Services -> Seq(Datagram)]
  <2>1. ASSUME NEW i \in DOMAIN uplink[v], uplink' = [uplink EXCEPT ![v] = RemoveAt(@, i)]
        PROVE  uplink' \in [Services -> Seq(Datagram)]
    <3>1. RemoveAt(uplink[v], i) \in Seq(Datagram)
      BY <1>2, RemoveAtOnce
    <3> QED BY <2>1, <3>1 DEF TypeOK
  <2>2. ASSUME NEW d \in ToSet(uplink[v]), Transmit(v, d) PROVE uplink' \in [Services -> Seq(Datagram)]
    BY <1>2, <2>2, ElementOf, TransmitType
  <2> QED BY <2>1, <2>2 DEF Lose, Duplicate, TypeOK
<1>4. downlink' \in [Services -> Seq(Emission)]
  <2>1. ASSUME NEW i \in DOMAIN downlink[v], downlink' = [downlink EXCEPT ![v] = RemoveAt(@, i)]
        PROVE  downlink' \in [Services -> Seq(Emission)]
    <3>1. RemoveAt(downlink[v], i) \in Seq(Emission)
      BY <1>2, RemoveAtOnce
    <3> QED BY <2>1, <3>1 DEF TypeOK
  <2>2. ASSUME NEW n \in ToSet(downlink[v]), downlink' = [downlink EXCEPT ![v] = Append(@, n)]
        PROVE  downlink' \in [Services -> Seq(Emission)]
    <3>1. Append(downlink[v], n) \in Seq(Emission)
      BY <1>2, ElementOf, AppendOnce
    <3> QED BY <2>2, <3>1 DEF TypeOK
  <2> QED BY <2>1, <2>2 DEF Lose, Duplicate, TypeOK
<1> QED BY <1>1, <1>3, <1>4 DEF TypeOK, CountInv, subVars, chanVars, readerVars, serverVars

LEMMA TypeClose ==
  ASSUME TypeOK, CountInv, NEW v \in Services, SvcCloseStep(v) PROVE TypeOK' /\ CountInv'
<1>1. /\ UNCHANGED <<subVars, chanVars, readerVars, netVars, serverVars>>
      /\ svcClose' \in [Services -> {"open", "closing", "draining", "returned"}]
  BY DEF SvcCloseStep, TypeOK
<1> QED BY <1>1 DEF TypeOK, CountInv, subVars, chanVars, readerVars, netVars, serverVars

-----------------------------------------------------------------------------

\* All that the way of a notification depends on.
pathVars == <<got, readerPc, msg, toSend, downlink, faults, emits>>

LEMMA PathInit == Init => PathInv /\ OnceInv
  BY DEF Init, PathInv, OnceInv, EmitOnce, LinkOnce, GotOnce, Arrived, ToSet, IsInjective

LEMMA PathStutter == ASSUME PathInv, OnceInv, UNCHANGED pathVars PROVE PathInv' /\ OnceInv'
  BY DEF pathVars, PathInv, OnceInv, EmitOnce, LinkOnce, GotOnce, Arrived

\* An Emit is only ever addressed to services.
LEMMA EmitsTo == ASSUME TypeOK PROVE \A m \in DOMAIN emits : emits[m].to \in Seq(Services) /\ ToSet(emits[m].to) \subseteq Services
<1> DEFINE Emitted == [event : Events, to : Seq(Services)]
<1>1. emits \in Seq(Emitted)
  BY DEF TypeOK
<1>2. \A m \in DOMAIN emits : emits[m] \in Emitted
  <2> HIDE DEF Emitted
  <2> QED BY <1>1
<1> QED BY <1>2 DEF ToSet

\* The next notification of a service, out of the queue and into readLoop.
LEMMA PathRead ==
  ASSUME TypeOK, CountInv, PathInv, OnceInv, NEW v \in Services, Read(v) PROVE PathInv' /\ OnceInv'
<1>1. PICK i \in DOMAIN downlink[v] : /\ msg' = [msg EXCEPT ![v] = downlink[v][i]]
                                      /\ downlink' = [downlink EXCEPT ![v] = RemoveAt(@, i)]
  BY DEF Read, Receivable
<1>2. downlink[v] \in Seq(Emission) /\ downlink \in [Services -> Seq(Emission)]
      /\ msg \in [Services -> Emission \cup {0}]
      /\ readerPc \in [Services -> {"read", "locking", "sending", "exited"}]
  BY DEF TypeOK
<1> DEFINE n == downlink[v][i]
           q == RemoveAt(downlink[v], i)
<1>3. /\ ToSet(q) \subseteq ToSet(downlink[v]) /\ n \in ToSet(downlink[v])
      /\ IsInjective(downlink[v]) => IsInjective(q) /\ n \notin ToSet(q)
  <2>1. n \in ToSet(downlink[v])
    BY DEF ToSet
  <2>2. /\ ToSet(q) \subseteq ToSet(downlink[v])
        /\ IsInjective(downlink[v]) => IsInjective(q) /\ n \notin ToSet(q)
    BY <1>2, RemoveAtOnce
  <2> QED BY <2>1, <2>2
<1>4. /\ msg' = [msg EXCEPT ![v] = n] /\ downlink' = [downlink EXCEPT ![v] = q]
      /\ readerPc' = [readerPc EXCEPT ![v] = "locking"]
      /\ UNCHANGED <<got, toSend, faults, emits>>
  BY <1>1 DEF Read, chanVars, serverVars
<1> HIDE DEF n, q
<1>5. PathInv'
  BY <1>2, <1>3, <1>4 DEF PathInv
<1>6. ASSUME faults = 0 PROVE EmitOnce' /\ LinkOnce' /\ GotOnce'
  <2>1. \A w \in Services, m \in DOMAIN emits : Arrived(w, m)' => Arrived(w, m)
    BY <1>2, <1>3, <1>4 DEF Arrived
  <2>2. EmitOnce'
    BY <1>4, <1>6, <2>1, EmitsTo DEF OnceInv, EmitOnce
  <2>3. LinkOnce'
    BY <1>2, <1>3, <1>4, <1>6 DEF OnceInv, LinkOnce
  <2>4. GotOnce'
    <3> SUFFICES ASSUME NEW s \in Subs
                 PROVE  /\ IsInjective(got[s])
                        /\ \A m \in ToSet(got[s]) :
                             /\ m \notin ToSet(downlink'[ServiceOf[s]])
                             /\ msg'[ServiceOf[s]] = m => readerPc'[ServiceOf[s]] = "sending" /\ s \notin toSend[ServiceOf[s]]
      BY <1>4 DEF GotOnce
    <3>1. ServiceOf[s] \in Services
      BY SubsAssumption
    <3>2. /\ IsInjective(got[s])
          /\ \A m \in ToSet(got[s]) :
               /\ m \notin ToSet(downlink[ServiceOf[s]])
               /\ msg[ServiceOf[s]] = m => readerPc[ServiceOf[s]] = "sending" /\ s \notin toSend[ServiceOf[s]]
      BY <1>6 DEF OnceInv, GotOnce
    <3>3. CASE ServiceOf[s] = v
      BY <1>2, <1>3, <1>4, <3>2, <3>3
    <3>4. CASE ServiceOf[s] # v
      BY <1>2, <1>4, <1>6, <3>1, <3>2, <3>4 DEF OnceInv, GotOnce
    <3> QED BY <3>3, <3>4
  <2> QED BY <2>2, <2>3, <2>4
<1> QED BY <1>4, <1>5, <1>6 DEF OnceInv

LEMMA PathLock ==
  ASSUME TypeOK, CountInv, PathInv, OnceInv, NEW v \in Services, Lock(v) PROVE PathInv' /\ OnceInv'
<1>1. /\ readerPc[v] = "locking" /\ readerPc' = [readerPc EXCEPT ![v] = "sending"]
      /\ toSend' = [toSend EXCEPT ![v] = Audience(v, emits[msg[v]].event)]
      /\ UNCHANGED <<got, msg, downlink, faults, emits>>
  BY DEF Lock, chanVars, netVars, serverVars
<1>2. readerPc \in [Services -> {"read", "locking", "sending", "exited"}] /\ toSend \in [Services -> SUBSET Subs]
  BY DEF TypeOK
<1>3. PathInv'
  BY <1>1, <1>2 DEF PathInv, Audience
<1>4. (EmitOnce <=> EmitOnce') /\ (LinkOnce <=> LinkOnce')
  BY <1>1 DEF EmitOnce, LinkOnce, Arrived
<1>5. GotOnce => GotOnce'
  BY <1>1, <1>2, SubsAssumption DEF GotOnce
<1> QED BY <1>1, <1>3, <1>4, <1>5 DEF OnceInv

LEMMA PathUnlock ==
  ASSUME TypeOK, CountInv, PathInv, OnceInv, NEW v \in Services, Unlock(v) \/ ReadFails(v) PROVE PathInv' /\ OnceInv'
<1>1. /\ msg'[v] = 0 /\ readerPc'[v] \notin {"locking", "sending"}
      /\ \A w \in Services : w # v => msg'[w] = msg[w] /\ readerPc'[w] = readerPc[w]
      /\ UNCHANGED <<got, toSend, downlink, faults, emits>>
  BY DEF Unlock, ReadFails, TypeOK, PathInv, chanVars, netVars, serverVars
<1>2. DOMAIN emits \subseteq Emission /\ 0 \notin Emission
  BY EmitsDomain DEF Emission
<1>3. PathInv'
  BY <1>1 DEF PathInv
<1>4. EmitOnce => EmitOnce'
  <2>1. \A w \in Services, m \in DOMAIN emits : Arrived(w, m)' => Arrived(w, m)
    BY <1>1, <1>2 DEF Arrived
  <2> QED BY <1>1, <2>1, EmitsTo DEF EmitOnce
<1>5. LinkOnce => LinkOnce'
  BY <1>1, <1>2 DEF LinkOnce, PathInv
<1>6. GotOnce => GotOnce'
  BY <1>1, <1>2, SubsAssumption DEF GotOnce, PathInv
<1> QED BY <1>1, <1>3, <1>4, <1>5, <1>6 DEF OnceInv

\* One send of a fan-out: the channel has not had this notification yet.
LEMMA PathSend ==
  ASSUME TypeOK, CountInv, IInv, PathInv, OnceInv, NEW v \in Services, NEW s \in toSend[v], SendTo(v, s)
  PROVE  PathInv' /\ OnceInv'
<1> DEFINE n == msg[v]
<1>1. /\ s \in Subs /\ ServiceOf[s] = v /\ readerPc[v] = "sending" /\ n \in DOMAIN emits
      /\ EventOf[s] = emits[n].event /\ n \in Emission /\ got[s] \in Seq(Emission)
      /\ got \in [Subs -> Seq(Emission)] /\ toSend \in [Services -> SUBSET Subs]
  BY EmitsDomain DEF SendTo, IInv, FanOutInv, PathInv, TypeOK
<1>2. /\ toSend' = [toSend EXCEPT ![v] = @ \ {s}]
      /\ UNCHANGED <<readerPc, msg, downlink, faults, emits>>
      /\ got' = got \/ got' = [got EXCEPT ![s] = Append(@, n)]
  BY DEF SendTo, netVars, serverVars
<1>3. /\ ToSet(Append(got[s], n)) = ToSet(got[s]) \cup {n}
      /\ IsInjective(got[s]) /\ n \notin ToSet(got[s]) => IsInjective(Append(got[s], n))
  BY <1>1, AppendOnce
<1> HIDE DEF n
<1>4. /\ ToSet(got'[s]) \subseteq ToSet(got[s]) \cup {n}
      /\ IsInjective(got[s]) /\ n \notin ToSet(got[s]) => IsInjective(got'[s])
      /\ \A t \in Subs : t # s => got'[t] = got[t]
  BY <1>1, <1>2, <1>3
<1>5. \A w \in Services : /\ w # v => toSend'[w] = toSend[w]
                          /\ toSend'[v] = toSend[v] \ {s}
  BY <1>1, <1>2
<1>6. PathInv'
  BY <1>1, <1>2, <1>4, <1>5 DEF PathInv
<1>7. ASSUME faults = 0 PROVE EmitOnce' /\ LinkOnce' /\ GotOnce'
  <2>1. \A w \in Services, m \in DOMAIN emits : Arrived(w, m)' => Arrived(w, m)
    BY <1>1, <1>2, <1>4 DEF Arrived, n
  <2>2. EmitOnce'
    BY <1>2, <1>7, <2>1, EmitsTo DEF OnceInv, EmitOnce
  <2>3. LinkOnce'
    BY <1>2, <1>7 DEF OnceInv, LinkOnce
  <2>4. n \notin ToSet(got[s]) /\ n \notin ToSet(downlink[v])
    BY <1>1, <1>7 DEF OnceInv, GotOnce, LinkOnce, n
  <2>5. GotOnce'
    <3> SUFFICES ASSUME NEW t \in Subs
                 PROVE  /\ IsInjective(got'[t])
                        /\ \A m \in ToSet(got'[t]) :
                             /\ m \notin ToSet(downlink[ServiceOf[t]])
                             /\ msg[ServiceOf[t]] = m =>
                                  readerPc[ServiceOf[t]] = "sending" /\ t \notin toSend'[ServiceOf[t]]
      BY <1>2 DEF GotOnce
    <3>1. /\ IsInjective(got[t])
          /\ \A m \in ToSet(got[t]) :
               /\ m \notin ToSet(downlink[ServiceOf[t]])
               /\ msg[ServiceOf[t]] = m => readerPc[ServiceOf[t]] = "sending" /\ t \notin toSend[ServiceOf[t]]
      BY <1>7 DEF OnceInv, GotOnce
    <3>2. ServiceOf[t] \in Services /\ toSend'[ServiceOf[t]] \subseteq toSend[ServiceOf[t]]
      BY <1>5, SubsAssumption
    <3>3. CASE t = s
      BY <1>1, <1>4, <1>5, <2>4, <3>1, <3>3
    <3>4. CASE t # s
      BY <1>4, <3>1, <3>2, <3>4
    <3> QED BY <3>3, <3>4
  <2> QED BY <2>2, <2>3, <2>5
<1> QED BY <1>2, <1>6, <1>7 DEF OnceInv

\* A new Emit: nobody has heard of it.
LEMMA PathBegin ==
  ASSUME TypeOK, CountInv, PathInv, OnceInv, NEW e \in Events, EmitBegin(e) PROVE PathInv' /\ OnceInv'
<1> DEFINE Emitted == [event : Events, to : Seq(Services)]
           new == [event |-> e, to |-> srvSubs[e]]
           k == Len(emits) + 1
<1>1. emits \in Seq(Emitted) /\ new \in Emitted /\ IsInjective(srvSubs[e]) /\ emits' = Append(emits, new)
      /\ UNCHANGED <<got, readerPc, msg, toSend, downlink, faults>>
  BY DEF TypeOK, EmitBegin, chanVars, readerVars, netVars
<1>2. new.to = srvSubs[e]
  OBVIOUS
<1> HIDE DEF Emitted, new
<1>3. /\ DOMAIN emits' = DOMAIN emits \cup {k} /\ k \notin DOMAIN emits /\ k # 0 /\ emits'[k] = new
      /\ \A m \in DOMAIN emits : emits'[m] = emits[m]
  BY <1>1
<1> HIDE DEF k
<1>4. PathInv'
  BY <1>1, <1>3 DEF PathInv
<1>5. \A w \in Services : ~Arrived(w, k)
  BY <1>3 DEF PathInv, Arrived
<1>6. \A w \in Services, m \in DOMAIN emits' : Arrived(w, m)' <=> Arrived(w, m)
  BY <1>1 DEF Arrived
<1>7. ToSet(srvSubs[e]) \subseteq Services
  BY DEF TypeOK, ToSet
<1>8. EmitOnce => EmitOnce'
  BY <1>1, <1>2, <1>3, <1>5, <1>6, <1>7, EmitsTo DEF EmitOnce
<1>9. (LinkOnce => LinkOnce') /\ (GotOnce => GotOnce')
  BY <1>1 DEF LinkOnce, GotOnce
<1> QED BY <1>1, <1>4, <1>8, <1>9 DEF OnceInv

\* One write of an Emit: the address has not had this notification yet.
LEMMA PathWrite ==
  ASSUME TypeOK, CountInv, PathInv, OnceInv, NEW n \in DOMAIN emits, EmitWrite(n) PROVE PathInv' /\ OnceInv'
<1> DEFINE w == Head(emits[n].to)
           rest == Tail(emits[n].to)
<1>1. /\ emits[n].to \in Seq(Services) /\ emits[n].to # <<>> /\ n \in Emission
      /\ downlink \in [Services -> Seq(Emission)]
  BY EmitsTo, EmitsDomain DEF EmitWrite, TypeOK
<1>2. /\ w \in Services /\ w \in ToSet(emits[n].to) /\ ToSet(rest) \subseteq ToSet(emits[n].to)
      /\ IsInjective(emits[n].to) => IsInjective(rest) /\ w \notin ToSet(rest)
  BY <1>1, TailOnce
<1>3. /\ DOMAIN emits' = DOMAIN emits /\ \A m \in DOMAIN emits : m # n => emits'[m] = emits[m]
      /\ emits'[n].to = rest /\ emits'[n].event = emits[n].event
  <2> DEFINE Emitted == [event : Events, to : Seq(Services)]
  <2>1. emits \in Seq(Emitted)
    BY DEF TypeOK
  <2>2. emits' = [emits EXCEPT ![n] = [emits[n] EXCEPT !.to = rest]]
    BY DEF EmitWrite
  <2>3. emits[n] \in Emitted
    <3> HIDE DEF Emitted
    <3> QED BY <2>1
  <2>4. [emits[n] EXCEPT !.to = rest].to = rest /\ [emits[n] EXCEPT !.to = rest].event = emits[n].event
    BY <2>3
  <2> HIDE DEF Emitted, rest
  <2> QED BY <2>1, <2>2, <2>4
<1>4. /\ UNCHANGED <<got, readerPc, msg, toSend, faults>>
      /\ downlink' = downlink \/ downlink' = [downlink EXCEPT ![w] = Append(@, n)]
  BY DEF EmitWrite, chanVars, readerVars
<1>5. /\ ToSet(Append(downlink[w], n)) = ToSet(downlink[w]) \cup {n}
      /\ IsInjective(downlink[w]) /\ n \notin ToSet(downlink[w]) => IsInjective(Append(downlink[w], n))
  BY <1>1, <1>2, AppendOnce
<1> HIDE DEF w, rest
<1>6. /\ ToSet(downlink'[w]) \subseteq ToSet(downlink[w]) \cup {n}
      /\ IsInjective(downlink[w]) /\ n \notin ToSet(downlink[w]) => IsInjective(downlink'[w])
      /\ \A v \in Services : v # w => downlink'[v] = downlink[v]
  BY <1>1, <1>2, <1>4, <1>5
<1>7. PathInv'
  <2>1. \A m \in DOMAIN emits : emits'[m].event = emits[m].event
    BY <1>3
  <2>2. \A v \in Services : ToSet(downlink'[v]) \subseteq DOMAIN emits
    BY <1>6 DEF PathInv
  <2> QED BY <1>3, <1>4, <2>1, <2>2 DEF PathInv
<1>8. ASSUME faults = 0 PROVE EmitOnce' /\ LinkOnce' /\ GotOnce'
  <2>1. ~Arrived(w, n) /\ w \notin ToSet(rest)
    BY <1>2, <1>8 DEF OnceInv, EmitOnce
  <2>2. \A v \in Services, m \in DOMAIN emits : Arrived(v, m)' => Arrived(v, m) \/ (v = w /\ m = n)
    BY <1>4, <1>6 DEF Arrived
  <2>3. EmitOnce'
    <3>1. \A m \in DOMAIN emits : /\ ToSet(emits'[m].to) \subseteq ToSet(emits[m].to)
                                  /\ IsInjective(emits[m].to) => IsInjective(emits'[m].to)
                                  /\ m = n => w \notin ToSet(emits'[m].to)
      BY <1>2, <1>3, <2>1
    <3> QED BY <1>3, <1>8, <2>2, <3>1, EmitsTo DEF OnceInv, EmitOnce
  <2>4. LinkOnce'
    BY <1>4, <1>6, <1>8, <2>1 DEF OnceInv, LinkOnce, Arrived
  <2>5. GotOnce'
    <3> SUFFICES ASSUME NEW s \in Subs, NEW m \in ToSet(got[s])
                 PROVE  m \notin ToSet(downlink'[ServiceOf[s]])
      BY <1>4, <1>8 DEF OnceInv, GotOnce
    <3>1. ServiceOf[s] \in Services /\ m \notin ToSet(downlink[ServiceOf[s]])
      BY <1>8, SubsAssumption DEF OnceInv, GotOnce
    <3>2. ServiceOf[s] = w => m # n
      BY <2>1 DEF Arrived
    <3> QED BY <1>6, <3>1, <3>2
  <2> QED BY <2>3, <2>4, <2>5
<1> QED BY <1>4, <1>7, <1>8 DEF OnceInv

\* The network only carries what has been emitted, however often; once it has
\* misbehaved, OnceInv claims nothing.
LEMMA PathNetwork ==
  ASSUME TypeOK, CountInv, PathInv, NEW v \in Services, Lose(v) \/ Duplicate(v) PROVE PathInv' /\ OnceInv'
<1>1. faults' # 0 /\ UNCHANGED <<got, readerPc, msg, toSend, emits>>
  BY DEF TypeOK, Lose, Duplicate, chanVars, readerVars, serverVars
<1>2. downlink[v] \in Seq(Emission) /\ downlink \in [Services -> Seq(Emission)]
  BY DEF TypeOK
<1>3. \/ UNCHANGED downlink
      \/ \E i \in DOMAIN downlink[v] : downlink' = [downlink EXCEPT ![v] = RemoveAt(@, i)]
      \/ \E n \in ToSet(downlink[v]) : downlink' = [downlink EXCEPT ![v] = Append(@, n)]
  BY DEF Lose, Duplicate
<1>4. \A i \in DOMAIN downlink[v] : ToSet(RemoveAt(downlink[v], i)) \subseteq ToSet(downlink[v])
  BY <1>2, RemoveAtOnce
<1>5. \A n \in ToSet(downlink[v]) : ToSet(Append(downlink[v], n)) \subseteq ToSet(downlink[v])
  BY <1>2, ElementOf, AppendOnce
<1>6. \A w \in Services : ToSet(downlink'[w]) \subseteq ToSet(downlink[w])
  BY <1>2, <1>3, <1>4, <1>5
<1> QED BY <1>1, <1>6 DEF PathInv, OnceInv
-----------------------------------------------------------------------------

\* The types with the counters' bounds, and the way of a notification.
FullInv == IInv /\ TypeOK /\ CountInv /\ PathInv /\ OnceInv

LEMMA PathStep ==
  ASSUME FullInv, Next PROVE PathInv' /\ OnceInv'
<1> USE DEF FullInv
<1>1. ASSUME NEW s \in Subs, SubStep(s) PROVE PathInv' /\ OnceInv'
  <2>1. UNCHANGED pathVars
    BY <1>1 DEF SubStep, SubscribeEnter, SubscribeList, SubscribeSend, SubscribeFails, UnsubscribeBegin,
       CloseSubBegin, End, Unlist, SendStop, CloseChan, Take, pathVars, chanVars, readerVars, netVars, serverVars
  <2> QED BY <2>1, PathStutter
<1>2. ASSUME NEW v \in Services, ReaderStep(v) PROVE PathInv' /\ OnceInv'
  BY <1>2, PathRead, PathLock, PathUnlock, PathSend DEF ReaderStep
<1>3. ASSUME NEW v \in Services, Lose(v) \/ Duplicate(v) PROVE PathInv' /\ OnceInv'
  BY <1>3, PathNetwork
<1>4. ASSUME NEW v \in Services, SvcCloseStep(v) PROVE PathInv' /\ OnceInv'
  <2>1. UNCHANGED pathVars
    BY <1>4 DEF SvcCloseStep, pathVars, chanVars, readerVars, netVars, serverVars
  <2> QED BY <2>1, PathStutter
<1>5. CASE ServerStep
  <2>1. ASSUME NEW e \in Events, EmitBegin(e) PROVE PathInv' /\ OnceInv'
    BY <2>1, PathBegin
  <2>2. ASSUME NEW n \in DOMAIN emits, EmitWrite(n) PROVE PathInv' /\ OnceInv'
    BY <2>2, PathWrite
  <2>3. CASE (\E v \in Services : ServerRead(v)) \/ (\E d \in jobs : HandleSubscribe(d)) \/ SrvCloseStep
    <3>1. UNCHANGED pathVars
      BY <2>3 DEF ServerRead, HandleSubscribe, SrvCloseStep, pathVars, chanVars, readerVars, netVars
    <3> QED BY <3>1, PathStutter
  <2> QED BY <1>5, <2>1, <2>2, <2>3 DEF ServerStep
<1> QED BY <1>1, <1>2, <1>3, <1>4, <1>5 DEF Next

LEMMA FullStep ==
  ASSUME FullInv, IInv', [Next]_vars PROVE FullInv'
<1>1. CASE Next
  <2>1. TypeOK' /\ CountInv'
    BY <1>1, TypeSub, TypeReader, TypeServer, TypeNetwork, TypeClose DEF Next, FullInv
  <2> QED BY <1>1, <2>1, PathStep DEF FullInv
<1>2. CASE UNCHANGED vars
  <2>1. UNCHANGED pathVars
    BY <1>2 DEF vars, pathVars, chanVars, readerVars, netVars, serverVars
  <2>2. TypeOK' /\ CountInv'
    BY <1>2 DEF FullInv, vars, TypeOK, CountInv, subVars, chanVars, readerVars, netVars, serverVars
  <2> QED BY <2>1, <2>2, PathStutter DEF FullInv
<1> QED BY <1>1, <1>2

\* Every notification on a downlink, in a read loop or in a channel has been
\* emitted; unless the network misbehaves it is in one place (Emit, dispatchFrame).
THEOREM FullInductive == Spec => []FullInv
<1>1. Init => FullInv
  BY IInvInit, TypeInit, PathInit DEF FullInv
<1>2. FullInv /\ IInv' /\ [Next]_vars => FullInv'
  BY FullStep
<1> QED BY <1>1, <1>2, Inductive, PTL DEF Spec

\* The variables keep their types, and no address is on a subscriber list of
\* the server twice (RegisterSubscriber, UnregisterSubscriber).
THEOREM TypeCorrect == Spec => []TypeOK
<1>1. FullInv => TypeOK
  BY DEF FullInv
<1> QED BY <1>1, FullInductive, PTL

\* One Emit reaches a subscription at most once on a network that neither loses
\* nor duplicates, whatever it reorders (RegisterSubscriber, dispatchFrame).
THEOREM DeliveredOnceHolds == Spec => []DeliveredOnce
<1>1. FullInv => DeliveredOnce
  <2> SUFFICES ASSUME FullInv, MaxFaults = 0 PROVE \A s \in Subs : IsInjective(got[s])
    BY DEF DeliveredOnce
  <2>1. faults = 0
    BY DEF FullInv, TypeOK
  <2> QED BY <2>1 DEF FullInv, OnceInv, GotOnce
<1> QED BY <1>1, FullInductive, PTL

\* On any network, a channel is sent notifications of its own event only: the
\* lookup dispatchFrame makes under svc.mu.
THEOREM OwnEventOnlyHolds == Spec => []OwnEventOnly
<1>1. FullInv => OwnEventOnly
  BY DEF FullInv, PathInv, OwnEventOnly
<1> QED BY <1>1, FullInductive, PTL
=============================================================================
