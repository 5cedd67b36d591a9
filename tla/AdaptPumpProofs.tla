--------------------------- MODULE AdaptPumpProofs ---------------------------
(***************************************************************************)
(* The goroutine of serviceAdapter.Subscribe: for channels of any depth    *)
(* and any number of events it keeps what an event stream promises.        *)
(***************************************************************************)
EXTENDS AdaptPump, SequenceTheorems, TLAPS

\* What a channel holds after a send and after a receive.
LEMMA Sent ==
  ASSUME NEW ch \in Seq(Events), NEW e \in Events
  PROVE  /\ Append(ch, e) \in Seq(Events) /\ Len(Append(ch, e)) = Len(ch) + 1
         /\ Append(ch, e)[Len(ch) + 1] = e
         /\ \A i \in 1..Len(ch) : Append(ch, e)[i] = ch[i]
         /\ Len(ch) \in Nat
  OBVIOUS

LEMMA Received ==
  ASSUME NEW ch \in Seq(Events), ch # <<>>
  PROVE  /\ Head(ch) \in Events /\ Head(ch) = ch[1]
         /\ Tail(ch) \in Seq(Events) /\ Len(Tail(ch)) = Len(ch) - 1
         /\ \A i \in 1..Len(ch) - 1 : Tail(ch)[i] = ch[i + 1]
         /\ Len(ch) \in Nat \ {0}
  OBVIOUS

LEMMA EmptyChannel == <<>> \in Seq(Events) /\ Len(<<>>) = 0
  OBVIOUS

LEMMA HeldIsSeq == ASSUME TypeOK PROVE Held \in Seq(Events) /\ (hand = None => Held = <<>>)
  BY DEF TypeOK, Held

LEMMA IInvInit == Init => IInv
<1> SUFFICES ASSUME Init PROVE IInv
  OBVIOUS
<1>1. TypeOK
  <2>1. src \in Seq(Events) /\ Len(src) <= Depth /\ out \in Seq(Events) /\ Len(out) <= Depth /\ got \in Seq(Events)
    BY PumpAssumption, EmptyChannel DEF Init
  <2>2. emitted \in 0..MaxEvents
    BY PumpAssumption DEF Init
  <2> QED BY <2>1, <2>2 DEF Init, TypeOK
<1>2. EndsEmpty /\ NewestKept
  BY DEF Init, EndsEmpty, NewestKept
<1> QED BY <1>1, <1>2 DEF IInv

LEMMA TypeInv == ASSUME TypeOK, EndsEmpty, [Next]_vars PROVE TypeOK' /\ EndsEmpty'
<1> USE DEF TypeOK, EndsEmpty, Goto, HasRoom, consumerVars, sourceVars
<1>0. Depth \in Nat \ {0} /\ MaxEvents \in Nat /\ None \notin Events
  BY PumpAssumption
<1>1. CASE SubscribeRefused \/ Subscribe
  BY <1>1 DEF SubscribeRefused, Subscribe
<1>2. CASE Emit
  <2>1. emitted' \in Events /\ emitted' \in 0..MaxEvents
    BY <1>0, <1>2 DEF Emit, Events
  <2>2. Append(src, emitted') \in Seq(Events) /\ Len(Append(src, emitted')) = Len(src) + 1 /\ Len(src) \in Nat
    BY <2>1, Sent
  <2>3. CASE HasRoom(src)
    <3>1. src' = Append(src, emitted') /\ newest' = emitted'
      BY <1>2, <2>3 DEF Emit
    <3>2. src' \in Seq(Events) /\ Len(src') <= Depth /\ newest' \in Events
      BY <1>0, <2>1, <2>2, <2>3, <3>1
    <3> QED BY <1>2, <2>1, <3>2 DEF Emit, Subscribed
  <2>4. CASE ~HasRoom(src)
    BY <1>2, <2>1, <2>4 DEF Emit, Subscribed
  <2> QED BY <2>3, <2>4
<1>3. CASE CloseSource
  BY <1>3 DEF CloseSource, Subscribed
<1>4. CASE Receive
  <2>1. Head(src) \in Events /\ Tail(src) \in Seq(Events) /\ Len(Tail(src)) = Len(src) - 1 /\ Len(src) \in Nat
    BY <1>4, Received DEF Receive
  <2> QED BY <1>0, <1>4, <2>1 DEF Receive
<1>5. CASE CloseOut
  BY <1>5 DEF CloseOut
<1>6. CASE Pass
  <2>1. hand \in Events
    BY <1>6 DEF Pass
  <2>2. Append(out, hand) \in Seq(Events) /\ Len(Append(out, hand)) = Len(out) + 1 /\ Len(out) \in Nat
    BY <2>1, Sent
  <2> QED BY <1>0, <1>6, <2>2 DEF Pass
<1>7. CASE DropArriving
  BY <1>7 DEF DropArriving
<1>8. CASE FindsFull
  BY <1>8 DEF FindsFull
<1>9. CASE Drain
  <2>1. Drained(out) \in Seq(Events) /\ Len(Drained(out)) <= Len(out) /\ Len(Drained(out)) \in Nat /\ Len(out) \in Nat
    BY Received, EmptyChannel DEF Drained
  <2> QED BY <1>0, <1>9, <2>1 DEF Drain
<1>10. CASE Take
  <2>1. Head(out) \in Events /\ Tail(out) \in Seq(Events) /\ Len(Tail(out)) = Len(out) - 1 /\ Len(out) \in Nat
    BY <1>10, Received DEF Take
  <2>2. Append(got, Head(out)) \in Seq(Events)
    BY <2>1, Sent
  <2> QED BY <1>0, <1>10, <2>1, <2>2 DEF Take
<1>11. CASE SeeEnd
  BY <1>11 DEF SeeEnd
<1>13. CASE Stall
  BY <1>13 DEF Stall
<1>12. CASE UNCHANGED vars
  BY <1>12 DEF vars
<1> QED BY <1>1, <1>2, <1>3, <1>4, <1>5, <1>6, <1>7, <1>8, <1>9, <1>10, <1>11, <1>12, <1>13
        DEF Next, Service, Pump, Consumer

\* The last of what is joined is the last of its last part that is not empty.
LEMMA LastJoined ==
  ASSUME NEW s \in Seq(Events), NEW t \in Seq(Events)
  PROVE  /\ s \o t \in Seq(Events)
         /\ Len(t) > 0 => Len(s \o t) > 0 /\ (s \o t)[Len(s \o t)] = t[Len(t)]
         /\ Len(t) = 0 => s \o t = s
  OBVIOUS

\* NewestKept, part by part, from the back to the front.
LatestIn(g, o, h, s, n) ==
  IF s # <<>> THEN s[Len(s)] = n
  ELSE IF h # None THEN h = n
  ELSE IF o # <<>> THEN o[Len(o)] = n
  ELSE g # <<>> /\ g[Len(g)] = n

Latest == LatestIn(got, out, hand, src, newest)

LEMMA NewestIsLatest ==
  ASSUME NEW g \in Seq(Events), NEW o \in Seq(Events), NEW h \in Events \cup {None}, NEW s \in Seq(Events), NEW n
  PROVE  LET all == g \o o \o (IF h = None THEN <<>> ELSE <<h>>) \o s
         IN  LatestIn(g, o, h, s, n) <=> all # <<>> /\ all[Len(all)] = n
<1> DEFINE held == IF h = None THEN <<>> ELSE <<h>>
           taken == g \o o
           moved == taken \o held
           all == moved \o s
<1>1. /\ held \in Seq(Events)
      /\ h # None => Len(held) = 1 /\ held[1] = h
      /\ h = None => Len(held) = 0
  OBVIOUS
<1>2. /\ taken \in Seq(Events)
      /\ Len(o) > 0 => Len(taken) > 0 /\ taken[Len(taken)] = o[Len(o)]
      /\ Len(o) = 0 => taken = g
  BY LastJoined
<1> HIDE DEF held, taken
<1>3. /\ moved \in Seq(Events)
      /\ Len(held) > 0 => Len(moved) > 0 /\ moved[Len(moved)] = held[Len(held)]
      /\ Len(held) = 0 => moved = taken
  BY <1>1, <1>2, LastJoined
<1> HIDE DEF moved
<1>4. /\ all \in Seq(Events)
      /\ Len(s) > 0 => Len(all) > 0 /\ all[Len(all)] = s[Len(s)]
      /\ Len(s) = 0 => all = moved
  BY <1>3, LastJoined
<1> HIDE DEF all
<1>5. \A ch \in Seq(Events) : Len(ch) \in Nat /\ (Len(ch) = 0 <=> ch = <<>>)
  OBVIOUS
<1>6. LatestIn(g, o, h, s, n) <=> all # <<>> /\ all[Len(all)] = n
  <2>1. CASE s # <<>>
    BY <1>4, <1>5, <2>1 DEF LatestIn
  <2>2. CASE s = <<>> /\ h # None
    <3>1. Len(held) = 1 /\ held[Len(held)] = h
      BY <1>1, <2>2
    <3>2. all = moved
      BY <1>4, <1>5, <2>2
    <3>3. all # <<>> /\ all[Len(all)] = h
      BY <1>3, <1>5, <3>1, <3>2
    <3> QED BY <2>2, <3>3 DEF LatestIn
  <2>3. CASE s = <<>> /\ h = None /\ o # <<>>
    BY <1>1, <1>2, <1>3, <1>4, <1>5, <2>3 DEF LatestIn
  <2>4. CASE s = <<>> /\ h = None /\ o = <<>>
    BY <1>1, <1>2, <1>3, <1>4, <1>5, <2>4 DEF LatestIn
  <2> QED BY <2>1, <2>2, <2>3, <2>4
<1> QED BY <1>6 DEF all, moved, taken, held

\* Only DropNewest lets the arriving event go.
LEMMA NewestInv == ASSUME IInv, TypeOK', [Next]_vars PROVE NewestKept'
<1>1. SUFFICES ASSUME policy' = "DropOldest", newest' # None PROVE Latest'
  BY NewestIsLatest DEF NewestKept, Held, Latest, TypeOK
<1>2. policy' = policy
  BY DEF Next, Service, Pump, Consumer, SubscribeRefused, Subscribe, Emit, CloseSource, Receive, CloseOut, Pass,
         DropArriving, FindsFull, Drain, Take, SeeEnd, Stall, vars
<1>3. newest # None => Latest
  BY <1>1, <1>2, NewestIsLatest DEF IInv, NewestKept, Held, Latest, TypeOK
<1> USE DEF Goto, HasRoom, consumerVars, sourceVars
<1>4. CASE UNCHANGED <<src, hand, out, got, newest>>
  BY <1>1, <1>3, <1>4 DEF Latest, LatestIn
<1>5. CASE Emit
  <2>1. CASE HasRoom(src)
    <3>1. src' = Append(src, emitted') /\ newest' = emitted' /\ src \in Seq(Events) /\ emitted' \in Events
      BY <1>1, <1>5, <2>1 DEF Emit, IInv, TypeOK
    <3>2. src' # <<>> /\ src'[Len(src')] = newest'
      BY <3>1, Sent, EmptyChannel
    <3> QED BY <3>2 DEF Latest, LatestIn
  <2>2. CASE ~HasRoom(src)
    BY <1>4, <1>5, <2>2 DEF Emit
  <2> QED BY <2>1, <2>2
<1>6. CASE Receive
  <2>1. /\ src # <<>> /\ hand' = Head(src) /\ src' = Tail(src) /\ newest' = newest
        /\ src \in Seq(Events) /\ None \notin Events
    BY <1>6, PumpAssumption DEF Receive, IInv, TypeOK
  <2>2. src[Len(src)] = newest'
    BY <1>1, <1>3, <2>1 DEF Latest, LatestIn
  <2>3. CASE src' # <<>>
    BY <2>1, <2>2, <2>3, Received, EmptyChannel DEF Latest, LatestIn
  <2>4. CASE src' = <<>>
    <3>1. Len(src) = 1 /\ hand' \in Events /\ hand' = src[1]
      <4>1. Len(src') = 0
        BY <2>4
      <4>2. Len(src') = Len(src) - 1 /\ Len(src) \in Nat /\ Head(src) \in Events /\ Head(src) = src[1]
        BY <2>1, Received
      <4> QED BY <2>1, <4>1, <4>2
    <3> QED BY <2>1, <2>2, <2>4, <3>1 DEF Latest, LatestIn
  <2> QED BY <2>3, <2>4
<1>7. CASE Pass
  <2>1. /\ hand # None /\ hand \in Events /\ out \in Seq(Events)
        /\ out' = Append(out, hand) /\ hand' = None /\ src' = src /\ newest' = newest
    BY <1>7 DEF Pass, IInv, TypeOK
  <2>2. out' # <<>> /\ out'[Len(out')] = hand
    BY <2>1, Sent, EmptyChannel
  <2> QED BY <1>1, <1>3, <2>1, <2>2 DEF Latest, LatestIn
<1>8. CASE DropArriving
  BY <1>1, <1>2, <1>8 DEF DropArriving, DropsArriving
<1>9. CASE Drain
  <2>1. hand # None /\ hand' = hand /\ src' = src /\ newest' = newest
    BY <1>9 DEF Drain, IInv, TypeOK
  <2> QED BY <1>1, <1>3, <2>1 DEF Latest, LatestIn
<1>10. CASE Take
  <2>1. /\ out # <<>> /\ got' = Append(got, Head(out)) /\ out' = Tail(out)
        /\ src' = src /\ hand' = hand /\ newest' = newest
        /\ got \in Seq(Events) /\ out \in Seq(Events)
    BY <1>10 DEF Take, IInv, TypeOK
  <2>2. Head(out) \in Events /\ got' # <<>> /\ got'[Len(got')] = out[1]
    BY <2>1, Sent, Received, EmptyChannel
  <2>3. CASE out' # <<>>
    <3>1. out'[Len(out')] = out[Len(out)]
      BY <2>1, <2>3, Received, EmptyChannel
    <3> QED BY <1>1, <1>3, <2>1, <2>3, <3>1 DEF Latest, LatestIn
  <2>4. CASE out' = <<>>
    <3>1. out[1] = out[Len(out)]
      BY <2>1, <2>4, Received, EmptyChannel
    <3> QED BY <1>1, <1>3, <2>1, <2>2, <2>4, <3>1 DEF Latest, LatestIn
  <2> QED BY <2>3, <2>4
<1>11. CASE SubscribeRefused \/ Subscribe \/ CloseSource \/ CloseOut \/ FindsFull \/ SeeEnd \/ Stall \/ UNCHANGED vars
  BY <1>4, <1>11 DEF SubscribeRefused, Subscribe, CloseSource, CloseOut, FindsFull, SeeEnd, Stall, vars
<1> QED BY <1>5, <1>6, <1>7, <1>8, <1>9, <1>10, <1>11 DEF Next, Service, Pump, Consumer

\* The inductive invariant: what the channels, the goroutine and the consumer
\* hold fits together (Subscribe).
THEOREM Inductive == Spec => []IInv
<1>1. IInv /\ [Next]_vars => IInv'
  BY TypeInv, NewestInv DEF IInv
<1> QED BY <1>1, IInvInit, PTL DEF Spec

\* Under DropOldest the newest event reaches the consumer, however the goroutine
\* and the consumer race for the channel (the case relay.DropOldest).
THEOREM NewestKeptHolds == Spec => []NewestKept
  BY Inductive, PTL DEF IInv

\* The stream that two channels and the event between them make up.
Buf(o, h, s) == o \o (IF h = None THEN <<>> ELSE <<h>>) \o s

\* How sequences come apart and together.
LEMMA AppendJoined ==
  ASSUME NEW s \in Seq(Events), NEW t \in Seq(Events), NEW e \in Events
  PROVE  s \o Append(t, e) = Append(s \o t, e)
  OBVIOUS

LEMMA HeadJoined ==
  ASSUME NEW s \in Seq(Events), s # <<>> PROVE <<Head(s)>> \o Tail(s) = s
  OBVIOUS

LEMMA OneJoined ==
  ASSUME NEW s \in Seq(Events), NEW e \in Events PROVE s \o <<e>> = Append(s, e) /\ <<e>> \in Seq(Events)
  OBVIOUS

LEMMA TailJoined ==
  ASSUME NEW s \in Seq(Events), s # <<>>, NEW t \in Seq(Events)
  PROVE  s \o t # <<>> /\ Head(s \o t) = Head(s) /\ Tail(s \o t) = Tail(s) \o t
  OBVIOUS

LEMMA NoneJoined == ASSUME NEW s \in Seq(Events) PROVE s \o <<>> = s
  OBVIOUS

LEMMA WithoutByPosition ==
  ASSUME NEW s \in Seq(Events), NEW i \in 1..Len(s)
  PROVE  /\ Stream!Without(s, i) \in Seq(Events) /\ Len(Stream!Without(s, i)) = Len(s) - 1
         /\ \A j \in 1..Len(s) - 1 : Stream!Without(s, i)[j] = IF j < i THEN s[j] ELSE s[j + 1]
<1> DEFINE w == [j \in 1..Len(s) - 1 |-> IF j < i THEN s[j] ELSE s[j + 1]]
<1>1. Len(s) \in Nat \ {0} /\ Len(s) - 1 \in Nat
  OBVIOUS
<1>2. \A j \in 1..Len(s) - 1 : (IF j < i THEN s[j] ELSE s[j + 1]) \in Events
  BY <1>1
<1>3. w \in [1..Len(s) - 1 -> Events]
  BY <1>2
<1>4. w \in Seq(Events)
  BY <1>1, <1>3
<1>5. Len(w) = Len(s) - 1
  BY <1>1, <1>4
<1> QED BY <1>4, <1>5 DEF Stream!Without

LEMMA FirstLost == ASSUME NEW s \in Seq(Events), s # <<>> PROVE Stream!Without(s, 1) = Tail(s)
<1> DEFINE w == Stream!Without(s, 1)
<1>1. 1 \in 1..Len(s)
  OBVIOUS
<1>2. w \in Seq(Events) /\ Len(w) = Len(s) - 1 /\ \A j \in 1..Len(s) - 1 : w[j] = IF j < 1 THEN s[j] ELSE s[j + 1]
  BY <1>1, WithoutByPosition
<1> HIDE DEF w
<1>3. w = Tail(s)
  BY <1>2
<1> QED BY <1>3 DEF w

LEMMA MiddleLost ==
  ASSUME NEW s \in Seq(Events), NEW e \in Events, NEW t \in Seq(Events)
  PROVE  Stream!Without(s \o <<e>> \o t, Len(s) + 1) = s \o t
<1> DEFINE a == s \o <<e>> \o t
           w == Stream!Without(a, Len(s) + 1)
<1>1. s \o <<e>> \in Seq(Events) /\ Len(s \o <<e>>) = Len(s) + 1
  OBVIOUS
<1>2. \A j \in 1..Len(s) : (s \o <<e>>)[j] = s[j]
  OBVIOUS
<1>3. a \in Seq(Events) /\ Len(a) = Len(s) + 1 + Len(t)
  BY <1>1
<1>4. \A j \in 1..Len(a) : a[j] = IF j <= Len(s) + 1 THEN (s \o <<e>>)[j] ELSE t[j - (Len(s) + 1)]
  BY <1>1
<1> HIDE DEF a
<1>5. Len(s) + 1 \in 1..Len(a)
  BY <1>3
<1>6. w \in Seq(Events) /\ Len(w) = Len(a) - 1 /\ \A j \in 1..Len(a) - 1 : w[j] = IF j < Len(s) + 1 THEN a[j] ELSE a[j + 1]
  BY <1>3, <1>5, WithoutByPosition
<1> HIDE DEF w
<1>7. ASSUME NEW j \in 1..Len(s) + Len(t) PROVE w[j] = IF j <= Len(s) THEN s[j] ELSE t[j - Len(s)]
  <2>1. Len(s) \in Nat /\ Len(t) \in Nat /\ j \in Nat
    OBVIOUS
  <2>2. CASE j <= Len(s)
    <3>1. j \in 1..Len(s) /\ j \in 1..Len(a) /\ j \in 1..Len(a) - 1
      BY <1>3, <2>1, <2>2
    <3>2. w[j] = a[j] /\ a[j] = (s \o <<e>>)[j] /\ (s \o <<e>>)[j] = s[j]
      BY <1>2, <1>4, <1>6, <2>1, <2>2, <3>1
    <3> QED BY <2>2, <3>2
  <2>3. CASE j > Len(s)
    <3>1. j + 1 \in 1..Len(a) /\ j \in 1..Len(a) - 1
      BY <1>3, <2>1, <2>3
    <3>2. w[j] = a[j + 1]
      BY <1>6, <2>1, <2>3, <3>1
    <3>3. a[j + 1] = t[(j + 1) - (Len(s) + 1)]
      BY <1>4, <2>1, <2>3, <3>1
    <3>4. (j + 1) - (Len(s) + 1) = j - Len(s) /\ ~(j <= Len(s))
      BY <2>1, <2>3
    <3> QED BY <3>2, <3>3, <3>4
  <2> QED BY <2>1, <2>2, <2>3
<1>8. w = s \o t
  <2>1. s \o t \in Seq(Events) /\ Len(s \o t) = Len(s) + Len(t) /\ Len(s) \in Nat /\ Len(t) \in Nat
    OBVIOUS
  <2>2. \A j \in 1..Len(s) + Len(t) : (s \o t)[j] = IF j <= Len(s) THEN s[j] ELSE t[j - Len(s)]
    OBVIOUS
  <2>3. Len(w) = Len(s) + Len(t) /\ w \in Seq(Events)
    BY <1>3, <1>6, <2>1
  <2>4. \A j \in 1..Len(w) : w[j] = (s \o t)[j]
    BY <1>7, <2>2, <2>3
  <2> QED BY <2>1, <2>3, <2>4, SeqEqual
<1> QED BY <1>8 DEF w, a

LEMMA StreamInit == Init => Stream!Init
  BY NoneJoined, EmptyChannel DEF Init, Stream!Init, Held

\* Each step adds an event at the back of the stream, takes one from the front,
\* loses one, or only moves one along.
LEMMA StreamStep == ASSUME IInv, IInv', [Next]_vars PROVE [Stream!Next]_(Stream!vars)
<1> DEFINE buf == out \o Held \o src
<1>a. /\ src \in Seq(Events) /\ out \in Seq(Events) /\ got \in Seq(Events) /\ Held \in Seq(Events)
      /\ out' \in Seq(Events) /\ src' \in Seq(Events) /\ Held' \in Seq(Events)
      /\ hand = None => Held = <<>>
      /\ hand # None => Held = <<hand>> /\ hand \in Events
      /\ hand' = None => Held' = <<>>
      /\ hand' # None => Held' = <<hand'>>
      /\ hand # None <=> pc \in {"offer", "drain"}
  BY DEF IInv, TypeOK, Held
<1>b. out \o Held \in Seq(Events) /\ buf \in Seq(Events)
  BY <1>a
<1>c. ASSUME UNCHANGED <<policy, got, ended>>, buf' = buf PROVE UNCHANGED Stream!vars
  BY <1>c DEF Stream!vars
<1>d. ASSUME out # <<>>
      PROVE  /\ buf # <<>> /\ Head(buf) = Head(out)
             /\ Tail(buf) = Tail(out) \o Held \o src
  <2>1. out \o Held # <<>> /\ Head(out \o Held) = Head(out) /\ Tail(out \o Held) = Tail(out) \o Held
    BY <1>a, <1>d, TailJoined
  <2>2. /\ (out \o Held) \o src # <<>> /\ Head((out \o Held) \o src) = Head(out \o Held)
        /\ Tail((out \o Held) \o src) = Tail(out \o Held) \o src
    BY <1>a, <1>b, <2>1, TailJoined
  <2> QED BY <2>1, <2>2
<1> USE DEF Goto, consumerVars, sourceVars
<1>1. CASE UNCHANGED <<policy, out, hand, src, got, ended>>
  BY <1>1, <1>c DEF Held
<1>2. CASE Emit
  <2>1. CASE HasRoom(src)
    <3>1. src' = Append(src, emitted') /\ UNCHANGED <<policy, out, hand, got, ended>> /\ emitted' \in Events
      BY <1>2, <2>1 DEF Emit, IInv, TypeOK, Events
    <3>2. ~ended
      BY <1>2 DEF Emit, IInv, EndsEmpty
    <3>3. Held' = Held
      BY <3>1 DEF Held
    <3>4. buf' = Append(buf, emitted')
      <4>1. src \in Seq(Events) /\ out \o Held \in Seq(Events) /\ emitted' \in Events
        BY <1>a, <1>b, <3>1
      <4>2. (out \o Held) \o Append(src, emitted') = Append((out \o Held) \o src, emitted')
        BY <4>1, AppendJoined
      <4> QED BY <3>1, <3>3, <4>2
    <3>5. Stream!Put(emitted')
      BY <3>1, <3>2, <3>4 DEF Stream!Put
    <3> QED BY <3>1, <3>5 DEF Stream!Next
  <2>2. CASE ~HasRoom(src)
    BY <1>1, <1>2, <2>2 DEF Emit
  <2> QED BY <2>1, <2>2
<1>3. CASE Receive
  <2>1. /\ hand = None /\ src # <<>> /\ hand' = Head(src) /\ src' = Tail(src)
        /\ UNCHANGED <<policy, out, got, ended>>
    BY <1>3, <1>a DEF Receive
  <2>2. Head(src) \in Events /\ Head(src) # None
    BY <1>a, <2>1, Received, PumpAssumption
  <2>3. buf = out \o src
    BY <1>a, <2>1, NoneJoined
  <2>4. buf' = (out \o <<Head(src)>>) \o Tail(src)
    BY <1>a, <2>1, <2>2
  <2>5. (out \o <<Head(src)>>) \o Tail(src) = out \o (<<Head(src)>> \o Tail(src))
    <3>1. out \in Seq(Events) /\ <<Head(src)>> \in Seq(Events) /\ Tail(src) \in Seq(Events)
      BY <1>a, <2>1, <2>2, Received, OneJoined
    <3> QED BY <3>1, ConcatAssociative
  <2>6. <<Head(src)>> \o Tail(src) = src
    BY <1>a, <2>1, HeadJoined
  <2> QED BY <1>c, <2>1, <2>3, <2>4, <2>5, <2>6
<1>4. CASE Pass
  <2>1. /\ hand # None /\ out' = Append(out, hand) /\ hand' = None
        /\ UNCHANGED <<policy, src, got, ended>>
    BY <1>4, <1>a DEF Pass
  <2>2. out' = out \o <<hand>> /\ out' \o <<>> = out'
    BY <1>a, <2>1, OneJoined, NoneJoined
  <2>3. buf' = buf
    BY <1>a, <2>1, <2>2
  <2> QED BY <1>c, <2>1, <2>3
<1>5. CASE DropArriving
  <2>1. /\ hand # None /\ hand' = None /\ policy # "Block"
        /\ UNCHANGED <<policy, out, src, got, ended>>
    BY <1>5, <1>a DEF DropArriving, DropsArriving
  <2>2. buf = out \o <<hand>> \o src /\ buf' = out \o src
    BY <1>a, <2>1, NoneJoined
  <2>3. buf' = Stream!Without(buf, Len(out) + 1)
    <3>1. Stream!Without(out \o <<hand>> \o src, Len(out) + 1) = out \o src
      BY <1>a, <2>1, MiddleLost
    <3> QED BY <2>2, <3>1
  <2>4. Len(out) + 1 \in 1..Len(buf)
    BY <1>a, <2>1, <2>2
  <2>5. Stream!Lose(Len(out) + 1)
    BY <2>1, <2>3 DEF Stream!Lose
  <2> QED BY <2>4, <2>5 DEF Stream!Next
<1>6. CASE Drain
  <2>1. out' = Drained(out) /\ policy = "DropOldest" /\ UNCHANGED <<policy, hand, src, got, ended>>
    BY <1>6 DEF Drain, IInv, TypeOK
  <2>2. CASE out = <<>>
    BY <1>1, <2>1, <2>2 DEF Drained
  <2>3. CASE out # <<>>
    <3>1. out' = Tail(out) /\ Held' = Held
      BY <2>1, <2>3 DEF Drained, Held
    <3>2. buf # <<>> /\ Tail(buf) = buf'
      BY <1>d, <2>3, <2>1, <3>1
    <3>3. buf' = Stream!Without(buf, 1)
      BY <1>b, <3>2, FirstLost
    <3>4. 1 \in 1..Len(buf)
      BY <1>b, <3>2
    <3>5. Stream!Lose(1)
      BY <2>1, <3>3 DEF Stream!Lose
    <3> QED BY <3>4, <3>5 DEF Stream!Next
  <2> QED BY <2>2, <2>3
<1>7. CASE Take
  <2>1. /\ out # <<>> /\ got' = Append(got, Head(out)) /\ out' = Tail(out)
        /\ UNCHANGED <<policy, hand, src, ended>>
    BY <1>7 DEF Take
  <2>2. Held' = Held
    BY <2>1 DEF Held
  <2>3. buf # <<>> /\ Head(buf) = Head(out) /\ Tail(buf) = buf'
    BY <1>d, <2>1, <2>2
  <2>5. Stream!Take
    BY <2>1, <2>3 DEF Stream!Take
  <2> QED BY <2>5 DEF Stream!Next
<1>8. CASE SeeEnd
  <2>1. hand = None /\ out = <<>> /\ src = <<>> /\ ended' = TRUE /\ UNCHANGED <<policy, out, hand, src, got>>
    BY <1>8, <1>a DEF SeeEnd, IInv, EndsEmpty
  <2>2. buf = <<>> /\ buf' = buf
    BY <1>a, <2>1, NoneJoined, EmptyChannel DEF Held
  <2>3. Stream!End
    BY <2>1, <2>2 DEF Stream!End
  <2> QED BY <2>3 DEF Stream!Next
<1>9. CASE SubscribeRefused \/ Subscribe \/ CloseSource \/ CloseOut \/ FindsFull \/ Stall \/ UNCHANGED vars
  BY <1>1, <1>9 DEF SubscribeRefused, Subscribe, CloseSource, CloseOut, FindsFull, Stall, vars
<1> QED BY <1>2, <1>3, <1>4, <1>5, <1>6, <1>7, <1>8, <1>9 DEF Next, Service, Pump, Consumer

\* The goroutine and its two channels implement the promise of Subscribe.
THEOREM KeepsStreamHolds == Spec => KeepsStream
<1>1. IInv /\ IInv' /\ [Next]_vars => [Stream!Next]_(Stream!vars)
  BY StreamStep
<1> QED BY <1>1, Inductive, StreamInit, PTL DEF Spec, KeepsStream, Stream!Spec

=============================================================================
