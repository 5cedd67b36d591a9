------------------------- MODULE TpReassemblyProofs -------------------------
(***************************************************************************)
(* Theorems about TpReassembly, for any messages of any length, any        *)
(* Timeout, any loss, order and repetition of segments and any number of   *)
(* Close calls.                                                            *)
(***************************************************************************)
EXTENDS TpReassembly, FiniteSetTheorems, TLAPS

Emission == [key : Keys, payload : UNION {[0..n - 1 -> Messages \cup {Gap}] : n \in Nat},
             at : Nat, opened : Nat]

\* The offsets at which a window has a chunk.
Filled(w) == {o \in Offsets : w.chunks[o] # Gap}

\* received counts the chunks, a total is the length of some message, and the
\* deadline stays where the window's first segment put it.
Sound(w) == /\ IsFiniteSet(Filled(w)) /\ w.received = Cardinality(Filled(w))
            /\ w.total \in {0} \cup {Size[m] : m \in Messages}
            /\ w \in Window => w.expires = w.opened + Timeout

\* While a key's last timeout is recent its tombstone stands, and a window opened
\* after the timeout was opened late enough.
LateInv ==
    \A k \in Keys : timedOut[k] # -1 =>
        /\ tombstones[k] = timedOut[k] + 2 * Timeout \/ clock > timedOut[k] + 2 * Timeout
        /\ Open(k) => clock >= timedOut[k] + 2 * Timeout

IInv ==
    /\ TypeOK /\ emitted \in Seq(Emission)
    /\ \A k \in Keys : Sound(windows[k])
    /\ LateInv /\ JoinedInTime

-----------------------------------------------------------------------------
LEMMA SegmentFacts ==
  ASSUME NEW seg \in Segments
  PROVE  /\ seg.of \in Messages /\ seg.off \in 0..Size[seg.of] - 1 /\ seg.off \in Offsets
         /\ seg.more = (seg.off < Size[seg.of] - 1) /\ Key(seg) \in Keys
<1>1. PICK m \in Messages : seg \in SegmentsOf(m)
  BY DEF Segments
<1>2. PICK i \in 0..Size[m] - 1 : seg = [of |-> m, off |-> i, more |-> i < Size[m] - 1]
  BY <1>1 DEF SegmentsOf
<1> QED BY <1>2 DEF Offsets, Key, Keys

\* Every offset of a message is in the domain of a window's chunks.
LEMMA OffsetsOf == ASSUME NEW m \in Messages, NEW o \in 0..Size[m] - 1 PROVE o \in Offsets
<1>1. [of |-> m, off |-> o, more |-> o < Size[m] - 1] \in Segments
  BY DEF Segments, SegmentsOf
<1> QED BY <1>1 DEF Offsets

\* A window is told from no window by its deadline; neither holds a chunk at first.
LEMMA FreshFacts ==
  ASSUME clock \in Nat
  PROVE  /\ NoWindow \notin Window /\ Sound(NoWindow)
         /\ Fresh \in Window /\ Sound(Fresh) /\ Fresh.opened = clock
<1>1. Filled(NoWindow) = {} /\ Filled(Fresh) = {}
  BY DEF Filled, NoWindow, Fresh
<1>2. NoWindow = [chunks |-> [o \in Offsets |-> Gap], received |-> 0, total |-> 0,
                  expires |-> -1, opened |-> -1]
  BY DEF NoWindow
<1>3. NoWindow \notin Window
  BY <1>2 DEF Window
<1> DEFINE empty == [o \in Offsets |-> Gap]
<1>4. /\ Fresh.chunks = empty /\ Fresh.received = 0 /\ Fresh.total = 0
      /\ Fresh.expires = clock + Timeout /\ Fresh.opened = clock
      /\ Fresh = [chunks |-> Fresh.chunks, received |-> Fresh.received, total |-> Fresh.total,
                  expires |-> Fresh.expires, opened |-> Fresh.opened]
  <2> HIDE DEF empty
  <2>1. NoWindow = [chunks |-> empty, received |-> 0, total |-> 0, expires |-> -1, opened |-> -1]
    BY <1>2 DEF empty
  <2> DEFINE dated == [NoWindow EXCEPT !.expires = clock + Timeout]
  <2>2. dated = [chunks |-> empty, received |-> 0, total |-> 0,
                 expires |-> clock + Timeout, opened |-> -1]
    BY <2>1
  <2>3. Fresh = [dated EXCEPT !.opened = clock]
    BY DEF Fresh
  <2> HIDE DEF dated
  <2>4. Fresh = [chunks |-> empty, received |-> 0, total |-> 0,
                 expires |-> clock + Timeout, opened |-> clock]
    BY <2>2, <2>3
  <2> QED BY <2>4
<1>5. Sound(NoWindow) /\ Sound(Fresh)
  BY <1>1, <1>3, <1>4, FS_EmptySet DEF Sound, NoWindow
<1>6. Fresh \in Window
  BY <1>4, TimeAssumption DEF Window
<1> QED BY <1>3, <1>4, <1>5, <1>6

\* Storing a chunk keeps a window sound and fills the chunk's offset.
LEMMA StoredFacts ==
  ASSUME NEW w \in Window, Sound(w), NEW seg \in Segments
  PROVE  /\ Stored(w, seg) \in Window /\ Sound(Stored(w, seg))
         /\ Filled(Stored(w, seg)) = Filled(w) \cup {seg.off}
         /\ Stored(w, seg).expires = w.expires /\ Stored(w, seg).opened = w.opened
<1> DEFINE chunks == [w.chunks EXCEPT ![seg.off] = IF @ = Gap THEN seg.of ELSE @]
           v == [chunks |-> chunks, received |-> Count(w, seg),
                 total |-> IF seg.more THEN w.total ELSE seg.off + 1,
                 expires |-> w.expires, opened |-> w.opened]
<1>1. Stored(w, seg) = v
  BY DEF Stored
<1>2. chunks \in [Offsets -> Messages \cup {Gap}]
  BY SegmentFacts DEF Window
<1>3. v \in Window
  BY <1>2, SegmentFacts, MessageAssumption DEF Window, Count
<1>4. Filled(v) = Filled(w) \cup {seg.off}
  BY SegmentFacts, MessageAssumption DEF Filled, Window
<1>5. IsFiniteSet(Filled(v)) /\ v.received = Cardinality(Filled(v))
  <2>1. seg.off \in Filled(w) <=> w.chunks[seg.off] # Gap
    BY SegmentFacts DEF Filled
  <2>2. /\ IsFiniteSet(Filled(w) \cup {seg.off})
        /\ Cardinality(Filled(w) \cup {seg.off}) = IF seg.off \in Filled(w) THEN Cardinality(Filled(w))
                                                   ELSE Cardinality(Filled(w)) + 1
    BY FS_AddElement DEF Sound
  <2> QED BY <1>4, <2>1, <2>2 DEF Sound, Count
<1>6. v.total \in {0} \cup {Size[m] : m \in Messages}
  <2>1. CASE seg.more
    BY <2>1 DEF Sound
  <2>2. CASE ~seg.more
    <3>1. seg.of \in Messages /\ seg.off \in 0..Size[seg.of] - 1
      BY SegmentFacts
    <3>2. ~ (seg.off < Size[seg.of] - 1)
      BY <2>2, SegmentFacts, Zenon
    <3>3. seg.off + 1 = Size[seg.of]
      BY <3>1, <3>2, MessageAssumption
    <3> QED BY <2>2, <3>1, <3>3
  <2> QED BY <2>1, <2>2, SegmentFacts
<1>7. v.expires = w.expires /\ v.opened = w.opened /\ w.expires = w.opened + Timeout
  BY DEF Sound
<1> HIDE DEF v
<1> QED BY <1>1, <1>3, <1>4, <1>5, <1>6, <1>7 DEF Sound

-----------------------------------------------------------------------------
LEMMA IInvInit == Init => IInv
<1> SUFFICES ASSUME Init PROVE IInv
  OBVIOUS
<1>1. clock \in Nat /\ \A k \in Keys : windows[k] = NoWindow
  BY DEF Init
<1>2. \A k \in Keys : Sound(windows[k])
  BY <1>1, FreshFacts
<1>3. TypeOK
  <2>1. \A k \in Keys : windows[k].received = Cardinality({o \in Offsets : windows[k].chunks[o] # Gap})
    BY <1>2 DEF Sound, Filled
  <2>2. windows \in [Keys -> Window \cup {NoWindow}]
    BY DEF Init
  <2>3. gcNow \in 0..clock
    BY DEF Init
  <2> QED BY <2>1, <2>2, <2>3 DEF Init, TypeOK
<1> QED BY <1>2, <1>3 DEF Init, IInv, LateInv, JoinedInTime

\* The sweep reads the clock before it takes the lock: gcNow is never ahead of it.
LEMMA SweepKept == ASSUME IInv, GcSweep PROVE IInv'
<1> USE TimeAssumption DEF GcSweep
<1>1. clock \in Nat /\ gcNow \in 0..clock
  BY DEF IInv, TypeOK
<1>2. \A k \in Keys : windows'[k] \in {windows[k], NoWindow}
  OBVIOUS
<1>3. \A k \in Keys : Sound(windows'[k])
  BY <1>1, <1>2, FreshFacts DEF IInv
<1>4. /\ windows' \in [Keys -> Window \cup {NoWindow}]
      /\ tombstones' \in [Keys -> Nat \cup {-1}] /\ timedOut' \in [Keys -> Nat \cup {-1}]
  BY <1>1 DEF IInv, TypeOK, Tombstone
<1>5. TypeOK'
  BY <1>3, <1>4 DEF IInv, TypeOK, Sound, Filled, gcVars, closeVars
<1>6. LateInv'
  <2> SUFFICES ASSUME NEW k \in Keys, timedOut'[k] # -1
               PROVE  /\ tombstones'[k] = timedOut'[k] + 2 * Timeout \/ clock > timedOut'[k] + 2 * Timeout
                      /\ windows'[k] # NoWindow => clock >= timedOut'[k] + 2 * Timeout
    BY DEF LateInv, Open
  <2>1. CASE TooOld(k, gcNow)
    BY <2>1 DEF Tombstone
  <2>2. CASE ~TooOld(k, gcNow)
    <3>1. timedOut'[k] = timedOut[k] /\ windows'[k] = windows[k]
      BY <2>2
    <3>2. timedOut[k] \in Nat /\ tombstones[k] \in Nat \cup {-1}
      BY <3>1 DEF IInv, TypeOK
    <3>3. tombstones'[k] = tombstones[k] \/ gcNow > tombstones[k]
      BY <2>2
    <3> QED BY <1>1, <3>1, <3>2, <3>3 DEF IInv, LateInv, Open
  <2> QED BY <2>1, <2>2
<1> QED BY <1>3, <1>5, <1>6 DEF IInv, JoinedInTime

\* The window that Add makes of a segment: stored in time, or complete.
LEMMA StoredKept == ASSUME IInv, NEW seg \in Segments, AddStored(seg) PROVE IInv'
<1> USE TimeAssumption
<1> DEFINE k == Key(seg)
           old == IF Open(k) THEN windows[k] ELSE Fresh
           w == Stored(old, seg)
<1>1. clock \in Nat /\ k \in Keys
  BY SegmentFacts DEF IInv, TypeOK
<1>2. old \in Window /\ Sound(old) /\ clock <= old.expires
  <2>1. CASE Open(k)
    BY <1>1, <2>1 DEF AddStored, Open, Expired, IInv, TypeOK, Window
  <2>2. CASE ~Open(k)
    <3>1. Fresh.expires = clock + Timeout
      BY DEF Fresh, NoWindow
    <3> QED BY <1>1, <2>2, <3>1, FreshFacts
  <2> QED BY <2>1, <2>2
<1>3. w \in Window /\ Sound(w) /\ w.expires = old.expires /\ w.expires = w.opened + Timeout
  <2>1. w \in Window /\ Sound(w) /\ w.expires = old.expires
    BY <1>2, StoredFacts
  <2> QED BY <2>1 DEF Sound
<1> HIDE DEF old
<1>4. windows'[k] \in {w, NoWindow} /\ windows' = [windows EXCEPT ![k] = windows'[k]]
  <2>1. windows' = [windows EXCEPT ![k] = w] \/ windows' = [windows EXCEPT ![k] = NoWindow]
    BY DEF AddStored, old
  <2> QED BY <1>1, <2>1 DEF IInv, TypeOK
<1>5. UNCHANGED <<clock, tombstones, timedOut, gcVars, closeVars>> /\ inflight' \subseteq inflight
  BY DEF AddStored, Arrives
<1>6. \A j \in Keys : Sound(windows'[j])
  BY <1>1, <1>3, <1>4, FreshFacts DEF IInv, TypeOK
<1>7. TypeOK'
  <2>1. windows' \in [Keys -> Window \cup {NoWindow}]
    BY <1>1, <1>3, <1>4 DEF IInv, TypeOK
  <2> QED BY <1>5, <1>6, <2>1 DEF IInv, TypeOK, Sound, Filled, gcVars, closeVars
<1>8. LateInv'
  <2>1. ASSUME timedOut[k] # -1 PROVE clock >= timedOut[k] + 2 * Timeout
    BY <1>1, <2>1 DEF AddStored, Entombed, IInv, TypeOK, LateInv
  <2>2. ASSUME NEW j \in Keys, j # k PROVE windows'[j] = windows[j]
    BY <1>4, <2>2 DEF IInv, TypeOK
  <2> QED BY <1>1, <1>5, <2>1, <2>2 DEF IInv, LateInv, Open
<1>9. emitted' \in Seq(Emission) /\ JoinedInTime'
  <2> DEFINE e == [key |-> k, payload |-> Payload(w), at |-> clock, opened |-> w.opened]
  <2>1. CASE Complete(w)
    <3>1. emitted' = Append(emitted, e)
      BY <2>1 DEF AddStored, old
    <3>2. PICK m \in Messages : w.total = Size[m]
      BY <1>3, <2>1 DEF Complete, Sound
    <3>3. Payload(w) \in [0..Size[m] - 1 -> Messages \cup {Gap}]
      BY <1>3, <3>2, OffsetsOf DEF Payload, Window
    <3>4. Size[m] \in Nat
      BY MessageAssumption
    <3>5. e \in Emission
      BY <1>1, <1>3, <3>3, <3>4 DEF Emission, Window
    <3>6. e.at <= e.opened + Timeout
      BY <1>1, <1>2, <1>3 DEF Window
    <3> HIDE DEF e
    <3> QED BY <3>1, <3>5, <3>6 DEF IInv, JoinedInTime
  <2>2. CASE ~Complete(w)
    BY <2>2 DEF AddStored, old, IInv, JoinedInTime
  <2> QED BY <2>1, <2>2
<1> QED BY <1>6, <1>7, <1>8, <1>9 DEF IInv

\* A refused segment changes nothing, an expired window leaves a tombstone.
LEMMA RefusedKept ==
  ASSUME IInv, NEW seg \in Segments, AddRefused(seg) \/ AddExpired(seg)
  PROVE  IInv'
<1>1. CASE AddRefused(seg)
  BY <1>1 DEF AddRefused, Arrives, IInv, TypeOK, Sound, Filled, LateInv, Open, JoinedInTime,
              gcVars, closeVars
<1>2. CASE AddExpired(seg)
  <2> DEFINE k == Key(seg)
  <2>1. clock \in Nat /\ k \in Keys
    BY SegmentFacts DEF IInv, TypeOK
  <2>2. /\ windows' = [windows EXCEPT ![k] = NoWindow] /\ timedOut' = [timedOut EXCEPT ![k] = clock]
        /\ tombstones' = [tombstones EXCEPT ![k] = clock + 2 * Timeout]
        /\ inflight' \subseteq inflight /\ UNCHANGED <<clock, emitted, gcVars, closeVars>>
    BY <1>2 DEF AddExpired, Arrives, Tombstone
  <2> HIDE DEF k
  <2>3. \A j \in Keys : Sound(windows'[j])
    BY <2>1, <2>2, FreshFacts DEF IInv, TypeOK
  <2>4. TypeOK'
    <3>1. windows' \in [Keys -> Window \cup {NoWindow}]
      BY <2>2 DEF IInv, TypeOK
    <3>2. tombstones' \in [Keys -> Nat \cup {-1}] /\ timedOut' \in [Keys -> Nat \cup {-1}]
      BY <2>1, <2>2, TimeAssumption DEF IInv, TypeOK
    <3> QED BY <2>2, <2>3, <3>1, <3>2 DEF IInv, TypeOK, Sound, Filled, gcVars, closeVars
  <2>5. LateInv'
    <3>1. ASSUME NEW j \in Keys, j # k
          PROVE  UNCHANGED <<windows[j], timedOut[j], tombstones[j]>>
      BY <2>2, <3>1 DEF IInv, TypeOK
    <3>2. windows'[k] = NoWindow /\ timedOut'[k] = clock /\ tombstones'[k] = clock + 2 * Timeout
      BY <2>1, <2>2 DEF IInv, TypeOK
    <3> QED BY <2>2, <3>1, <3>2 DEF IInv, LateInv, Open
  <2> QED BY <2>2, <2>3, <2>4, <2>5 DEF IInv, JoinedInTime
<1> QED BY <1>1, <1>2

\* Close forgets everything.
LEMMA DiscardKept == ASSUME IInv, NEW c \in Closes, CloseDiscard(c) PROVE IInv'
<1> USE DEF CloseDiscard
<1>1. \A k \in Keys : Sound(windows'[k])
  BY FreshFacts DEF IInv, TypeOK
<1>2. TypeOK'
  <2>1. windows' \in [Keys -> Window \cup {NoWindow}]
    OBVIOUS
  <2> QED BY <1>1, <2>1 DEF IInv, TypeOK, Sound, Filled, gcVars
<1> QED BY <1>1, <1>2 DEF IInv, LateInv, JoinedInTime

\* The other steps leave the maps and the messages alone, and time only grows.
LEMMA OthersKept ==
  ASSUME IInv,
         \/ TickerFires \/ GcTick \/ GcExit \/ Pass \/ UNCHANGED vars
         \/ \E c \in Closes : CloseStop(c) \/ CloseSignal(c)
  PROVE  IInv'
<1>1. /\ UNCHANGED <<inflight, windows, tombstones, emitted, timedOut>>
      /\ clock' \in {clock, clock + 1}
  BY DEF TickerFires, GcTick, GcExit, Pass, CloseStop, CloseSignal, vars
<1>2. clock \in Nat /\ clock' \in Nat /\ clock' >= clock
  BY <1>1 DEF IInv, TypeOK
<1>3. \A k \in Keys : Sound(windows'[k])
  BY <1>1 DEF IInv
<1>4. TypeOK'
  <2>1. ticked' \in BOOLEAN /\ gcPc' \in {"select", "sweep", "exited"} /\ gcNow' \in 0..clock'
    <3>1. CASE TickerFires \/ GcExit
      BY <1>2, <3>1 DEF IInv, TypeOK, TickerFires, GcExit
    <3>2. CASE GcTick
      <4>1. gcNow' = clock' /\ clock' \in Nat
        BY <1>2, <3>2 DEF GcTick
      <4>2. ticked' \in BOOLEAN /\ gcPc' = "sweep"
        BY <3>2, Zenon DEF GcTick
      <4> QED BY <4>1, <4>2
    <3>3. CASE UNCHANGED gcVars
      BY <1>2, <3>3 DEF IInv, TypeOK, gcVars
    <3> QED BY <3>1, <3>2, <3>3 DEF Pass, CloseStop, CloseSignal, vars
  <2>2. /\ closePc' \in [Closes -> {"open", "stopped", "signalled", "returned", "panicked"}]
        /\ panicked' \in BOOLEAN
    BY DEF IInv, TypeOK, TickerFires, GcTick, GcExit, Pass, CloseStop, CloseSignal, vars, closeVars
  <2> QED BY <1>1, <1>2, <2>1, <2>2 DEF IInv, TypeOK
<1>5. LateInv'
  <2>1. \A k \in Keys : timedOut[k] \in Nat \cup {-1}
    BY DEF IInv, TypeOK
  <2> QED BY <1>1, <1>2, <2>1, TimeAssumption DEF IInv, LateInv, Open
<1> QED BY <1>1, <1>3, <1>4, <1>5 DEF IInv, JoinedInTime

THEOREM Inductive == Spec => []IInv
<1>1. IInv /\ [Next]_vars => IInv'
  <2> SUFFICES ASSUME IInv, [Next]_vars PROVE IInv'
    OBVIOUS
  <2>1. ASSUME NEW seg \in inflight, Add(seg) PROVE IInv'
    <3>1. seg \in Segments
      BY DEF IInv, TypeOK
    <3> QED BY <2>1, <3>1, RefusedKept, StoredKept DEF Add
  <2>2. CASE TickerFires \/ GcTick \/ GcExit \/ Pass \/ UNCHANGED vars
    BY <2>2, OthersKept
  <2>3. CASE GcSweep
    BY <2>3, SweepKept
  <2>4. ASSUME NEW c \in Closes, CloseStep(c) PROVE IInv'
    BY <2>4, OthersKept, DiscardKept DEF CloseStep
  <2> QED BY <2>1, <2>2, <2>3, <2>4 DEF Next, GcStep
<1> QED BY <1>1, IInvInit, PTL DEF Spec

\* Every variable keeps its type, and a window's counter of received bytes is
\* what its chunks add up to.
THEOREM TypeOKHolds == Spec => []TypeOK
<1>1. IInv => TypeOK
  BY DEF IInv
<1> QED BY <1>1, Inductive, PTL

\* Segments further apart than the Timeout are never joined.
THEOREM JoinedInTimeHolds == Spec => []JoinedInTime
<1>1. IInv => JoinedInTime
  BY DEF IInv
<1> QED BY <1>1, Inductive, PTL

\* A timed-out key stays refused for twice the Timeout, whether Add or the
\* collector noticed (REQ-TP-011).
THEOREM LateSegmentsRefusedHolds == Spec => []LateSegmentsRefused
<1>1. IInv => LateSegmentsRefused
  BY TimeAssumption DEF IInv, TypeOK, LateInv, LateSegmentsRefused
<1> QED BY <1>1, Inductive, PTL

-----------------------------------------------------------------------------
\* With keys of their own, messages do not mix: a window holds chunks of the
\* message of its key alone.
Apart == \A m, n \in Messages : KeyOf[m] = KeyOf[n] => m = n

PureInv ==
    \A m \in Messages : Open(KeyOf[m]) =>
        LET w == windows[KeyOf[m]] IN
        /\ \A o \in Offsets : w.chunks[o] # Gap => w.chunks[o] = m /\ o \in 0..Size[m] - 1
        /\ w.total \in {0, Size[m]}

WInv == IInv /\ PureInv /\ WholeMessages

LEMMA StoredPure ==
  ASSUME Apart, WInv, NEW seg \in Segments, AddStored(seg)
  PROVE  PureInv' /\ WholeMessages'
<1> DEFINE k == Key(seg)
           old == IF Open(k) THEN windows[k] ELSE Fresh
           w == Stored(old, seg)
           m == seg.of
<1>1. m \in Messages /\ k = KeyOf[m] /\ k \in Keys /\ clock \in Nat
  BY SegmentFacts DEF Key, WInv, IInv, TypeOK
<1>2. old \in Window /\ Sound(old)
  BY <1>1, FreshFacts DEF WInv, IInv, TypeOK, Open
<1>3. w \in Window /\ Sound(w)
  BY <1>2, StoredFacts
<1>4. /\ \A o \in Offsets : old.chunks[o] # Gap => old.chunks[o] = m /\ o \in 0..Size[m] - 1
      /\ old.total \in {0, Size[m]}
  <2>1. CASE Open(k)
    BY <1>1, <2>1 DEF WInv, PureInv
  <2>2. CASE ~Open(k)
    BY <2>2 DEF Fresh, NoWindow
  <2> QED BY <2>1, <2>2
<1> HIDE DEF old
<1>5. \A o \in Offsets : w.chunks[o] # Gap => w.chunks[o] = m /\ o \in 0..Size[m] - 1
  BY <1>2, <1>4, SegmentFacts DEF Stored, Window
<1>6. w.total \in {0, Size[m]}
  <2>1. seg.off \in 0..Size[m] - 1 /\ Size[m] \in Nat
    BY <1>1, SegmentFacts, MessageAssumption
  <2>2. ~seg.more => ~ (seg.off < Size[m] - 1)
    BY SegmentFacts, Zenon
  <2>3. CASE seg.more
    BY <1>4, <2>3 DEF Stored
  <2>4. CASE ~seg.more
    BY <2>1, <2>2, <2>4 DEF Stored
  <2> QED BY <2>3, <2>4
<1> HIDE DEF w
<1>7. PureInv'
  <2> SUFFICES ASSUME NEW n \in Messages, windows'[KeyOf[n]] # NoWindow
               PROVE  LET v == windows'[KeyOf[n]] IN
                      /\ \A o \in Offsets : v.chunks[o] # Gap => v.chunks[o] = n /\ o \in 0..Size[n] - 1
                      /\ v.total \in {0, Size[n]}
    BY DEF PureInv, Open
  <2>1. KeyOf[n] \in Keys
    BY DEF Keys
  <2>2. windows' = [windows EXCEPT ![k] = w] \/ windows' = [windows EXCEPT ![k] = NoWindow]
    BY DEF AddStored, old, w
  <2>3. CASE n = m
    <3>1. windows'[KeyOf[n]] = w
      BY <1>1, <2>1, <2>2, <2>3 DEF WInv, IInv, TypeOK
    <3> QED BY <1>5, <1>6, <2>3, <3>1
  <2>4. CASE n # m
    <3>1. KeyOf[n] # k
      BY <1>1, <2>4 DEF Apart
    <3>2. windows'[KeyOf[n]] = windows[KeyOf[n]]
      BY <1>1, <2>1, <2>2, <3>1 DEF WInv, IInv, TypeOK
    <3> QED BY <3>2 DEF WInv, PureInv, Open
  <2> QED BY <2>3, <2>4
<1>8. WholeMessages'
  <2>1. CASE Complete(w)
    <3> DEFINE e == [key |-> k, payload |-> Payload(w), at |-> clock, opened |-> w.opened]
    <3>1. emitted' = Append(emitted, e)
      BY <2>1 DEF AddStored, old, w
    <3>2. w.total = Size[m] /\ w.received >= Size[m]
      BY <1>6, <2>1 DEF Complete
    <3>3. Filled(w) = 0..Size[m] - 1
      <4>1. Filled(w) \in SUBSET (0..Size[m] - 1) /\ Size[m] \in Nat \ {0}
        BY <1>1, <1>5, MessageAssumption DEF Filled
      <4>2. IsFiniteSet(0..Size[m] - 1) /\ Cardinality(0..Size[m] - 1) = Size[m]
        <5>1. Size[m] - 1 \in Int /\ 0 \in Int /\ ~ (0 > Size[m] - 1) /\ (Size[m] - 1) - 0 + 1 = Size[m]
          BY <4>1
        <5> QED BY <5>1, FS_Interval, Zenon
      <4>3. Cardinality(Filled(w)) >= Size[m]
        BY <1>3, <3>2 DEF Sound
      <4>4. Cardinality(Filled(w)) \in Nat
        BY <1>3, FS_CardinalityType DEF Sound
      <4>5. /\ Cardinality(Filled(w)) <= Cardinality(0..Size[m] - 1)
            /\ Cardinality(0..Size[m] - 1) = Cardinality(Filled(w)) => 0..Size[m] - 1 = Filled(w)
        BY <4>1, <4>2, FS_Subset
      <4> QED BY <4>1, <4>2, <4>3, <4>4, <4>5
    <3>4. Payload(w) = [o \in 0..Size[m] - 1 |-> m]
      BY <1>5, <3>2, <3>3 DEF Payload, Filled
    <3>5. Whole(Payload(w))
      BY <1>1, <3>4 DEF Whole
    <3>6. Whole(e.payload)
      BY <3>5
    <3> HIDE DEF e
    <3> QED BY <3>1, <3>6 DEF WInv, IInv, WholeMessages
  <2>2. CASE ~Complete(w)
    BY <2>2 DEF AddStored, old, w, WInv, WholeMessages
  <2> QED BY <2>1, <2>2
<1> QED BY <1>7, <1>8

\* Whatever order segments arrive in, however often, and whichever of them time
\* out, Add only returns messages that were sent, as long as no two messages
\* share a (ServiceID, MethodID, SessionID) (REQ-TP-010).
THEOREM WholeMessagesHolds == ASSUME Apart PROVE Spec => []WholeMessages
<1>1. Init => WInv
  BY IInvInit DEF Init, WInv, PureInv, WholeMessages, Open, Keys
<1>2. WInv /\ IInv' /\ [Next]_vars => WInv'
  <2> SUFFICES ASSUME WInv, IInv', [Next]_vars PROVE PureInv' /\ WholeMessages'
    BY DEF WInv
  <2> DEFINE Less == /\ \A k \in Keys : windows'[k] \in {windows[k], NoWindow}
                     /\ emitted' = emitted
  <2>1. ASSUME Less PROVE PureInv' /\ WholeMessages'
    <3>1. \A m \in Messages : KeyOf[m] \in Keys
      BY DEF Keys
    <3> QED BY <2>1, <3>1 DEF WInv, PureInv, WholeMessages, Open
  <2>2. ASSUME NEW seg \in inflight, Add(seg) PROVE PureInv' /\ WholeMessages'
    <3>1. seg \in Segments
      BY DEF WInv, IInv, TypeOK
    <3>2. CASE AddRefused(seg) \/ AddExpired(seg)
      BY <2>1, <3>2 DEF AddRefused, AddExpired, WInv, IInv, TypeOK
    <3> QED BY <2>2, <3>1, <3>2, StoredPure DEF Add
  <2>3. CASE TickerFires \/ GcStep \/ Pass \/ UNCHANGED vars
    BY <2>1, <2>3 DEF TickerFires, GcStep, GcTick, GcSweep, GcExit, Pass, vars
  <2>4. ASSUME NEW c \in Closes, CloseStep(c) PROVE PureInv' /\ WholeMessages'
    BY <2>1, <2>4 DEF CloseStep, CloseStop, CloseSignal, CloseDiscard
  <2> QED BY <2>2, <2>3, <2>4 DEF Next
<1>3. WInv => WholeMessages
  BY DEF WInv
<1> QED BY <1>1, <1>2, <1>3, Inductive, PTL DEF Spec
=============================================================================
