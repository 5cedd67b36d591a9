---------------------------- MODULE TpReassembly ----------------------------
(***************************************************************************)
(* tp.Reassembler (src/tp/tp.go): Add, the garbage collector and Close,    *)
(* fed with the segments that tp.Segment makes of a few messages.          *)
(*                                                                         *)
(* Lengths are counted in segments: every segment of a message is full     *)
(* (the last one too), so byte offsets become 0, 1, 2, ...  The payload of *)
(* a segment is the message it was cut from.  Segments arrive in any order *)
(* and any subset of them may be lost.                                     *)
(***************************************************************************)
EXTENDS Integers, Sequences, FiniteSets

CONSTANTS
    Messages,      \* the TP messages sent
    KeyOf,         \* assemblyKey: the (ServiceID, MethodID, SessionID) of each
    Size,          \* the number of segments of each
    Timeout,       \* ReassemblerConfig.Timeout
    Duplicates,    \* whether the network may deliver a segment again
    Closes,        \* the Close calls that may be made
    Gap,           \* in an emitted payload, bytes no segment supplied
    MaxTime,       \* bound on the time at which segments still arrive
    MaxEmissions   \* bound on the messages emitted

ASSUME MessageAssumption == /\ Size \in [Messages -> Nat \ {0, 1}]
                            /\ DOMAIN KeyOf = Messages
                            /\ Gap \notin Messages

ASSUME TimeAssumption == Timeout \in Nat /\ MaxTime \in Nat /\ MaxEmissions \in Nat

Keys == {KeyOf[m] : m \in Messages}

\* tp.Segment: the pieces of a message, all but the last with the More flag.
SegmentsOf(m) == {[of |-> m, off |-> i, more |-> i < Size[m] - 1] : i \in 0..Size[m] - 1}

Segments == UNION {SegmentsOf(m) : m \in Messages}

Offsets == {seg.off : seg \in Segments}

\* An assemblyWindow; an offset maps to the message its chunk came from.
Window == [chunks : [Offsets -> Messages \cup {Gap}],
           received : Nat,   \* in segments
           total : Nat,      \* 0 until the last segment arrives (-1 in the code)
           expires : Nat,
           opened : Nat]     \* history: when its first segment arrived

NoWindow == [chunks |-> [o \in Offsets |-> Gap], received |-> 0, total |-> 0,
             expires |-> -1, opened |-> -1]

VARIABLES
    clock,      \* time.Now()
    inflight,   \* the segments that can arrive
    windows,    \* r.windows
    tombstones, \* r.tombstones; -1 where there is none
    emitted,    \* history: what Add returned, in order
    timedOut,   \* history: when the key's last window timed out, or -1
    ticked,     \* a tick waits in the ticker's channel
    gcPc,       \* where gcLoop is
    gcNow,      \* the time gcLoop read before it took r.mu
    closePc,    \* where each Close call is
    panicked    \* r.done has been closed twice

closeVars == <<closePc, panicked>>
gcVars == <<ticked, gcPc, gcNow>>
vars == <<clock, inflight, windows, tombstones, emitted, timedOut, gcVars, closeVars>>

TypeOK ==
    /\ clock \in Nat
    /\ inflight \subseteq Segments
    /\ windows \in [Keys -> Window \cup {NoWindow}]
    /\ \A k \in Keys : LET w == windows[k] IN
          w.received = Cardinality({o \in Offsets : w.chunks[o] # Gap})
    /\ tombstones \in [Keys -> Nat \cup {-1}]
    /\ timedOut \in [Keys -> Nat \cup {-1}]
    /\ ticked \in BOOLEAN
    /\ gcPc \in {"select", "sweep", "exited"}
    /\ gcNow \in 0..clock
    /\ closePc \in [Closes -> {"open", "stopped", "signalled", "returned", "panicked"}]
    /\ panicked \in BOOLEAN

Init ==
    /\ clock = 0
    /\ inflight = Segments
    /\ windows = [k \in Keys |-> NoWindow]
    /\ tombstones = [k \in Keys |-> -1]
    /\ emitted = <<>>
    /\ timedOut = [k \in Keys |-> -1]
    /\ ticked = FALSE
    /\ gcPc = "select"
    /\ gcNow = 0
    /\ closePc = [c \in Closes |-> "open"]
    /\ panicked = FALSE

-----------------------------------------------------------------------------
Open(k) == windows[k] # NoWindow

\* assemblyKey of a segment.
Key(seg) == KeyOf[seg.of]

\* now.Before(exp) for the tombstone, now.After(win.expires) for the window.
Entombed(k) == clock < tombstones[k]

Expired(w, now) == now > w.expires

Signalled == \E c \in Closes : closePc[c] \in {"signalled", "returned"}

\* Mutation: the eviction leaves no tombstone.
NoTombstone(now) == -1

\* How long a timed-out key is refused.
Tombstone(now) == now + 2 * Timeout

\* The window that a segment opens; no later segment moves its deadline.
Fresh == [NoWindow EXCEPT !.expires = clock + Timeout, !.opened = clock]

\* Mutation: received counts a duplicate again.
CountAlways(w, seg) == w.received + 1

Count(w, seg) == IF w.chunks[seg.off] = Gap THEN w.received + 1 ELSE w.received

\* Mutation: every segment gives the window its full time again.
StoredRenewing(w, seg) ==
    [w EXCEPT !.chunks[seg.off] = IF @ = Gap THEN seg.of ELSE @,
              !.received = Count(w, seg),
              !.total = IF seg.more THEN @ ELSE seg.off + 1,
              !.expires = clock + Timeout]

\* Add stores a chunk once per offset and learns the length from the last one.
Stored(w, seg) ==
    [chunks |-> [w.chunks EXCEPT ![seg.off] = IF @ = Gap THEN seg.of ELSE @],
     received |-> Count(w, seg),
     total |-> IF seg.more THEN w.total ELSE seg.off + 1,
     expires |-> w.expires,
     opened |-> w.opened]

Complete(w) == w.total > 0 /\ w.received >= w.total

\* The emitted payload; what no segment supplied stays zero.
Payload(w) == [o \in 0..w.total - 1 |-> w.chunks[o]]

(***************************************************************************)
(* Add, one critical section of r.mu.                                      *)
(***************************************************************************)
Arrives(seg) ==
    /\ clock <= MaxTime
    /\ seg \in inflight
    /\ inflight' \in IF Duplicates THEN {inflight, inflight \ {seg}} ELSE {inflight \ {seg}}

\* No window, but a tombstone that is still valid: ErrReassemblyTimeout.
AddRefused(seg) ==
    /\ Arrives(seg)
    /\ ~Open(Key(seg)) /\ Entombed(Key(seg))
    /\ UNCHANGED <<clock, windows, tombstones, emitted, timedOut, gcVars, closeVars>>

\* The window is too old: ErrReassemblyTimeout, and a tombstone.
AddExpired(seg) ==
    LET k == Key(seg) IN
    /\ Arrives(seg)
    /\ Open(k) /\ Expired(windows[k], clock)
    /\ windows' = [windows EXCEPT ![k] = NoWindow]
    /\ tombstones' = [tombstones EXCEPT ![k] = Tombstone(clock)]
    /\ timedOut' = [timedOut EXCEPT ![k] = clock]
    /\ UNCHANGED <<clock, emitted, gcVars, closeVars>>

\* The chunk goes into the key's window, new or not; a full window is emitted.
AddStored(seg) ==
    LET k == Key(seg)
        w == Stored(IF Open(k) THEN windows[k] ELSE Fresh, seg) IN
    /\ Arrives(seg)
    /\ IF Open(k) THEN ~Expired(windows[k], clock) ELSE ~Entombed(k)
    /\ IF Complete(w)
       THEN /\ Len(emitted) < MaxEmissions
            /\ emitted' = Append(emitted, [key |-> k, payload |-> Payload(w), at |-> clock,
                                           opened |-> w.opened])
            /\ windows' = [windows EXCEPT ![k] = NoWindow]
       ELSE /\ windows' = [windows EXCEPT ![k] = w]
            /\ UNCHANGED emitted
    /\ UNCHANGED <<clock, tombstones, timedOut, gcVars, closeVars>>

Add(seg) == AddRefused(seg) \/ AddExpired(seg) \/ AddStored(seg)

(***************************************************************************)
(* gcLoop.                                                                 *)
(***************************************************************************)
\* The ticker, until ticker.Stop; its channel holds one tick.
TickerFires ==
    /\ \A c \in Closes : closePc[c] = "open"
    /\ ~ticked /\ ticked' = TRUE
    /\ UNCHANGED <<clock, inflight, windows, tombstones, emitted, timedOut, gcPc, gcNow, closeVars>>

\* now := time.Now(), before r.mu is taken.
GcTick ==
    /\ gcPc = "select" /\ ticked
    /\ gcPc' = "sweep" /\ gcNow' = clock /\ ticked' = FALSE
    /\ UNCHANGED <<clock, inflight, windows, tombstones, emitted, timedOut, closeVars>>

\* Mutation: the sweep only drops windows of completed length.
OldAndFull(k, now) == Open(k) /\ Expired(windows[k], now) /\ windows[k].total > 0

TooOld(k, now) == Open(k) /\ Expired(windows[k], now)

\* Both loops of the sweep, under r.mu: the second sees the new tombstones.
GcSweep ==
    /\ gcPc = "sweep"
    /\ gcPc' = "select"
    /\ windows' = [k \in Keys |-> IF TooOld(k, gcNow) THEN NoWindow ELSE windows[k]]
    /\ tombstones' = [k \in Keys |-> CASE TooOld(k, gcNow) -> Tombstone(gcNow)
                                        [] ~TooOld(k, gcNow) /\ gcNow > tombstones[k] -> -1
                                        [] OTHER -> tombstones[k]]
    /\ timedOut' = [k \in Keys |-> IF TooOld(k, gcNow) THEN gcNow ELSE timedOut[k]]
    /\ UNCHANGED <<clock, inflight, emitted, ticked, gcNow, closeVars>>

GcExit ==
    /\ gcPc = "select" /\ Signalled
    /\ gcPc' = "exited"
    /\ UNCHANGED <<clock, inflight, windows, tombstones, emitted, timedOut, ticked, gcNow, closeVars>>

(***************************************************************************)
(* Close: ticker.Stop, close(r.done), then the maps under r.mu.            *)
(***************************************************************************)
CloseStop(c) ==
    /\ closePc[c] = "open"
    /\ closePc' = [closePc EXCEPT ![c] = "stopped"]
    /\ UNCHANGED <<clock, inflight, windows, tombstones, emitted, timedOut, gcVars, panicked>>

CloseSignal(c) ==
    /\ closePc[c] = "stopped"
    /\ closePc' = [closePc EXCEPT ![c] = IF Signalled THEN "panicked" ELSE "signalled"]
    /\ panicked' = (panicked \/ Signalled)
    /\ UNCHANGED <<clock, inflight, windows, tombstones, emitted, timedOut, gcVars>>

\* The history of timeouts is forgotten with the tombstones.
CloseDiscard(c) ==
    /\ closePc[c] = "signalled"
    /\ closePc' = [closePc EXCEPT ![c] = "returned"]
    /\ windows' = [k \in Keys |-> NoWindow]
    /\ tombstones' = [k \in Keys |-> -1]
    /\ timedOut' = [k \in Keys |-> -1]
    /\ UNCHANGED <<clock, inflight, emitted, gcVars, panicked>>

\* Time passes; once segments have stopped arriving it only has to pass long
\* enough for the last windows to age.
Pass ==
    /\ clock <= MaxTime + Timeout
    /\ clock' = clock + 1
    /\ UNCHANGED <<inflight, windows, tombstones, emitted, timedOut, gcVars, closeVars>>

-----------------------------------------------------------------------------
CloseStep(c) == CloseStop(c) \/ CloseSignal(c) \/ CloseDiscard(c)

GcStep == GcTick \/ GcSweep \/ GcExit

Next == \/ \E seg \in inflight : Add(seg)
        \/ TickerFires \/ GcStep
        \/ \E c \in Closes : CloseStep(c)
        \/ Pass

Spec == Init /\ [][Next]_vars

\* Time passes, the ticker ticks and the collector's goroutine runs.
Fairness == WF_vars(Pass) /\ WF_vars(TickerFires) /\ WF_vars(GcTick) /\ WF_vars(GcSweep)

FairSpec == Spec /\ Fairness

-----------------------------------------------------------------------------
\* What a payload is made of: nothing but one message, all of it.
Whole(p) == \E m \in Messages : p = [o \in 0..Size[m] - 1 |-> m]

\* Whatever order segments arrive in, however often, and whichever of them time
\* out, Add only returns payloads that were sent (REQ-TP-010).
WholeMessages == \A i \in DOMAIN emitted : Whole(emitted[i].payload)

\* Every byte of a payload that Add returns came from a segment (REQ-TP-010).
NoGaps == \A i \in DOMAIN emitted : \A o \in DOMAIN emitted[i].payload : emitted[i].payload[o] # Gap

\* A message is returned within Timeout of the arrival that opened its window,
\* however many segments, repeated ones included, came in between: segments
\* further apart than that are never joined (REQ-TP-011).
JoinedInTime == \A i \in DOMAIN emitted : emitted[i].at <= emitted[i].opened + Timeout

\* After a window has timed out its key stays refused for twice the Timeout,
\* whether Add or the collector noticed, and although the collector reads the
\* clock before it takes the lock (REQ-TP-011).
LateSegmentsRefused ==
    \A k \in Keys : timedOut[k] # -1 /\ clock < timedOut[k] + 2 * Timeout => ~Open(k)

\* One message is returned at most once (REQ-TP-012: duplicates are ignored).
EmittedOnce == \A i, j \in DOMAIN emitted : emitted[i].payload = emitted[j].payload => i = j

\* Close may be called again (REQ-TP-005).
CloseIdempotent == ~panicked

\* An incomplete window does not outlive its Timeout for ever: it is completed
\* or evicted, unless the Reassembler is closed.
WindowsEnd == \A k \in Keys : Open(k) ~> (~Open(k) \/ \E c \in Closes : closePc[c] # "open")
=============================================================================
