------------------------------ MODULE AdaptPump ------------------------------
(***************************************************************************)
(* serviceAdapter.Subscribe (src/adapt.go:163): a goroutine moves events   *)
(* from the channel of the service's subscription to the channel of the    *)
(* caller, which have the same depth.  The service is external to it: it   *)
(* drops an event when its channel is full, whatever the policy            *)
(* (src/udp/udp.go:611, src/mock/mock.go:137).                             *)
(***************************************************************************)
EXTENDS Naturals, Sequences

CONSTANTS
    MaxEvents,  \* bound: events emitted
    Depth,      \* the depth of both channels
    None        \* no event

Events == 1..MaxEvents

ASSUME PumpAssumption == MaxEvents \in Nat /\ Depth \in Nat \ {0} /\ None \notin Events

Policies == {"Block", "DropOldest", "DropNewest"}

VARIABLES
    policy,     \* cfg.BackPressure
    pc,         \* where Subscribe and then its goroutine are
    src,        \* what waits in sub.C()
    srcClosed,  \* sub.C() is closed
    hand,       \* rm
    out,        \* what waits in the channel of the caller
    reading,    \* whether the consumer still receives
    ended,      \* whether it has seen the end
    emitted,    \* the number of events the service had for the subscription
    newest,     \* history: the last event that entered src
    got         \* history: what the consumer received

consumerVars == <<reading, ended, got>>
sourceVars == <<src, srcClosed, emitted, newest>>
vars == <<policy, pc, hand, out, consumerVars, sourceVars>>

TypeOK ==
    /\ policy \in Policies
    /\ pc \in {"idle", "refused", "range", "offer", "drain", "closed"}
    /\ pc = "drain" => policy = "DropOldest"
    /\ src \in Seq(Events) /\ Len(src) <= Depth
    /\ hand \in Events \cup {None} /\ (hand # None <=> pc \in {"offer", "drain"})
    /\ out \in Seq(Events) /\ Len(out) <= Depth
    /\ srcClosed \in BOOLEAN /\ reading \in BOOLEAN /\ ended \in BOOLEAN
    /\ emitted \in 0..MaxEvents /\ newest \in Events \cup {None}
    /\ got \in Seq(Events)

Init ==
    /\ policy \in Policies
    /\ pc = "idle" /\ hand = None
    /\ src = <<>> /\ srcClosed = FALSE
    /\ out = <<>>
    /\ reading = TRUE /\ ended = FALSE
    /\ emitted = 0 /\ newest = None /\ got = <<>>

-----------------------------------------------------------------------------
Goto(from, to) == pc = from /\ pc' = to

HasRoom(ch) == Len(ch) < Depth

\* ErrNotConnected without an EventID; an error of the service is passed on.
SubscribeRefused ==
    /\ Goto("idle", "refused")
    /\ UNCHANGED <<policy, hand, out, consumerVars, sourceVars>>

Subscribe ==
    /\ Goto("idle", "range")
    /\ UNCHANGED <<policy, hand, out, consumerVars, sourceVars>>

Subscribed == pc \notin {"idle", "refused"}

(***************************************************************************)
(* The service.                                                            *)
(***************************************************************************)
Emit ==
    /\ Subscribed /\ ~srcClosed /\ emitted < MaxEvents
    /\ emitted' = emitted + 1
    /\ IF HasRoom(src) THEN src' = Append(src, emitted') /\ newest' = emitted'
                       ELSE UNCHANGED <<src, newest>>
    /\ UNCHANGED <<policy, pc, srcClosed, hand, out, consumerVars>>

\* The channel of the subscription is closed; what is in it stays.
CloseSource ==
    /\ Subscribed /\ ~srcClosed
    /\ srcClosed' = TRUE
    /\ UNCHANGED <<policy, pc, src, hand, out, emitted, newest, consumerVars>>

(***************************************************************************)
(* The goroutine.                                                          *)
(***************************************************************************)
Receive ==
    /\ Goto("range", "offer") /\ src # <<>>
    /\ hand' = Head(src) /\ src' = Tail(src)
    /\ UNCHANGED <<policy, srcClosed, out, emitted, newest, consumerVars>>

\* close(out) when the range is over; what is in out stays.
CloseOut ==
    /\ Goto("range", "closed") /\ src = <<>> /\ srcClosed
    /\ UNCHANGED <<policy, hand, out, consumerVars, sourceVars>>

\* out <- rm, in whichever case of the switch.
Pass ==
    /\ Goto("offer", "range") /\ HasRoom(out)
    /\ out' = Append(out, hand) /\ hand' = None
    /\ UNCHANGED <<policy, consumerVars, sourceVars>>

\* Mutation: Block falls into the default case of the switch.
DropsUnlessOldest == policy # "DropOldest"

\* Mutation: so does DropOldest.
DropsUnlessBlock == policy # "Block"

\* The default case of the switch: a full channel drops the arriving event.
DropsArriving == policy = "DropNewest"

DropArriving ==
    /\ Goto("offer", "range") /\ ~HasRoom(out) /\ DropsArriving
    /\ hand' = None
    /\ UNCHANGED <<policy, out, consumerVars, sourceVars>>

\* DropOldest: on to the inner select.
FindsFull ==
    /\ Goto("offer", "drain") /\ ~HasRoom(out) /\ policy = "DropOldest"
    /\ UNCHANGED <<policy, hand, out, consumerVars, sourceVars>>

\* Mutation: nothing is taken out.
DrainNone(ch) == ch

\* The consumer may have emptied the channel since.
Drained(ch) == IF ch = <<>> THEN ch ELSE Tail(ch)

\* And round again.
Drain ==
    /\ Goto("drain", "offer")
    /\ out' = Drained(out)
    /\ UNCHANGED <<policy, hand, consumerVars, sourceVars>>

(***************************************************************************)
(* The consumer, who may stop reading.                                     *)
(***************************************************************************)
Take ==
    /\ reading /\ out # <<>>
    /\ got' = Append(got, Head(out)) /\ out' = Tail(out)
    /\ UNCHANGED <<policy, pc, hand, reading, ended, sourceVars>>

SeeEnd ==
    /\ reading /\ out = <<>> /\ pc = "closed"
    /\ ended' = TRUE
    /\ UNCHANGED <<policy, pc, hand, out, reading, got, sourceVars>>

Stall ==
    /\ reading' = FALSE
    /\ UNCHANGED <<policy, pc, hand, out, ended, got, sourceVars>>

-----------------------------------------------------------------------------
Pump == Receive \/ CloseOut \/ Pass \/ DropArriving \/ FindsFull \/ Drain
Consumer == Take \/ SeeEnd
Service == Emit \/ CloseSource

Next == SubscribeRefused \/ Subscribe \/ Service \/ Pump \/ Consumer \/ Stall

Spec == Init /\ [][Next]_vars

\* The goroutine runs, and a consumer that reads goes on reading.
Fairness == WF_vars(Pump) /\ WF_vars(Consumer)

FairSpec == Spec /\ Fairness
-----------------------------------------------------------------------------
Held == IF hand = None THEN <<>> ELSE <<hand>>

Stream == INSTANCE EventStream
          WITH lossy <- policy # "Block", buf <- out \o Held \o src

\* Through two channels and the goroutine between them, whoever is slow, the
\* consumer gets events in order and once; under Block none that the service has
\* put into the channel is lost; the end is seen after the last (Subscribe).
KeepsStream == Stream!Spec

\* DropOldest drops what is older: the newest event that the service put into
\* the channel is still on its way, or the consumer has it.
NewestKept == policy = "DropOldest" /\ newest # None =>
    LET all == got \o out \o Held \o src IN all # <<>> /\ all[Len(all)] = newest

\* A consumer that stalls never stalls the service's channel under the policies
\* that drop (src/adapt.go:178); and once that channel is closed, so is the
\* caller's, although nobody may be reading it, unless the caller asked for Block.
PumpMovesOn ==
    /\ policy # "Block" => []<>(src = <<>>)
    /\ srcClosed ~> (pc = "closed" \/ (policy = "Block" /\ ~reading))

\* Nothing is left behind when the goroutine ends, and the end is seen after that.
EndsEmpty == /\ pc = "closed" => srcClosed /\ src = <<>>
             /\ ended => pc = "closed" /\ out = <<>>

IInv == TypeOK /\ EndsEmpty /\ NewestKept

\* Block waits until space is available (src/someip.go:281): no event is lost.
BlockLosesNothing == policy = "Block" => Len(got \o out \o Held \o src) = emitted
=============================================================================
