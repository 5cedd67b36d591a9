------------------------------ MODULE UdpEvents -----------------------------
(***************************************************************************)
(* Event subscriptions over UDP (src/udp/udp.go): Service.Subscribe,       *)
(* Unsubscribe and Close, the SD Subscribe datagram they put on the data   *)
(* socket, the server's subscriber lists, Emit, and the client read loop   *)
(* that fans notifications out under svc.mu.                               *)
(*                                                                         *)
(* A Service has one local address, so Services stands for addresses too.  *)
(* The SubscribeAck is left out: the client's dispatchFrame drops it.      *)
(***************************************************************************)
EXTENDS Naturals, Sequences, SequencesExt

CONSTANTS
    Services,   \* the udp.Service instances
    Subs,       \* the subscriptions ever created
    ServiceOf,  \* the Service each subscription is created on
    Events,     \* the event IDs
    EventOf,    \* the event each subscription is for
    Depth,      \* capacity of a subscription's channel (64 in the code)
    MaxEmits,   \* bound on the number of Emit calls
    MaxStops,   \* bound on the Unsubscribe and Close calls per subscription
    MaxFaults,  \* bound on the datagrams the network loses or duplicates
    Reorders,   \* whether the network may reorder datagrams
    Closers     \* the ends the application may close: Services, "server"

ASSUME SubsAssumption == /\ ServiceOf \in [Subs -> Services]
                         /\ EventOf \in [Subs -> Events]

ASSUME BoundsAssumption == /\ {MaxEmits, MaxFaults} \subseteq Nat
                           /\ {Depth, MaxStops} \subseteq Nat \ {0}
                           /\ Reorders \in BOOLEAN

VARIABLES
    pc,         \* where each subscription's current operation is
    op,         \* that operation: "unsubscribe" or "close"
    stops,      \* Unsubscribe and Close calls begun on each subscription
    listed,     \* the subscriptions whose channel is in svc.subs
    got,        \* history: what was ever sent into each channel, in order
    taken,      \* how many of those the application has received
    chanClosed, \* the subscriptions whose channel is closed
    panicked,   \* a send on a closed channel has happened
    readerPc,   \* where each Service's readLoop is
    msg,        \* the notification it holds
    toSend,     \* the channels of its snapshot it has still to send to
    svcClose,   \* where each Service's Close is
    uplink,     \* Subscribe datagrams on their way to the server
    downlink,   \* notifications on their way to each Service
    faults,     \* how often the network has misbehaved
    jobs,       \* the server's handleFrame goroutines
    srvSubs,    \* s.subs: the subscriber addresses of each event
    srvClose,   \* where Server.Close is
    emits       \* the Emit calls begun: event and addresses still to write to

subVars == <<pc, op, stops>>
chanVars == <<listed, got, taken, chanClosed, panicked>>
readerVars == <<readerPc, msg, toSend>>
netVars == <<uplink, downlink, faults>>
serverVars == <<jobs, srvSubs, srvClose, emits>>
vars == <<subVars, chanVars, readerVars, svcClose, netVars, serverVars>>

\* The Subscribe entry of a subscription (k = 0, TTL 3600) and the k-th one
\* that ends it (TTL 0).
Datagram == [sub : Subs, k : 0..MaxStops]

Emission == 1..MaxEmits

\* Types, and no address twice on a list.
TypeOK ==
    /\ pc \in [Subs -> {"idle", "entering", "listed", "live", "leaving", "unlisted", "closing", "left"}]
    /\ op \in [Subs -> {"none", "unsubscribe", "close"}]
    /\ stops \in [Subs -> 0..MaxStops]
    /\ listed \subseteq Subs
    /\ got \in [Subs -> Seq(Emission)]
    /\ taken \in [Subs -> Nat]
    /\ chanClosed \subseteq Subs
    /\ panicked \in BOOLEAN
    /\ readerPc \in [Services -> {"read", "locking", "sending", "exited"}]
    /\ msg \in [Services -> Emission \cup {0}]
    /\ toSend \in [Services -> SUBSET Subs]
    /\ svcClose \in [Services -> {"open", "closing", "draining", "returned"}]
    /\ uplink \in [Services -> Seq(Datagram)]
    /\ downlink \in [Services -> Seq(Emission)]
    /\ faults \in 0..MaxFaults
    /\ jobs \subseteq Datagram
    /\ srvSubs \in [Events -> Seq(Services)]
    /\ \A e \in Events : IsInjective(srvSubs[e])
    /\ srvClose \in {"open", "closing", "closed"}
    /\ emits \in Seq([event : Events, to : Seq(Services)])

Init ==
    /\ pc = [s \in Subs |-> "idle"]
    /\ op = [s \in Subs |-> "none"]
    /\ stops = [s \in Subs |-> 0]
    /\ listed = {}
    /\ got = [s \in Subs |-> <<>>]
    /\ taken = [s \in Subs |-> 0]
    /\ chanClosed = {}
    /\ panicked = FALSE
    /\ readerPc = [v \in Services |-> "read"]
    /\ msg = [v \in Services |-> 0]
    /\ toSend = [v \in Services |-> {}]
    /\ svcClose = [v \in Services |-> "open"]
    /\ uplink = [v \in Services |-> <<>>]
    /\ downlink = [v \in Services |-> <<>>]
    /\ faults = 0
    /\ jobs = {}
    /\ srvSubs = [e \in Events |-> <<>>]
    /\ srvClose = "open"
    /\ emits = <<>>

-----------------------------------------------------------------------------
SocketOpen(v) == svcClose[v] \in {"open", "closing"}
SrvSocketOpen == srvClose # "closed"

Goto(s, from, to) == pc[s] = from /\ pc' = [pc EXCEPT ![s] = to]

\* Mutation: dispatchFrame takes its snapshot under svc.mu and sends without it.
NeverHeld(v) == TRUE

\* svc.mu is free: the read loop holds it from its snapshot to its last send;
\* every other critical section is one step.
MuFree(v) == readerPc[v] # "sending"

\* The datagrams of q that may be received next.
Receivable(q) == {i \in DOMAIN q : Reorders \/ i = 1}

(***************************************************************************)
(* Service.Subscribe.                                                      *)
(***************************************************************************)
SubscribeEnter(s) ==
    /\ svcClose[ServiceOf[s]] = "open"
    /\ Goto(s, "idle", "entering")
    /\ UNCHANGED <<op, stops, chanVars, readerVars, svcClose, netVars, serverVars>>

SubscribeList(s) ==
    /\ MuFree(ServiceOf[s])
    /\ Goto(s, "entering", "listed")
    /\ listed' = listed \cup {s}
    /\ UNCHANGED <<op, stops, got, taken, chanClosed, panicked, readerVars, svcClose, netVars, serverVars>>

Transmit(v, d) == uplink' = [uplink EXCEPT ![v] = Append(@, d)]

\* The registration is on its way, and Subscribe returns without the ack.
SubscribeSend(s) ==
    /\ SocketOpen(ServiceOf[s])
    /\ Goto(s, "listed", "live")
    /\ Transmit(ServiceOf[s], [sub |-> s, k |-> 0])
    /\ UNCHANGED <<op, stops, chanVars, readerVars, svcClose, downlink, faults, serverVars>>

\* WriteToUDP failed, on an open socket or a closed one: Unsubscribe, then an
\* error and no handle, so that nobody can end the subscription again.
SubscribeFails(s) ==
    /\ Goto(s, "listed", "leaving")
    /\ op' = [op EXCEPT ![s] = "unsubscribe"]
    /\ stops' = [stops EXCEPT ![s] = MaxStops]
    /\ UNCHANGED <<chanVars, readerVars, svcClose, netVars, serverVars>>

(***************************************************************************)
(* Subscription.Unsubscribe and Subscription.Close, which begins with it.  *)
(* Both may be called again on a subscription that was ended before.       *)
(***************************************************************************)
End(s, o) ==
    /\ stops[s] < MaxStops
    /\ pc[s] \in {"live", "left"}
    /\ pc' = [pc EXCEPT ![s] = "leaving"]
    /\ op' = [op EXCEPT ![s] = o]
    /\ stops' = [stops EXCEPT ![s] = @ + 1]
    /\ UNCHANGED <<chanVars, readerVars, svcClose, netVars, serverVars>>

UnsubscribeBegin(s) == End(s, "unsubscribe")
CloseSubBegin(s) == End(s, "close")

Unlist(s) ==
    /\ MuFree(ServiceOf[s])
    /\ Goto(s, "leaving", "unlisted")
    /\ listed' = listed \ {s}
    /\ UNCHANGED <<op, stops, got, taken, chanClosed, panicked, readerVars, svcClose, netVars, serverVars>>

\* The TTL-0 entry, whose write error is ignored: on an open socket that is a
\* datagram lost.
SendStop(s) ==
    /\ Goto(s, "unlisted", IF op[s] = "close" THEN "closing" ELSE "left")
    /\ IF SocketOpen(ServiceOf[s]) THEN Transmit(ServiceOf[s], [sub |-> s, k |-> stops[s]])
                                   ELSE UNCHANGED uplink
    /\ UNCHANGED <<op, stops, chanVars, readerVars, svcClose, downlink, faults, serverVars>>

\* once.Do: a second Close finds the channel closed already.
CloseChan(s) ==
    /\ Goto(s, "closing", "left")
    /\ chanClosed' = chanClosed \cup {s}
    /\ UNCHANGED <<op, stops, listed, got, taken, panicked, readerVars, svcClose, netVars, serverVars>>

\* The application receives from C().
Take(s) ==
    /\ taken[s] < Len(got[s])
    /\ taken' = [taken EXCEPT ![s] = @ + 1]
    /\ UNCHANGED <<subVars, listed, got, chanClosed, panicked, readerVars, svcClose, netVars, serverVars>>

(***************************************************************************)
(* The client's readLoop and dispatchFrame, for notifications.             *)
(***************************************************************************)
Read(v) ==
    /\ readerPc[v] = "read"
    /\ SocketOpen(v)
    /\ \E i \in Receivable(downlink[v]) :
         /\ msg' = [msg EXCEPT ![v] = downlink[v][i]]
         /\ downlink' = [downlink EXCEPT ![v] = RemoveAt(@, i)]
    /\ readerPc' = [readerPc EXCEPT ![v] = "locking"]
    /\ UNCHANGED <<subVars, chanVars, toSend, svcClose, uplink, faults, serverVars>>

ReadFails(v) ==
    /\ readerPc[v] = "read"
    /\ ~SocketOpen(v)
    /\ readerPc' = [readerPc EXCEPT ![v] = "exited"]
    /\ UNCHANGED <<subVars, chanVars, msg, toSend, svcClose, netVars, serverVars>>

\* The subscriptions of v in svc.subs under the event of a notification.
Audience(v, e) == {s \in listed : ServiceOf[s] = v /\ EventOf[s] = e}

Lock(v) ==
    /\ readerPc[v] = "locking"
    /\ readerPc' = [readerPc EXCEPT ![v] = "sending"]
    /\ toSend' = [toSend EXCEPT ![v] = Audience(v, emits[msg[v]].event)]
    /\ UNCHANGED <<subVars, chanVars, msg, svcClose, netVars, serverVars>>

HasRoom(s) == Len(got[s]) - taken[s] < Depth

\* Mutation: the select has no default case.
WhenRoom(s) == HasRoom(s)

\* A send is ready at once: a full channel takes the select's default.
SendReady(s) == TRUE

SendTo(v, s) ==
    /\ readerPc[v] = "sending"
    /\ s \in toSend[v]
    /\ SendReady(s)
    /\ toSend' = [toSend EXCEPT ![v] = @ \ {s}]
    /\ panicked' = (panicked \/ s \in chanClosed)
    /\ got' = IF HasRoom(s) THEN [got EXCEPT ![s] = Append(@, msg[v])] ELSE got
    /\ UNCHANGED <<subVars, listed, taken, chanClosed, readerPc, msg, svcClose, netVars, serverVars>>

Unlock(v) ==
    /\ readerPc[v] = "sending"
    /\ toSend[v] = {}
    /\ readerPc' = [readerPc EXCEPT ![v] = "read"]
    /\ msg' = [msg EXCEPT ![v] = 0]
    /\ UNCHANGED <<subVars, chanVars, toSend, svcClose, netVars, serverVars>>

(***************************************************************************)
(* Service.Close: it leaves the subscriptions alone.                       *)
(***************************************************************************)
SvcCloseStep(v) ==
    /\ \/ svcClose[v] = "open" /\ v \in Closers /\ svcClose' = [svcClose EXCEPT ![v] = "closing"]
       \/ svcClose[v] = "closing" /\ svcClose' = [svcClose EXCEPT ![v] = "draining"]
       \/ /\ svcClose[v] = "draining" /\ readerPc[v] = "exited"
          /\ svcClose' = [svcClose EXCEPT ![v] = "returned"]
    /\ UNCHANGED <<subVars, chanVars, readerVars, netVars, serverVars>>

(***************************************************************************)
(* The server: one goroutine per datagram, so that the order in which      *)
(* datagrams arrive is not the order in which they are handled.            *)
(***************************************************************************)
ServerRead(v) ==
    /\ SrvSocketOpen
    /\ \E i \in Receivable(uplink[v]) :
         /\ jobs' = jobs \cup {uplink[v][i]}
         /\ uplink' = [uplink EXCEPT ![v] = RemoveAt(@, i)]
    /\ UNCHANGED <<subVars, chanVars, readerVars, svcClose, downlink, faults, srvSubs, srvClose, emits>>

\* Mutation: registration does not look for the address in the list.
AlwaysAdded(list, v) == Append(list, v)

\* RegisterSubscriber: repeat registrations are no-ops.
Added(list, v) == IF Contains(list, v) THEN list ELSE Append(list, v)

\* UnregisterSubscriber: every other address is copied over, in order.
Removed(list, v) ==
    LET filtered[i \in 0..Len(list)] ==
            IF i = 0 THEN <<>>
            ELSE IF list[i] # v THEN Append(filtered[i - 1], list[i]) ELSE filtered[i - 1]
    IN  filtered[Len(list)]

\* handleSubscribeFrame; RegisterSubscriber refuses on a closed server.
HandleSubscribe(d) ==
    LET v == ServiceOf[d.sub]
        e == EventOf[d.sub] IN
    /\ d \in jobs
    /\ jobs' = jobs \ {d}
    /\ IF d.k = 0
       THEN srvSubs' = IF srvClose = "open" THEN [srvSubs EXCEPT ![e] = Added(@, v)] ELSE srvSubs
       ELSE srvSubs' = [srvSubs EXCEPT ![e] = Removed(@, v)]
    /\ UNCHANGED <<subVars, chanVars, readerVars, svcClose, netVars, srvClose, emits>>

\* Emit: the closed check, a snapshot of the list under s.mu ...
EmitBegin(e) ==
    /\ srvClose = "open"
    /\ Len(emits) < MaxEmits
    /\ emits' = Append(emits, [event |-> e, to |-> srvSubs[e]])
    /\ UNCHANGED <<subVars, chanVars, readerVars, svcClose, netVars, jobs, srvSubs, srvClose>>

\* ... and one write per address, whose error is ignored.
EmitWrite(n) ==
    /\ emits[n].to # <<>>
    /\ emits' = [emits EXCEPT ![n].to = Tail(@)]
    /\ IF SrvSocketOpen THEN downlink' = [downlink EXCEPT ![Head(emits[n].to)] = Append(@, n)]
                        ELSE UNCHANGED downlink
    /\ UNCHANGED <<subVars, chanVars, readerVars, svcClose, uplink, faults, jobs, srvSubs, srvClose>>

SrvCloseStep ==
    /\ \/ srvClose = "open" /\ "server" \in Closers /\ srvClose' = "closing"
       \/ srvClose = "closing" /\ srvClose' = "closed"
    /\ UNCHANGED <<subVars, chanVars, readerVars, svcClose, netVars, jobs, srvSubs, emits>>

(***************************************************************************)
(* The network loses and duplicates datagrams, up to MaxFaults times.      *)
(***************************************************************************)
Lose(v) ==
    /\ faults < MaxFaults /\ faults' = faults + 1
    /\ \/ /\ \E i \in DOMAIN uplink[v] : uplink' = [uplink EXCEPT ![v] = RemoveAt(@, i)]
          /\ UNCHANGED downlink
       \/ /\ \E i \in DOMAIN downlink[v] : downlink' = [downlink EXCEPT ![v] = RemoveAt(@, i)]
          /\ UNCHANGED uplink
    /\ UNCHANGED <<subVars, chanVars, readerVars, svcClose, serverVars>>

Duplicate(v) ==
    /\ faults < MaxFaults /\ faults' = faults + 1
    /\ \/ /\ \E d \in ToSet(uplink[v]) : Transmit(v, d)
          /\ UNCHANGED downlink
       \/ /\ \E n \in ToSet(downlink[v]) : downlink' = [downlink EXCEPT ![v] = Append(@, n)]
          /\ UNCHANGED uplink
    /\ UNCHANGED <<subVars, chanVars, readerVars, svcClose, serverVars>>

-----------------------------------------------------------------------------
SubStep(s) == \/ SubscribeEnter(s) \/ SubscribeList(s) \/ SubscribeSend(s) \/ SubscribeFails(s)
              \/ UnsubscribeBegin(s) \/ CloseSubBegin(s) \/ Unlist(s) \/ SendStop(s) \/ CloseChan(s)
              \/ Take(s)

ReaderStep(v) == \/ Read(v) \/ ReadFails(v) \/ Lock(v) \/ Unlock(v)
                 \/ \E s \in toSend[v] : SendTo(v, s)

ServerStep == \/ \E v \in Services : ServerRead(v)
              \/ \E d \in jobs : HandleSubscribe(d)
              \/ \E e \in Events : EmitBegin(e)
              \/ \E n \in DOMAIN emits : EmitWrite(n)
              \/ SrvCloseStep

Next == \/ \E s \in Subs : SubStep(s)
        \/ \E v \in Services : ReaderStep(v) \/ SvcCloseStep(v) \/ Lose(v) \/ Duplicate(v)
        \/ ServerStep

Spec == Init /\ [][Next]_vars

\* Goroutines that can run do run, a closed socket reports it, and a sync.Mutex
\* that keeps coming free is eventually acquired (its starvation mode).  Nobody
\* has to take messages from C(), and the network owes nothing.
Fairness ==
    /\ \A s \in Subs : /\ WF_vars(SubscribeSend(s) \/ SubscribeFails(s) \/ SendStop(s) \/ CloseChan(s))
                       /\ SF_vars(SubscribeList(s) \/ Unlist(s))
    /\ \A v \in Services :
         /\ WF_vars(ReadFails(v) \/ Lock(v) \/ Unlock(v) \/ \E s \in toSend[v] : SendTo(v, s))
         /\ WF_vars(svcClose[v] # "open" /\ SvcCloseStep(v))

FairSpec == Spec /\ Fairness
-----------------------------------------------------------------------------
(***************************************************************************)
(* The inductive invariant behind the theorems of UdpEventsProofs: who may *)
(* be on svc.subs, and what the read loop holds while it holds svc.mu.     *)
(***************************************************************************)
\* The part of TypeOK the argument needs.
ClientTypeOK ==
    /\ pc \in [Subs -> {"idle", "entering", "listed", "live", "leaving", "unlisted", "closing", "left"}]
    /\ listed \subseteq Subs
    /\ chanClosed \subseteq Subs
    /\ got = [s \in Subs |-> got[s]]
    /\ readerPc \in [Services -> {"read", "locking", "sending", "exited"}]
    /\ toSend \in [Services -> SUBSET Subs]

\* A listed channel is open, and nobody is past taking it off the list.
ListedInv == \A s \in listed : pc[s] \in {"listed", "live", "leaving"} /\ s \notin chanClosed

\* A channel is not closed before it has been listed.
FreshInv == \A s \in Subs : pc[s] \in {"idle", "entering"} => s \notin chanClosed

\* The channels a fan-out has still to send to are the service's own, and stay
\* on its list until the fan-out gives svc.mu back.
FanOutInv ==
    \A v \in Services : readerPc[v] = "sending" =>
        \A s \in toSend[v] : ServiceOf[s] = v /\ s \in listed

IInv == ClientTypeOK /\ ListedInv /\ FreshInv /\ FanOutInv /\ ~panicked

\* The counters keep their bounds: nothing is ended before it has been listed.
CountInv ==
    /\ Len(emits) <= MaxEmits
    /\ \A s \in Subs : pc[s] \in {"idle", "entering", "listed"} => stops[s] = 0

(***************************************************************************)
(* The way of a notification: from an Emit's list over the downlink and    *)
(* the read loop into a channel.                                           *)
(***************************************************************************)
\* What travels or is being dispatched has been emitted, and what a channel is
\* sent is of its event.
PathInv ==
    /\ \A v \in Services :
         /\ ToSet(downlink[v]) \subseteq DOMAIN emits
         /\ IF readerPc[v] \in {"locking", "sending"} THEN msg[v] \in DOMAIN emits ELSE msg[v] = 0
         /\ readerPc[v] = "sending" => \A s \in toSend[v] : EventOf[s] = emits[msg[v]].event
    /\ \A s \in Subs : \A n \in ToSet(got[s]) : n \in DOMAIN emits /\ EventOf[s] = emits[n].event

\* Emission n has been written to v's socket.
Arrived(v, n) == n \in ToSet(downlink[v]) \/ msg[v] = n \/ \E s \in Subs : ServiceOf[s] = v /\ n \in ToSet(got[s])

\* An Emit writes to each address once.
EmitOnce ==
    \A n \in DOMAIN emits : IsInjective(emits[n].to) /\ \A v \in ToSet(emits[n].to) : ~Arrived(v, n)

\* The read loop receives each notification once.
LinkOnce == \A v \in Services : IsInjective(downlink[v]) /\ msg[v] \notin ToSet(downlink[v])

\* What a channel has been sent does not come again.
GotOnce ==
    \A s \in Subs : LET v == ServiceOf[s] IN
        /\ IsInjective(got[s])
        /\ \A n \in ToSet(got[s]) : /\ n \notin ToSet(downlink[v])
                                    /\ msg[v] = n => readerPc[v] = "sending" /\ s \notin toSend[v]

\* As long as the network has not misbehaved, a notification is in one place.
OnceInv == faults = 0 => EmitOnce /\ LinkOnce /\ GotOnce

-----------------------------------------------------------------------------
\* The read loop never sends on a channel that Subscription.Close has closed
\* (the comment in dispatchFrame): a send on a closed channel panics.
NoSendOnClosed == ~panicked

\* Once Unsubscribe has taken a subscription off the list, nothing more is sent
\* into its channel, whatever notifications are under way (REQ-UDP-011).
QuietAfterUnsubscribe ==
    [][\A s \in Subs : pc[s] \in {"unlisted", "closing", "left"} => got'[s] = got[s]]_vars

\* On a network that duplicates nothing, one Emit reaches a subscription at most
\* once, however many subscriptions share the address (RegisterSubscriber).
DeliveredOnce == MaxFaults = 0 => \A s \in Subs : IsInjective(got[s])

\* Whatever the network does, a subscription is only sent notifications of the
\* event it is for (the lookup under svc.mu in dispatchFrame).
OwnEventOnly == \A s \in Subs : \A n \in ToSet(got[s]) : n \in DOMAIN emits /\ emits[n].event = EventOf[s]

\* Nothing about an event of a service is on its way to, or in, the server.
Settled(v, e) ==
    \A d \in ToSet(uplink[v]) \cup jobs : ServiceOf[d.sub] = v => EventOf[d.sub] # e

Live(v, e) == \E s \in Subs : pc[s] = "live" /\ ServiceOf[s] = v /\ EventOf[s] = e

Gone(v, e) == \A s \in Subs : ServiceOf[s] = v /\ EventOf[s] = e => pc[s] \in {"idle", "left"}

\* On a network that loses nothing, a live subscription ends up on the server's
\* list, so that Emit reaches it ("all current subscribers", someip.Server).
LiveMeansRegistered ==
    (MaxFaults = 0 /\ srvClose = "open") =>
        \A v \in Services, e \in Events :
            Live(v, e) /\ Settled(v, e) => v \in ToSet(srvSubs[e])

\* On a network that loses nothing, the server ends up with no address of a
\* service whose subscriptions to the event have all ended.
GoneMeansUnregistered ==
    MaxFaults = 0 =>
        \A v \in Services, e \in Events :
            Gone(v, e) /\ Settled(v, e) /\ svcClose[v] = "open" => v \notin ToSet(srvSubs[e])

\* A subscription whose Subscribe has returned is on the server's list until it
\* is ended (the comment on the SD wiring in udp.go).
RegisteredBeforeReturn ==
    srvClose = "open" => \A s \in Subs : pc[s] = "live" => ServiceOf[s] \in ToSet(srvSubs[EventOf[s]])

\* Closing a Service closes the channels of its subscriptions (Subscription.C).
CloseClosesChannels ==
    \A s \in Subs : pc[s] = "live" /\ svcClose[ServiceOf[s]] = "returned" => s \in chanClosed

\* Unsubscribe and Close return although the read loop holds svc.mu while it
\* sends and nobody takes messages from the channels: no send blocks.
EndingReturns == \A s \in Subs : (pc[s] = "leaving") ~> (pc[s] = "left")

\* Service.Close returns, too: the read loop is never stuck in dispatchFrame.
CloseReturns == \A v \in Services : (svcClose[v] = "closing") ~> (svcClose[v] = "returned")
=============================================================================
