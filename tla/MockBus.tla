------------------------------ MODULE MockBus ------------------------------
(***************************************************************************)
(* The in-process transport (src/mock/mock.go): servers replacing each     *)
(* other under one (ServiceID, InstanceID) of the bus, services, event     *)
(* subscriptions, Emit, and the three Close operations.                    *)
(*                                                                         *)
(* Every goroutine that calls into the bus is an actor of its own; a       *)
(* critical section is one step, and so is everything between two of them  *)
(* that another goroutine cannot see.  Method calls are left out: they run *)
(* the handler on the caller's goroutine and share no state with events.   *)
(***************************************************************************)
EXTENDS Naturals, FiniteSets, SequencesExt

CONSTANTS
    Servers,   \* the servers made under the key, one after another
    Services,  \* the services made
    Subs,      \* the subscriptions made
    OwnerOf,   \* the service that makes each subscription
    Closers,   \* the subscription.Close calls made
    Closing,   \* the subscription each of them closes
    Emits,     \* the Emit calls made
    Depth,     \* the depth of the channels
    None       \* no server, no subscription

ASSUME BusAssumption == /\ OwnerOf \in [Subs -> Services] /\ Closing \in [Closers -> Subs]
                        /\ Depth \in Nat \ {0}
                        /\ None \notin Servers \cup Subs

VARIABLES
    bound,    \* b.servers[key]
    latest,   \* history: the server made last
    srvPc,    \* each server: made or not, and how far its Close is
    srvAt,    \* the subscription that server.Close is closing
    listed,   \* s.subs of each server, for the one event
    srvOf,    \* svc.srv of each service
    svcPc,    \* each service: made, closed
    subPc,    \* where each Subscribe call is
    entered,  \* sub.once is running or has run, so sub.closed is set
    shut,     \* the channels that are closed
    queue,    \* what waits in each channel
    closerPc, \* where each subscription.Close is
    emitPc,   \* where each Emit is
    emitOn,   \* the server it was called on
    toSend,   \* the subscriptions Emit has still to look at
    target,   \* the subscription whose closed flag Emit has just read
    panicked, \* "no", or what panicked
    gone,     \* history: subscriptions whose Unsubscribe has returned
    goneAt,   \* history: gone when each Emit was called
    got       \* history: the Emits whose message entered each channel, in order

srvVars == <<bound, latest, srvPc, srvAt>>
svcVars == <<srvOf, svcPc>>
chanVars == <<entered, shut>>
emitVars == <<emitPc, emitOn, toSend, target, goneAt>>
vars == <<srvVars, listed, svcVars, subPc, chanVars, queue, closerPc, emitVars, panicked, gone, got>>

TypeOK ==
    /\ bound \in Servers \cup {None} /\ latest \in Servers \cup {None}
    /\ srvPc \in [Servers -> {"absent", "open", "marked", "unbound", "locked", "closed"}]
    /\ listed \in [Servers -> SUBSET Subs]
    /\ srvOf \in [Services -> Servers \cup {None}]
    /\ svcPc \in [Services -> {"absent", "open", "closed"}]
    /\ subPc \in [Subs -> {"idle", "entering", "made"}]
    /\ srvAt \in [Servers -> Subs \cup {None}]
    /\ shut \subseteq entered /\ entered \subseteq Subs
    /\ queue \in [Subs -> Seq(Emits)] /\ \A x \in Subs : Len(queue[x]) <= Depth
    /\ closerPc \in [Closers -> {"idle", "unlisted", "inside", "returned"}]
    /\ emitPc \in [Emits -> {"idle", "admitted", "sending", "checked", "done"}]
    /\ emitOn \in [Emits -> Servers \cup {None}]
    /\ toSend \in [Emits -> SUBSET Subs]
    /\ target \in [Emits -> Subs \cup {None}]
    /\ panicked \in {"no", "send", "close"}
    /\ gone \subseteq Subs /\ goneAt \in [Emits -> SUBSET Subs]

Init ==
    /\ bound = None /\ latest = None
    /\ srvPc = [s \in Servers |-> "absent"]
    /\ listed = [s \in Servers |-> {}]
    /\ srvOf = [c \in Services |-> None]
    /\ svcPc = [c \in Services |-> "absent"]
    /\ subPc = [x \in Subs |-> "idle"]
    /\ srvAt = [s \in Servers |-> None]
    /\ entered = {} /\ shut = {}
    /\ queue = [x \in Subs |-> <<>>]
    /\ closerPc = [k \in Closers |-> "idle"]
    /\ emitPc = [e \in Emits |-> "idle"]
    /\ emitOn = [e \in Emits |-> None]
    /\ toSend = [e \in Emits |-> {}]
    /\ target = [e \in Emits |-> None]
    /\ panicked = "no"
    /\ gone = {} /\ goneAt = [e \in Emits |-> {}] /\ got = [x \in Subs |-> <<>>]

-----------------------------------------------------------------------------
\* s.mu is held across steps only by server.Close.
MuFree(s) == srvPc[s] # "locked"

\* Mutation: closeOnce without its sync.Once.
Always(x) == TRUE

OnceFree(x) == x \notin entered

(***************************************************************************)
(* Bus.NewServer and Bus.NewService.                                       *)
(***************************************************************************)
NewServer(s) ==
    /\ srvPc[s] = "absent"
    /\ srvPc' = [srvPc EXCEPT ![s] = "open"]
    /\ bound' = s /\ latest' = s
    /\ UNCHANGED <<srvAt, listed, svcVars, subPc, chanVars, queue, closerPc, emitVars, panicked, gone, got>>

\* With no server bound it is ErrUnknownService and nothing changes.
NewService(c) ==
    /\ svcPc[c] = "absent" /\ bound # None
    /\ svcPc' = [svcPc EXCEPT ![c] = "open"]
    /\ srvOf' = [srvOf EXCEPT ![c] = bound]
    /\ UNCHANGED <<srvVars, listed, subPc, chanVars, queue, closerPc, emitVars, panicked, gone, got>>

CloseService(c) ==
    /\ svcPc[c] = "open"
    /\ svcPc' = [svcPc EXCEPT ![c] = "closed"]
    /\ UNCHANGED <<srvVars, listed, srvOf, subPc, chanVars, queue, closerPc, emitVars, panicked, gone, got>>

(***************************************************************************)
(* Subscribe: the closed flag of the service, then addSub.                 *)
(***************************************************************************)
SubscribeEnter(x) ==
    /\ subPc[x] = "idle" /\ svcPc[OwnerOf[x]] = "open"
    /\ subPc' = [subPc EXCEPT ![x] = "entering"]
    /\ UNCHANGED <<srvVars, listed, svcVars, chanVars, queue, closerPc, emitVars, panicked, gone, got>>

\* The server's closed flag is not looked at.
AddSub(x) == LET s == srvOf[OwnerOf[x]] IN
    /\ subPc[x] = "entering" /\ MuFree(s)
    /\ subPc' = [subPc EXCEPT ![x] = "made"]
    /\ listed' = [listed EXCEPT ![s] = @ \cup {x}]
    /\ UNCHANGED <<srvVars, svcVars, chanVars, queue, closerPc, emitVars, panicked, gone, got>>

(***************************************************************************)
(* Unsubscribe and subscription.Close.                                     *)
(***************************************************************************)
\* Mutation: removeSub finds nothing to delete.
DropNone(subs, x) == subs

Drop(subs, x) == subs \ {x}

RemoveSub(x) == LET s == srvOf[OwnerOf[x]] IN
    /\ subPc[x] = "made" /\ MuFree(s)
    /\ listed' = [listed EXCEPT ![s] = Drop(@, x)]
    /\ gone' = gone \cup {x}

Unsubscribe(x) ==
    /\ x \notin gone
    /\ RemoveSub(x)
    /\ UNCHANGED <<srvVars, svcVars, subPc, chanVars, queue, closerPc, emitVars, panicked, got>>

CloseSubBegin(k) ==
    /\ closerPc[k] = "idle"
    /\ RemoveSub(Closing[k])
    /\ closerPc' = [closerPc EXCEPT ![k] = "unlisted"]
    /\ UNCHANGED <<srvVars, svcVars, subPc, chanVars, queue, emitVars, panicked, got>>

\* once.Do: the first caller enters and sets sub.closed ...
OnceEnter(x) ==
    /\ OnceFree(x)
    /\ entered' = entered \cup {x}
    /\ UNCHANGED <<shut, panicked>>

\* ... and closes the channel.
OnceShut(x) ==
    /\ shut' = shut \cup {x}
    /\ panicked' = IF x \in shut THEN "close" ELSE panicked
    /\ UNCHANGED entered

CloseSubEnter(k) ==
    /\ closerPc[k] = "unlisted" /\ OnceEnter(Closing[k])
    /\ closerPc' = [closerPc EXCEPT ![k] = "inside"]
    /\ UNCHANGED <<srvVars, listed, svcVars, subPc, queue, emitVars, gone, got>>

CloseSubShut(k) ==
    /\ closerPc[k] = "inside" /\ OnceShut(Closing[k])
    /\ closerPc' = [closerPc EXCEPT ![k] = "returned"]
    /\ UNCHANGED <<srvVars, listed, svcVars, subPc, queue, emitVars, gone, got>>

\* Whoever comes second waits in once.Do until the channel is closed.
CloseSubSkip(k) ==
    /\ closerPc[k] = "unlisted" /\ Closing[k] \in shut
    /\ closerPc' = [closerPc EXCEPT ![k] = "returned"]
    /\ UNCHANGED <<srvVars, listed, svcVars, subPc, chanVars, queue, emitVars, panicked, gone, got>>

(***************************************************************************)
(* server.Close.                                                           *)
(***************************************************************************)
SrvGoto(s, from, to) == srvPc[s] = from /\ srvPc' = [srvPc EXCEPT ![s] = to]

CloseMark(s) ==
    /\ SrvGoto(s, "open", "marked")
    /\ UNCHANGED <<bound, latest, srvAt, listed, svcVars, subPc, chanVars, queue, closerPc, emitVars, panicked, gone, got>>

\* Mutation: Close leaves the map alone.
LeaveBound(s) == bound

\* delete(b.servers, s.key), whichever server the key maps to.
Unbound(s) == None

CloseUnbind(s) ==
    /\ SrvGoto(s, "marked", "unbound")
    /\ bound' = Unbound(s)
    /\ UNCHANGED <<latest, srvAt, listed, svcVars, subPc, chanVars, queue, closerPc, emitVars, panicked, gone, got>>

CloseLock(s) ==
    /\ SrvGoto(s, "unbound", "locked")
    /\ UNCHANGED <<bound, latest, srvAt, listed, svcVars, subPc, chanVars, queue, closerPc, emitVars, panicked, gone, got>>

CloseEnter(s, x) ==
    /\ srvPc[s] = "locked" /\ srvAt[s] = None
    /\ x \in listed[s] \ shut /\ OnceEnter(x)
    /\ srvAt' = [srvAt EXCEPT ![s] = x]
    /\ UNCHANGED <<bound, latest, srvPc, listed, svcVars, subPc, queue, closerPc, emitVars, gone, got>>

CloseShut(s) ==
    /\ srvAt[s] # None /\ OnceShut(srvAt[s])
    /\ srvAt' = [srvAt EXCEPT ![s] = None]
    /\ UNCHANGED <<bound, latest, srvPc, listed, svcVars, subPc, queue, closerPc, emitVars, gone, got>>

\* The subscriptions stay in the maps.
CloseUnlock(s) ==
    /\ srvAt[s] = None /\ listed[s] \subseteq shut
    /\ SrvGoto(s, "locked", "closed")
    /\ UNCHANGED <<bound, latest, srvAt, listed, svcVars, subPc, chanVars, queue, closerPc, emitVars, panicked, gone, got>>

(***************************************************************************)
(* Emit: the closed flag, a snapshot under the read lock, and for each     *)
(* subscription of it the closed flag and a non-blocking send, unlocked.   *)
(***************************************************************************)
EmitGoto(e, from, to) == emitPc[e] = from /\ emitPc' = [emitPc EXCEPT ![e] = to]

EmitEnter(e, s) ==
    /\ srvPc[s] = "open"
    /\ EmitGoto(e, "idle", "admitted")
    /\ emitOn' = [emitOn EXCEPT ![e] = s]
    /\ goneAt' = [goneAt EXCEPT ![e] = gone]
    /\ UNCHANGED <<srvVars, listed, svcVars, subPc, chanVars, queue, closerPc, toSend, target, panicked, gone, got>>

EmitSnapshot(e) ==
    /\ EmitGoto(e, "admitted", "sending") /\ MuFree(emitOn[e])
    /\ toSend' = [toSend EXCEPT ![e] = listed[emitOn[e]]]
    /\ UNCHANGED <<srvVars, listed, svcVars, subPc, chanVars, queue, closerPc, emitOn, target, goneAt, panicked, gone, got>>

\* A closed subscription is passed over; the map gives the others in any order.
EmitCheck(e, x) ==
    /\ emitPc[e] = "sending" /\ x \in toSend[e]
    /\ toSend' = [toSend EXCEPT ![e] = @ \ {x}]
    /\ IF x \in entered
       THEN UNCHANGED <<emitPc, target>>
       ELSE emitPc' = [emitPc EXCEPT ![e] = "checked"] /\ target' = [target EXCEPT ![e] = x]
    /\ UNCHANGED <<srvVars, listed, svcVars, subPc, chanVars, queue, closerPc, emitOn, goneAt, panicked, gone, got>>

HasRoom(x) == Len(queue[x]) < Depth

\* Mutation: the send has no default case.
OnlyWithRoom(x) == HasRoom(x)

\* The select with a default case is always ready.
SendReady(x) == TRUE

\* A full channel drops the message; a closed one panics, full or not.
EmitSend(e) == LET x == target[e] IN
    /\ EmitGoto(e, "checked", "sending") /\ SendReady(x)
    /\ target' = [target EXCEPT ![e] = None]
    /\ panicked' = IF x \in shut THEN "send" ELSE panicked
    /\ IF x \notin shut /\ HasRoom(x)
       THEN queue' = [queue EXCEPT ![x] = Append(@, e)] /\ got' = [got EXCEPT ![x] = Append(@, e)]
       ELSE UNCHANGED <<queue, got>>
    /\ UNCHANGED <<srvVars, listed, svcVars, subPc, chanVars, closerPc, emitOn, toSend, goneAt, gone>>

EmitReturn(e) ==
    /\ toSend[e] = {} /\ EmitGoto(e, "sending", "done")
    /\ UNCHANGED <<srvVars, listed, svcVars, subPc, chanVars, queue, closerPc, emitOn, toSend, target, goneAt, panicked, gone, got>>

\* A consumer of C().
Take(x) ==
    /\ queue[x] # <<>> /\ queue' = [queue EXCEPT ![x] = Tail(@)]
    /\ UNCHANGED <<srvVars, listed, svcVars, subPc, chanVars, closerPc, emitVars, panicked, gone, got>>

-----------------------------------------------------------------------------
SubStep(x) == SubscribeEnter(x) \/ AddSub(x) \/ Unsubscribe(x) \/ Take(x)

CloserStep(k) == CloseSubBegin(k) \/ CloseSubEnter(k) \/ CloseSubShut(k) \/ CloseSubSkip(k)

SrvCloseStep(s) == \/ CloseUnbind(s) \/ CloseLock(s) \/ CloseShut(s) \/ CloseUnlock(s)
                   \/ \E x \in Subs : CloseEnter(s, x)

EmitStep(e) == \/ EmitSnapshot(e) \/ EmitSend(e) \/ EmitReturn(e)
               \/ \E x \in Subs : EmitCheck(e, x)

\* A panic ends the program.
Next == /\ panicked = "no"
        /\ \/ \E s \in Servers : NewServer(s) \/ CloseMark(s) \/ SrvCloseStep(s)
           \/ \E c \in Services : NewService(c) \/ CloseService(c)
           \/ \E x \in Subs : SubStep(x)
           \/ \E k \in Closers : CloserStep(k)
           \/ \E e \in Emits : EmitStep(e) \/ \E s \in Servers : EmitEnter(e, s)

Spec == Init /\ [][Next]_vars

\* A call that has begun goes on; nobody has to call, or to read a channel.
Fairness == /\ \A e \in Emits : WF_vars(panicked = "no" /\ EmitStep(e))
            /\ \A s \in Servers : WF_vars(panicked = "no" /\ SrvCloseStep(s))

FairSpec == Spec /\ Fairness
-----------------------------------------------------------------------------
(***************************************************************************)
(* The inductive invariant behind the theorems of MockBusProofs.           *)
(***************************************************************************)
\* Who is between setting sub.closed and closing the channel is alone there.
OnceInv ==
    /\ entered \subseteq Subs /\ shut \subseteq entered
    /\ \A k \in Closers : closerPc[k] = "inside" =>
           /\ Closing[k] \in entered \ shut
           /\ \A j \in Closers : closerPc[j] = "inside" /\ Closing[j] = Closing[k] => j = k
           /\ \A s \in Servers : srvAt[s] # Closing[k]
    /\ \A s \in Servers : srvAt[s] # None =>
           /\ srvAt[s] \in entered \ shut
           /\ \A t \in Servers : srvAt[t] = srvAt[s] => t = s

\* A server is on the bus only until its Close unbinds.
BoundInv == bound # None => bound \in Servers /\ srvPc[bound] \in {"open", "marked"}

\* A subscription is on the list of its service's server and no other, and only
\* between its addSub and its first removeSub.
ListInv ==
    /\ \A x \in Subs : subPc[x] # "idle" => svcPc[OwnerOf[x]] # "absent"
    /\ \A s \in Servers : \A x \in listed[s] :
           subPc[x] = "made" /\ s = srvOf[OwnerOf[x]] /\ x \notin gone
    /\ \A x \in gone : subPc[x] = "made"

\* An Emit never picks up a subscription that was gone when it was called.
EmitInv ==
    \A e \in Emits :
        /\ emitPc[e] # "idle" => emitOn[e] \in Servers
        /\ goneAt[e] \subseteq gone
        /\ emitPc[e] \in {"idle", "admitted"} => toSend[e] = {} /\ target[e] = None
        /\ emitPc[e] = "idle" => \A x \in Subs : e \notin ToSet(got[x])
        /\ \A x \in goneAt[e] : x \notin toSend[e] /\ target[e] # x /\ e \notin ToSet(got[x])

-----------------------------------------------------------------------------
\* However subscription.Close calls and server.Close race, no channel is closed
\* twice (REQ-MOCK-013).
ClosedOnce == panicked # "close"

\* A service never attaches to a server whose Close has returned: such a server
\* is not on the bus, also when several were made under the key.
BoundIsLive == bound # None => srvPc[bound] # "closed"

\* An Emit that is called after Unsubscribe has returned delivers nothing to
\* that subscription (REQ-MOCK-012).
LaterEmitsQuiet == \A x \in Subs, e \in Emits : x \in goneAt[e] => e \notin ToSet(got[x])

\* Emit returns although nobody reads the channels.
EmitReturns == \A e \in Emits : emitPc[e] = "admitted" ~> (emitPc[e] = "done" \/ panicked # "no")

\* Emit never sends on a closed channel: a Server and a Subscription are safe
\* for concurrent use (src/someip.go:332 and :350).
NoSendOnClosed == panicked # "send"

\* After Unsubscribe has returned nothing more enters the channel
\* (src/someip.go:356).
QuietAfterUnsubscribe == [][\A x \in gone : got'[x] = got[x]]_vars

\* A server that is registered and not closed is the one a new service finds
\* (REQ-MOCK-002).
RegisteredRoutes == latest # None => (srvPc[latest] = "open" => bound = latest)

\* Service.Close closes all subscriptions of the service (REQ-MOCK-010).
ServiceCloseShuts == \A x \in Subs : subPc[x] = "made" /\ svcPc[OwnerOf[x]] = "closed" => x \in shut
=============================================================================
