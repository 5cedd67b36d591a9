------------------------------ MODULE SdDaemon ------------------------------
(***************************************************************************)
(* An sdudp.Daemon that offers services (src/sd/udp/sdudp.go), the         *)
(* registry of a peer's daemon that listens to it, and the datagrams       *)
(* between them, which are lost and overtake each other.  The peer's read  *)
(* loop starts a goroutine for each datagram, one more way of overtaking.  *)
(*                                                                         *)
(* An Offer call makes one record: the ticker, the done channel and the    *)
(* ticker goroutine bear the name of the call.  A second is the period of  *)
(* the tickers and the unit of the TTL.  A critical section of d.mu is one *)
(* step: ticker goroutines do not take it, and what they do while Close    *)
(* holds it they can also do before or after.                              *)
(***************************************************************************)
EXTENDS SdRecords, FiniteSets

CONSTANTS
    Offers,    \* the Offer calls made
    KeyOf,     \* the (ServiceID, InstanceID) each announces
    Addressed, \* those whose Endpoint has an IP
    Requests,  \* the Find and SubscribeEventgroup calls of the peer
    TTL        \* the TTL of the offers

ASSUME DaemonAssumption == /\ KeyOf \in [Offers -> Keys] /\ Addressed \subseteq Offers
                           /\ TTL \in 1..MaxTTL
                           /\ None \notin Offers

VARIABLES
    offerPc,   \* where each Offer call is
    offers,    \* d.offers: for each key the call whose record it holds
    done,      \* the records whose done channel is closed
    ticking,   \* the tickers that are not stopped
    tick,      \* the ticker channels that hold a tick
    goPc,      \* where each ticker goroutine is
    closePc,   \* where Daemon.Close is
    reading,   \* readLoop has not returned
    reqPc,     \* where the handler goroutine of each request is
    replies,   \* the records a Find handler has still to send
    dead,      \* whether the daemon's process has panicked or been killed
    air,       \* the datagrams on their way to the peer
    late       \* history: announcements of a record after its done was closed

offerVars == <<offerPc, offers, done, dead>>
tickerVars == <<ticking, tick, goPc, late>>
closeVars == <<closePc, reading>>
reqVars == <<reqPc, replies>>
vars == <<offerVars, tickerVars, closeVars, reqVars, air, services>>

\* What a record of the peer holds: whose offer it is, and where it says the
\* service is: in its option, at the source of the datagram, or at 0.0.0.0.
Endpoints == [of : Offers, at : {"option", "source", "zero"}]

ASSUME EndpointsAssumption == None \notin Record(Endpoints)

\* What is sent to the peer: Offers and StopOffers.  SubscribeEventgroupAcks are
\* left out: its handleEntry ignores them.
Datagrams == Endpoints \cup [of : Offers, at : {"stop"}]

MaxLate == 3  \* bound: late announcements are not counted beyond it

TypeOK ==
    /\ offerPc \in [Offers -> {"idle", "entered", "announced", "stored", "returned"}]
    /\ offers \in [Keys -> Offers \cup {None}]
    /\ done \subseteq Offers /\ ticking \subseteq Offers /\ tick \subseteq Offers
    /\ goPc \in [Offers -> {"none", "select", "sending", "exited"}]
    /\ closePc \in {"open", "swapped", "stopped", "waiting", "returned"}
    /\ reading \in BOOLEAN /\ dead \in {"no", "panic", "killed"}
    /\ reqPc \in [Requests -> {"idle", "find", "subscribe", "replying"}]
    /\ replies \in [Requests -> SUBSET Offers]
    /\ air \subseteq Datagrams
    /\ services \in [Keys -> Record(Endpoints) \cup {None}]
    /\ late \in [Offers -> 0..MaxLate]

Init ==
    /\ offerPc = [o \in Offers |-> "idle"]
    /\ offers = [k \in Keys |-> None]
    /\ done = {} /\ ticking = {} /\ tick = {} /\ dead = "no"
    /\ goPc = [o \in Offers |-> "none"]
    /\ closePc = "open" /\ reading = TRUE
    /\ reqPc = [r \in Requests |-> "idle"]
    /\ replies = [r \in Requests |-> {}]
    /\ air = {} /\ services = [k \in Keys |-> None]
    /\ late = [o \in Offers |-> 0]

-----------------------------------------------------------------------------
Closed == closePc # "open"
ConnOpen == closePc \notin {"waiting", "returned"}

\* WriteToUDP, whose error nobody looks at.
Send(datagrams) == air' = IF ConnOpen THEN air \cup datagrams ELSE air

\* sendOffer leaves the option out when there is no IP, and the peer then falls
\* back to the source of the datagram; the answer to a Find has an option always.
Offered(o) == [of |-> o, at |-> IF o \in Addressed THEN "option" ELSE "source"]
Answered(o) == [of |-> o, at |-> IF o \in Addressed THEN "option" ELSE "zero"]

OfferGoto(o, from, to) == offerPc[o] = from /\ offerPc' = [offerPc EXCEPT ![o] = to]

(***************************************************************************)
(* Offer.  On a closed daemon it returns at once.                          *)
(***************************************************************************)
OfferEnter(o) ==
    /\ ~Closed /\ OfferGoto(o, "idle", "entered")
    /\ UNCHANGED <<offers, done, dead, tickerVars, closeVars, reqVars, air, services>>

OfferSend(o) ==
    /\ OfferGoto(o, "entered", "announced")
    /\ Send({Offered(o)})
    /\ UNCHANGED <<offers, done, dead, tickerVars, closeVars, reqVars, services>>

\* Mutation: the record that is replaced keeps its ticker.
NothingReplaced(o) == {}

\* The record that Offer finds under its key.
Replaced(o) == {offers[KeyOf[o]]} \ {None}

\* Mutation: the ticker of the old record is not stopped.
NoTicker(recs) == {}

\* ticker.Stop of each of them: a tick that waits in its channel stays there.
Stopped(recs) == recs

\* Under d.mu; a done channel that is closed already panics.
OfferStore(o) == LET old == Replaced(o) IN
    /\ OfferGoto(o, "announced", "stored")
    /\ offers' = [offers EXCEPT ![KeyOf[o]] = o]
    /\ done' = done \cup old
    /\ dead' = IF old \cap done # {} THEN "panic" ELSE dead
    /\ ticking' = (ticking \ Stopped(old)) \cup {o}
    /\ UNCHANGED <<tick, goPc, late, closeVars, reqVars, air, services>>

OfferGo(o) ==
    /\ OfferGoto(o, "stored", "returned")
    /\ goPc' = [goPc EXCEPT ![o] = "select"]
    /\ UNCHANGED <<offers, done, dead, ticking, tick, late, closeVars, reqVars, air, services>>

(***************************************************************************)
(* The ticker goroutine; the select takes either channel that is ready.    *)
(***************************************************************************)
\* Mutation: the goroutine does not look at the closed flag.
TickAnyway == "sending"

AfterTick == IF Closed THEN "exited" ELSE "sending"

TakeTick(o) ==
    /\ goPc[o] = "select" /\ o \in tick
    /\ tick' = tick \ {o}
    /\ goPc' = [goPc EXCEPT ![o] = AfterTick]
    /\ UNCHANGED <<offerVars, ticking, late, closeVars, reqVars, air, services>>

SendTick(o) ==
    /\ goPc[o] = "sending"
    /\ goPc' = [goPc EXCEPT ![o] = "select"]
    /\ late' = [late EXCEPT ![o] = IF o \in done /\ @ < MaxLate THEN @ + 1 ELSE @]
    /\ Send({Offered(o)})
    /\ UNCHANGED <<offerVars, ticking, tick, closeVars, reqVars, services>>

TakeDone(o) ==
    /\ goPc[o] = "select" /\ o \in done
    /\ goPc' = [goPc EXCEPT ![o] = "exited"]
    /\ UNCHANGED <<offerVars, ticking, tick, late, closeVars, reqVars, air, services>>

(***************************************************************************)
(* Close.  The records stay in d.offers.                                   *)
(***************************************************************************)
CloseGoto(from, to) == closePc = from /\ closePc' = to

CloseSwap ==
    /\ CloseGoto("open", "swapped")
    /\ UNCHANGED <<offerVars, tickerVars, reading, reqVars, air, services>>

Registered == {offers[k] : k \in Keys} \ {None}

CloseStop ==
    /\ CloseGoto("swapped", "stopped")
    /\ ticking' = ticking \ Stopped(Registered)
    /\ done' = done \cup Registered
    /\ dead' = IF Registered \cap done # {} THEN "panic" ELSE dead
    /\ Send([of : Registered, at : {"stop"}])
    /\ UNCHANGED <<offerPc, offers, tick, goPc, late, reading, reqVars, services>>

CloseConn ==
    /\ CloseGoto("stopped", "waiting")
    /\ UNCHANGED <<offerVars, tickerVars, reading, reqVars, air, services>>

\* wg.Wait: the read loop and the ticker goroutines that have been started.
CloseReturn ==
    /\ CloseGoto("waiting", "returned")
    /\ ~reading /\ \A o \in Offers : goPc[o] \in {"none", "exited"}
    /\ UNCHANGED <<offerVars, tickerVars, reading, reqVars, air, services>>

(***************************************************************************)
(* Requests of the peer: readLoop starts a goroutine for each, which       *)
(* neither looks at the closed flag nor is waited for.                     *)
(***************************************************************************)
CanRead == reading /\ ConnOpen

\* Find or SubscribeEventgroup has written the datagram, and it got through.
Read(r, request) ==
    /\ CanRead /\ reqPc[r] = "idle"
    /\ reqPc' = [reqPc EXCEPT ![r] = request]
    /\ UNCHANGED <<offerVars, tickerVars, closeVars, replies, air, services>>

ReadFails ==
    /\ reading /\ ~ConnOpen
    /\ reading' = FALSE
    /\ UNCHANGED <<offerVars, tickerVars, closePc, reqVars, air, services>>

\* handleEntry of a FindService: the matching records, under the read lock ...
HandleFind(r, sid) ==
    /\ reqPc[r] = "find" /\ reqPc' = [reqPc EXCEPT ![r] = "replying"]
    /\ replies' = [replies EXCEPT ![r] = {o \in Registered : Asks(sid, KeyOf[o])}]
    /\ UNCHANGED <<offerVars, tickerVars, closeVars, air, services>>

\* ... and an answer for each of them, without it.
Reply(r, o) ==
    /\ o \in replies[r]
    /\ replies' = [replies EXCEPT ![r] = @ \ {o}]
    /\ Send({Answered(o)})
    /\ UNCHANGED <<offerVars, tickerVars, closeVars, reqPc, services>>

\* handleEntry of a SubscribeEventgroup: OnSubscribe and the Ack, whether or not
\* the daemon offers the service.
HandleSubscribe(r) ==
    /\ reqPc[r] = "subscribe" /\ reqPc' = [reqPc EXCEPT ![r] = "replying"]
    /\ UNCHANGED <<offerVars, tickerVars, closeVars, replies, air, services>>

(***************************************************************************)
(* The process ends without a Close, and its memory is gone: nothing tells *)
(* the peer.                                                               *)
(***************************************************************************)
Boot == /\ offerPc' = [o \in Offers |-> "idle"] /\ offers' = [k \in Keys |-> None]
        /\ done' = {} /\ ticking' = {} /\ tick' = {} /\ goPc' = [o \in Offers |-> "none"]
        /\ closePc' = "open" /\ reading' = TRUE
        /\ reqPc' = [r \in Requests |-> "idle"] /\ replies' = [r \in Requests |-> {}]
        /\ late' = [o \in Offers |-> 0]

Kill ==
    /\ Boot /\ dead' = "killed"
    /\ UNCHANGED <<air, services>>

(***************************************************************************)
(* The network, the peer's handleEntry, and the clock.                     *)
(***************************************************************************)
Lose(d) ==
    /\ air' = air \ {d}
    /\ UNCHANGED <<offerVars, tickerVars, closeVars, reqVars, services>>

\* handleEntry of an OfferService, in a goroutine of the peer.
Applied(d) == Stored(services, KeyOf[d.of], IF d.at = "stop" THEN 0 ELSE TTL, d)

Deliver(d) ==
    /\ air' = air \ {d}
    /\ services' = Applied(d)
    /\ UNCHANGED <<offerVars, tickerVars, closeVars, reqVars>>

\* A tick is dropped when the one before has not been taken.
Second ==
    /\ services' = Aged(services)
    /\ tick' = tick \cup ticking
    /\ UNCHANGED <<offerVars, ticking, goPc, late, closeVars, reqVars, air>>

-----------------------------------------------------------------------------
OfferStep(o) == OfferSend(o) \/ OfferStore(o) \/ OfferGo(o)
TickerStep(o) == TakeTick(o) \/ SendTick(o) \/ TakeDone(o)
CloseStep == CloseStop \/ CloseConn \/ CloseReturn
HandlerStep(r) == \/ HandleSubscribe(r)
                  \/ \E sid \in {ServiceOf[k] : k \in Keys} \cup {Any} : HandleFind(r, sid)
                  \/ \E o \in Offers : Reply(r, o)

Daemon == \/ \E o \in Offers : OfferEnter(o) \/ OfferStep(o) \/ TickerStep(o)
          \/ CloseSwap \/ CloseStep \/ ReadFails \/ Kill
          \/ \E r \in Requests : HandlerStep(r) \/ \E q \in {"find", "subscribe"} : Read(r, q)

World == Second \/ \E d \in air : Lose(d) \/ Deliver(d)

Alive == dead = "no"

Next == (Alive /\ Daemon) \/ World

Spec == Init /\ [][Next]_vars

\* Goroutines run, time passes, datagrams do not stay on the way, and an Offer
\* that is sent again and again arrives at last.  Nobody has to call.
Fairness ==
    /\ \A o \in Offers : WF_vars(Alive /\ (OfferStep(o) \/ TickerStep(o)))
    /\ WF_vars(Alive /\ (CloseStep \/ ReadFails))
    /\ \A r \in Requests : WF_vars(Alive /\ HandlerStep(r))
    /\ WF_vars(Second)
    /\ WF_vars(\E d \in air : Deliver(d) \/ Lose(d))
    /\ \A o \in Offers : SF_vars(\E d \in {Offered(o), Answered(o)} \cap air : Deliver(d))

FairSpec == Spec /\ Fairness
-----------------------------------------------------------------------------
\* Until Close stops them all, the records of a key whose done is open are the
\* one in d.offers: however Offers race, one ticker goroutine announces a key,
\* and every other has been told to end (Offer, REQ-SDUDP-006).
OneAnnouncer == closePc \in {"open", "swapped"} =>
    \A o \in Offers : offerPc[o] \in {"stored", "returned"} =>
        (o \notin done <=> offers[KeyOf[o]] = o)

\* A record that was replaced or closed is announced twice more at most: by the
\* goroutine that is about to send, and for a tick that waits in the channel.
StaleBound == \A o \in Offers : late[o] <= 2

\* However Offers of one key race, the peer ends up with the one that the daemon
\* holds, and has none but that while it is offered: announcements that were under
\* way or answers to a Find may bring back an older one, but not for ever. (The
\* record may have expired until the next announcement arrives.)
NewestWins == <>[](Alive /\ ~Closed =>
    \A k \in Keys : offers[k] # None => services[k] # None /\ services[k].val.of = offers[k])

\* Once Close has returned, or the daemon has died without it, its services
\* disappear from what the peer's Find returns and do not come back, although
\* the StopOffer may be lost or overtaken by an Offer (REQ-SDUDP-008).
ClosedForgotten == <>[](closePc = "returned" \/ ~Alive => Found(services, Any, 0) = {})

\* Close returns: readLoop and the ticker goroutines end, also those of an
\* Offer that had passed the closed check.
CloseReturns == <>[](Closed => closePc = "returned" \/ ~Alive)

\* How the records, their tickers and their goroutines belong together.
Held ==
    /\ \A k \in Keys : offers[k] # None =>
           KeyOf[offers[k]] = k /\ offerPc[offers[k]] \in {"stored", "returned"}
    /\ \A o \in Offers : goPc[o] # "none" => offerPc[o] = "returned"
    /\ \A o \in done \cup ticking \cup tick : offerPc[o] \in {"stored", "returned"}
    /\ ticking \cap done = {}

\* The announcements of a finished record: those made and those to come.
StaleCount == \A o \in Offers :
    IF o \in done
    THEN late[o] + (IF o \in tick THEN 1 ELSE 0) + (IF goPc[o] = "sending" THEN 1 ELSE 0) <= 2
    ELSE late[o] = 0

\* Only after Close has stopped the tickers can Offer find a closed done.
PanicLate == dead = "panic" => closePc \notin {"open", "swapped"}

IInv == TypeOK /\ Held /\ OneAnnouncer /\ StaleCount /\ PanicLate

\* A Daemon is safe for concurrent use (src/sd/udp/sdudp.go:202): Offer and
\* Close do not both close the done channel of a record.
NoPanic == dead # "panic"

\* When Close has returned, a StopOffer was sent for every record
\* (src/sd/udp/sdudp.go:260).
AllStopped == closePc = "returned" => Registered \subseteq done

\* A record that is replaced is stopped first (REQ-SDUDP-006).
ReplacedIsStopped == [][\A o \in done' \ done : [of |-> o, at |-> "stop"] \in air']_vars

\* The peer finds the service where the offer says, or else at the source of
\* the datagram (src/sd/udp/sdudp.go:419).
Reachable == \A k \in Keys : services[k] # None => services[k].val.at # "zero"
=============================================================================
