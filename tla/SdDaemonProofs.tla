--------------------------- MODULE SdDaemonProofs ---------------------------
(***************************************************************************)
(* sdudp.Daemon, for any number of Offers, keys, requests and datagrams;   *)
(* and sd.Registry on its own, for any number of keys and Finds.           *)
(***************************************************************************)
EXTENDS SdDaemon, SdRegistry, TLAPS

(* The daemon *)

LEMMA IInvInit == Init => IInv
  BY DaemonAssumption, RecordsAssumption
     DEF Init, IInv, TypeOK, Held, OneAnnouncer, StaleCount, PanicLate, MaxLate, Record, Floor

\* What a daemon sends is a datagram of the model.
LEMMA SendType ==
  ASSUME TypeOK, NEW ds \in SUBSET Datagrams, Send(ds) PROVE air' \subseteq Datagrams
  BY DEF TypeOK, Send

LEMMA OffersAreDatagrams ==
  ASSUME NEW o \in Offers PROVE {Offered(o)} \subseteq Datagrams /\ {Answered(o)} \subseteq Datagrams
  BY DEF Offered, Answered, Datagrams, Endpoints

\* OfferStore closes the done of the record it replaces and of no other.
LEMMA OfferInv == ASSUME IInv, Alive, NEW o \in Offers, OfferEnter(o) \/ OfferStep(o) PROVE IInv'
<1> USE DEF IInv, OfferGoto
<1>1. CASE OfferEnter(o)
  BY <1>1 DEF OfferEnter, TypeOK, Held, OneAnnouncer, StaleCount, PanicLate, tickerVars, closeVars, reqVars
<1>2. CASE OfferSend(o)
  <2>1. air' \subseteq Datagrams
    BY <1>2, SendType, OffersAreDatagrams DEF OfferSend
  <2> QED BY <1>2, <2>1
    DEF OfferSend, TypeOK, Held, OneAnnouncer, StaleCount, PanicLate, tickerVars, closeVars, reqVars
<1>3. CASE OfferStore(o)
  <2> DEFINE old == Replaced(o)
  <2>1. /\ offerPc[o] = "announced" /\ offerPc' = [offerPc EXCEPT ![o] = "stored"]
        /\ offers' = [offers EXCEPT ![KeyOf[o]] = o]
        /\ done' = done \cup old
        /\ ticking' = (ticking \ old) \cup {o}
        /\ dead' = IF old \cap done # {} THEN "panic" ELSE dead
        /\ UNCHANGED <<tick, goPc, late, closePc, reading, reqPc, replies, air, services>>
    BY <1>3 DEF OfferStore, Stopped, closeVars, reqVars
  <2>2. /\ old \subseteq Offers \ {o}
        /\ \A p \in old : KeyOf[p] = KeyOf[o] /\ offers[KeyOf[o]] = p /\ offerPc[p] \in {"stored", "returned"}
    <3> SUFFICES ASSUME NEW p \in old
                 PROVE  /\ p \in Offers \ {o} /\ KeyOf[p] = KeyOf[o] /\ offers[KeyOf[o]] = p
                        /\ offerPc[p] \in {"stored", "returned"}
      OBVIOUS
    <3>1. KeyOf[o] \in Keys /\ p = offers[KeyOf[o]] /\ p # None
      BY DaemonAssumption DEF Replaced
    <3>2. KeyOf[p] = KeyOf[o] /\ offerPc[p] \in {"stored", "returned"}
      BY <3>1 DEF Held
    <3>3. p \in Offers
      BY <3>1 DEF TypeOK
    <3> QED BY <2>1, <3>1, <3>2, <3>3
  <2>3. o \notin done /\ o \notin tick /\ goPc[o] = "none"
    BY <2>1 DEF Held, TypeOK
  <2>4. TypeOK'
    BY <2>1, <2>2, DaemonAssumption DEF TypeOK
  <2>5. Held'
    <3>1. ASSUME NEW k \in Keys, offers'[k] # None
          PROVE  KeyOf[offers'[k]] = k /\ offerPc'[offers'[k]] \in {"stored", "returned"}
      <4>1. CASE k = KeyOf[o]
        BY <3>1, <4>1, <2>1 DEF TypeOK
      <4>2. CASE k # KeyOf[o]
        <5>1. offers'[k] = offers[k] /\ offers[k] \in Offers
          BY <3>1, <4>2, <2>1 DEF TypeOK
        <5> QED BY <3>1, <5>1, <2>1 DEF Held, TypeOK
      <4> QED BY <4>1, <4>2
    <3>2. \A p \in Offers : goPc[p] # "none" => offerPc'[p] = "returned"
      BY <2>1, <2>3 DEF Held, TypeOK
    <3>3. ASSUME NEW p \in done' \cup ticking' \cup tick PROVE offerPc'[p] \in {"stored", "returned"}
      <4>1. p \in Offers /\ (p = o \/ offerPc[p] \in {"stored", "returned"})
        BY <3>3, <2>1, <2>2 DEF Held, TypeOK
      <4> QED BY <4>1, <2>1 DEF TypeOK
    <3>4. ticking' \cap done' = {}
      BY <2>1, <2>2, <2>3 DEF Held
    <3> QED BY <2>1, <3>1, <3>2, <3>3, <3>4 DEF Held
  <2>6. OneAnnouncer'
    <3> SUFFICES ASSUME closePc \in {"open", "swapped"}, NEW p \in Offers, offerPc'[p] \in {"stored", "returned"}
                 PROVE  p \notin done' <=> offers'[KeyOf[p]] = p
      BY <2>1 DEF OneAnnouncer
    <3>1. CASE p = o
      BY <3>1, <2>1, <2>2, <2>3, DaemonAssumption DEF TypeOK
    <3>2. CASE p # o
      <4>1. p \notin done <=> offers[KeyOf[p]] = p
        BY <3>2, <2>1 DEF OneAnnouncer, TypeOK
      <4>2. CASE KeyOf[p] = KeyOf[o]
        BY <3>2, <4>1, <4>2, <2>1, DaemonAssumption DEF Replaced, TypeOK
      <4>3. CASE KeyOf[p] # KeyOf[o]
        BY <3>2, <4>1, <4>3, <2>1, <2>2, DaemonAssumption DEF TypeOK
      <4> QED BY <4>2, <4>3
    <3> QED BY <3>1, <3>2
  <2>7. StaleCount'
    BY <2>1, <2>2 DEF StaleCount, TypeOK
  <2>8. PanicLate'
    <3>1. closePc \in {"open", "swapped"} => old \cap done = {}
      BY <2>2 DEF OneAnnouncer
    <3> QED BY <2>1, <3>1 DEF PanicLate
  <2> QED BY <2>4, <2>5, <2>6, <2>7, <2>8
<1>4. CASE OfferGo(o)
  BY <1>4 DEF OfferGo, TypeOK, Held, OneAnnouncer, StaleCount, PanicLate, closeVars, reqVars
<1> QED BY <1>1, <1>2, <1>3, <1>4 DEF OfferStep

\* The goroutine takes a tick for each announcement that it has still to make.
LEMMA TickerInv == ASSUME IInv, Alive, NEW o \in Offers, TickerStep(o) PROVE IInv'
<1> USE DEF IInv
<1>1. CASE TakeTick(o)
  <2>1. /\ goPc[o] = "select" /\ o \in tick /\ tick' = tick \ {o}
        /\ goPc' = [goPc EXCEPT ![o] = AfterTick] /\ AfterTick \in {"sending", "exited"}
        /\ UNCHANGED <<offerPc, offers, done, dead, ticking, late, closePc, reading, reqPc, replies, air, services>>
    BY <1>1 DEF TakeTick, AfterTick, offerVars, closeVars, reqVars
  <2>2. TypeOK' /\ Held' /\ OneAnnouncer' /\ PanicLate'
    BY <2>1 DEF TypeOK, Held, OneAnnouncer, PanicLate
  <2>3. StaleCount'
    BY <2>1 DEF TypeOK, StaleCount, MaxLate
  <2> QED BY <2>2, <2>3
<1>2. CASE SendTick(o)
  <2>1. /\ goPc[o] = "sending" /\ goPc' = [goPc EXCEPT ![o] = "select"]
        /\ late' = [late EXCEPT ![o] = IF o \in done /\ late[o] < MaxLate THEN late[o] + 1 ELSE late[o]]
        /\ UNCHANGED <<offerPc, offers, done, dead, ticking, tick, closePc, reading, reqPc, replies, services>>
    BY <1>2 DEF SendTick, offerVars, closeVars, reqVars
  <2>2. air' \subseteq Datagrams
    BY <1>2, SendType, OffersAreDatagrams DEF SendTick
  <2>3. TypeOK'
    BY <2>1, <2>2 DEF TypeOK, MaxLate
  <2>4. Held' /\ OneAnnouncer' /\ PanicLate'
    BY <2>1 DEF TypeOK, Held, OneAnnouncer, PanicLate
  <2>5. StaleCount'
    BY <2>1 DEF TypeOK, StaleCount, MaxLate
  <2> QED BY <2>3, <2>4, <2>5
<1>3. CASE TakeDone(o)
  BY <1>3 DEF TakeDone, TypeOK, Held, OneAnnouncer, StaleCount, PanicLate, MaxLate, offerVars, closeVars, reqVars
<1> QED BY <1>1, <1>2, <1>3 DEF TickerStep

\* Close finds every done of d.offers open, and closes it.
LEMMA CloseInv == ASSUME IInv, Alive, CloseSwap \/ CloseStep \/ ReadFails PROVE IInv'
<1> USE DEF IInv, CloseGoto
<1>1. CASE CloseSwap
  BY <1>1 DEF CloseSwap, TypeOK, Held, OneAnnouncer, StaleCount, PanicLate, offerVars, tickerVars, reqVars
<1>3. CASE CloseConn \/ CloseReturn \/ ReadFails
  <2>1. /\ closePc' \in {closePc, "waiting", "returned"} /\ reading' \in {reading, FALSE}
        /\ closePc' = closePc \/ closePc \in {"stopped", "waiting"}
        /\ UNCHANGED <<offerPc, offers, done, dead, ticking, tick, goPc, late, reqPc, replies, air, services>>
    BY <1>3 DEF CloseConn, CloseReturn, ReadFails, offerVars, tickerVars, reqVars
  <2> QED BY <2>1 DEF TypeOK, Held, OneAnnouncer, StaleCount, PanicLate, Alive
<1>2. CASE CloseStop
  <2>1. Registered \subseteq Offers /\ \A p \in Registered : offerPc[p] \in {"stored", "returned"}
    BY DEF Registered, TypeOK, Held
  <2>2. /\ closePc = "swapped" /\ closePc' = "stopped"
        /\ ticking' = ticking \ Registered /\ done' = done \cup Registered
        /\ UNCHANGED <<offerPc, offers, tick, goPc, late, reading, reqPc, replies, services>>
        /\ dead' \in {"panic", dead}
    BY <1>2 DEF CloseStop, Stopped, reqVars
  <2>3. [of : Registered, at : {"stop"}] \subseteq Datagrams
    BY <2>1 DEF Datagrams
  <2>4. air' \subseteq Datagrams
    BY <1>2, <2>3, SendType DEF CloseStop
  <2>5. TypeOK' /\ Held'
    BY <2>1, <2>2, <2>4 DEF TypeOK, Held
  <2>6. StaleCount'
    BY <2>1, <2>2 DEF StaleCount, TypeOK
  <2> QED BY <2>2, <2>5, <2>6 DEF OneAnnouncer, PanicLate
<1> QED BY <1>1, <1>2, <1>3 DEF CloseStep

\* Requests touch the network alone.
LEMMA HandlerInv ==
  ASSUME IInv, NEW r \in Requests,
         HandlerStep(r) \/ \E q \in {"find", "subscribe"} : Read(r, q)
  PROVE  IInv'
<1> USE DEF IInv
<1>1. CASE \E o \in Offers : Reply(r, o)
  <2>1. PICK o \in Offers : Reply(r, o)
    BY <1>1
  <2>2. air' \subseteq Datagrams
    BY <2>1, SendType, OffersAreDatagrams DEF Reply
  <2> QED BY <2>1, <2>2 DEF Reply, TypeOK, Held, OneAnnouncer, StaleCount, PanicLate, offerVars, tickerVars, closeVars
<1>2. CASE HandleSubscribe(r)
  BY <1>2 DEF HandleSubscribe, TypeOK, Held, OneAnnouncer, StaleCount, PanicLate, offerVars, tickerVars, closeVars
<1>4. ASSUME NEW q \in {"find", "subscribe"}, Read(r, q) PROVE IInv'
  BY <1>4 DEF Read, TypeOK, Held, OneAnnouncer, StaleCount, PanicLate, offerVars, tickerVars, closeVars
<1>3. CASE \E sid \in {ServiceOf[k] : k \in Keys} \cup {Any} : HandleFind(r, sid)
  <2>1. Registered \subseteq Offers
    BY DEF Registered, TypeOK
  <2> QED BY <1>3, <2>1 DEF HandleFind, TypeOK, Held, OneAnnouncer, StaleCount, PanicLate, offerVars, tickerVars, closeVars
<1> QED BY <1>1, <1>2, <1>3, <1>4 DEF HandlerStep

LEMMA KillInv == ASSUME Kill, IInv PROVE IInv'
  BY DaemonAssumption
     DEF Kill, Boot, IInv, TypeOK, Held, OneAnnouncer, StaleCount, PanicLate, MaxLate

\* A second adds no tick to a ticker that has been stopped.
LEMMA WorldInv == ASSUME IInv, World PROVE IInv'
<1> USE DEF IInv
<1>1. CASE Second
  <2>1. services' \in [Keys -> Record(Endpoints) \cup {None}]
    <3>1. services \in [Keys -> Record(Endpoints) \cup {None}]
      BY DEF TypeOK
    <3>2. Aged(services) \in [Keys -> Record(Endpoints) \cup {None}]
      BY <3>1, RecordsAssumption, EndpointsAssumption DEF Aged, Record, Floor
    <3> QED BY <1>1, <3>2 DEF Second
  <2>2. /\ tick' = tick \cup ticking
        /\ UNCHANGED <<offerPc, offers, done, dead, ticking, goPc, late, closePc, reading, reqPc, replies, air>>
    BY <1>1 DEF Second, offerVars, closeVars, reqVars
  <2> QED BY <2>1, <2>2 DEF TypeOK, Held, OneAnnouncer, StaleCount, PanicLate
<1>2. ASSUME NEW d \in air, Lose(d) PROVE IInv'
  BY <1>2 DEF Lose, TypeOK, Held, OneAnnouncer, StaleCount, PanicLate, offerVars, tickerVars, closeVars, reqVars
<1>3. ASSUME NEW d \in air, Deliver(d) PROVE IInv'
  <2> DEFINE ttl == IF d.at = "stop" THEN 0 ELSE TTL
  <2>1. d \in Endpoints \/ ttl = 0
    BY <1>3 DEF TypeOK, Datagrams
  <2>2. services' \in [Keys -> Record(Endpoints) \cup {None}]
    <3>1. services \in [Keys -> Record(Endpoints) \cup {None}]
      BY DEF TypeOK
    <3>2. services' = Stored(services, KeyOf[d.of], ttl, d)
      BY <1>3 DEF Deliver, Applied
    <3>3. CASE ttl = 0
      BY <3>1, <3>2, <3>3 DEF Stored
    <3>4. CASE d \in Endpoints /\ ttl = TTL /\ TTL # 0
      <4>1. services' = [services EXCEPT ![KeyOf[d.of]] = [val |-> d, left |-> TTL]]
        BY <3>2, <3>4 DEF Stored
      <4>2. TTL \in Floor..MaxTTL
        BY RecordsAssumption, DaemonAssumption DEF Floor
      <4>3. [val |-> d, left |-> TTL] \in Record(Endpoints)
        BY <3>4, <4>2 DEF Record
      <4> QED BY <3>1, <4>1, <4>3
    <3> QED BY <2>1, <3>3, <3>4, DaemonAssumption
  <2> QED BY <1>3, <2>2
    DEF Deliver, TypeOK, Held, OneAnnouncer, StaleCount, PanicLate, offerVars, tickerVars, closeVars, reqVars
<1> QED BY <1>1, <1>2, <1>3 DEF World

\* The inductive invariant: what Offer, Close and the ticker goroutines know of
\* a record agrees, whoever takes d.mu first.
THEOREM Inductive == Spec => []IInv
<1>1. IInv /\ [Next]_vars => IInv'
  <2> SUFFICES ASSUME IInv, [Next]_vars PROVE IInv'
    OBVIOUS
  <2>1. CASE Alive /\ Daemon
    BY <2>1, OfferInv, TickerInv, CloseInv, HandlerInv, KillInv DEF Daemon
  <2>2. CASE World
    BY <2>2, WorldInv
  <2>3. CASE UNCHANGED vars
    BY <2>3 DEF vars, offerVars, tickerVars, closeVars, reqVars, IInv, TypeOK, Held, OneAnnouncer, StaleCount, PanicLate
  <2> QED BY <2>1, <2>2, <2>3 DEF Next
<1> QED BY <1>1, IInvInit, PTL DEF Spec

\* However Offers of one key race, one ticker goroutine announces it (Offer).
THEOREM OneAnnouncerHolds == Spec => []OneAnnouncer
  BY Inductive, PTL DEF IInv

\* A finished record is announced twice more at most (the goroutine of Offer).
THEOREM StaleBoundHolds == Spec => []StaleBound
<1>1. IInv => StaleBound
  BY DEF IInv, StaleCount, StaleBound, TypeOK, MaxLate
<1> QED BY <1>1, Inductive, PTL

-----------------------------------------------------------------------------
(* The registry *)

\* A second takes one from what is left, down to the floor.
LEMMA RegistryAgedType ==
    ASSUME NEW recs \in [Keys -> Record(Values) \cup {None}]
    PROVE  /\ Aged(recs) \in [Keys -> Record(Values) \cup {None}]
           /\ \A k \in Keys : (Aged(recs)[k] = None) = (recs[k] = None)
           /\ \A k \in Keys : recs[k] # None =>
                  Aged(recs)[k].left = IF recs[k].left = Floor THEN Floor ELSE recs[k].left - 1
  BY RecordsAssumption, RegistryAssumption DEF Aged, Record, Floor

LEMMA RegistryIInvInit == RegistryInit => RegistryInv
  BY RecordsAssumption DEF RegistryInit, RegistryInv, RegistryType, Pending, FindExact

\* An Offer gives a pending Find at least one whole second of the new record;
\* a StopOffer takes the service out of what it must return.
LEMMA RegistryOfferInv ==
  ASSUME RegistryInv, NEW k \in Keys, NEW ttl \in 0..MaxTTL, NEW e \in Values, Offer(k, ttl, e)
  PROVE  RegistryInv'
<1> USE DEF RegistryInv
<1>1. services' = Stored(services, k, ttl, e) /\ Witness /\ UNCHANGED <<findPc, ago, answer>>
  BY DEF Offer
<1>2. /\ services' \in [Keys -> Record(Values) \cup {None}]
      /\ \A j \in Keys : j # k => services'[j] = services[j]
      /\ ttl = 0 => services'[k] = None
      /\ ttl # 0 => services'[k].left = ttl
  <2>1. services \in [Keys -> Record(Values) \cup {None}]
    BY DEF RegistryType
  <2>2. /\ Stored(services, k, ttl, e) \in [Keys -> Record(Values) \cup {None}]
        /\ \A j \in Keys : j # k => Stored(services, k, ttl, e)[j] = services[j]
        /\ ttl = 0 => Stored(services, k, ttl, e)[k] = None
        /\ ttl # 0 => Stored(services, k, ttl, e)[k] = [val |-> e, left |-> ttl]
    BY <2>1, RecordsAssumption DEF Stored, Record, Floor
  <2> QED BY <1>1, <2>2
<1>3. RegistryType'
  BY <1>1, <1>2 DEF RegistryType, Witness, Live
<1>4. Pending'
  <2> SUFFICES ASSUME NEW f \in Finds, findPc[f] = "clocked"
               PROVE  /\ always'[f] \subseteq Live(services')
                      /\ \A j \in Keys : services'[j] # None /\ ~Expired(services'[j], ago[f]) => j \in ever'[f]
    BY <1>1 DEF Pending
  <2>1. ever'[f] = ever[f] \cup Live(services') /\ always'[f] = always[f] \cap Live(services')
    BY <1>1 DEF Witness, RegistryType
  <2>2. ASSUME NEW j \in Keys, services'[j] # None, ~Expired(services'[j], ago[f]) PROVE j \in ever'[f]
    <3>1. CASE j # k
      BY <3>1, <2>1, <2>2, <1>2 DEF Pending
    <3>2. CASE j = k
      BY <3>2, <2>1, <2>2, <1>2, RecordsAssumption DEF Live
    <3> QED BY <3>1, <3>2
  <2> QED BY <2>1, <2>2
<1>5. FindExact'
  BY <1>1 DEF FindExact, RegistryType, Witness
<1> QED BY <1>3, <1>4, <1>5

\* A second takes from the record what it adds to the age of the clock reading.
LEMMA RegistrySecondInv == ASSUME RegistryInv, RegistrySecond PROVE RegistryInv'
<1> USE DEF RegistryInv
<1>1. services' = Aged(services) /\ Witness /\ UNCHANGED <<findPc, answer>>
  BY DEF RegistrySecond
<1>2. /\ services' \in [Keys -> Record(Values) \cup {None}]
      /\ \A k \in Keys : (services'[k] = None) = (services[k] = None)
      /\ \A k \in Keys : services[k] # None =>
             services'[k].left = IF services[k].left = Floor THEN Floor ELSE services[k].left - 1
  BY <1>1, RegistryAgedType DEF RegistryType
<1>3. \A f \in Finds : /\ ago'[f] \in 0..MaxAgo
                       /\ ago'[f] = IF findPc[f] = "clocked" THEN ago[f] + 1 ELSE ago[f]
  BY RecordsAssumption DEF RegistrySecond, RegistryType
<1>4. RegistryType'
  <2>1. ago' \in [Finds -> 0..MaxAgo]
    BY <1>3 DEF RegistrySecond
  <2> QED BY <1>1, <1>2, <2>1 DEF RegistryType, Witness, Live
<1>5. Pending'
  <2> SUFFICES ASSUME NEW f \in Finds, findPc[f] = "clocked"
               PROVE  /\ always'[f] \subseteq Live(services')
                      /\ \A k \in Keys : services'[k] # None /\ ~Expired(services'[k], ago'[f]) => k \in ever'[f]
    BY <1>1, <1>3 DEF Pending
  <2>1. ever'[f] = ever[f] \cup Live(services') /\ always'[f] = always[f] \cap Live(services')
    BY <1>1 DEF Witness, RegistryType
  <2>2. ASSUME NEW k \in Keys, services'[k] # None, ~Expired(services'[k], ago'[f]) PROVE k \in ever'[f]
    <3>1. services[k] # None /\ services[k] \in Record(Values)
      BY <1>2, <2>2 DEF RegistryType
    <3>2. services[k].left \in Floor..MaxTTL /\ ago[f] \in 0..MaxAgo
      BY <3>1 DEF Record, RegistryType
    <3>3. services'[k].left + ago'[f] >= 0 /\ services'[k].left \in Int
      BY <2>2, <1>2, <1>3, <3>1, <3>2, RecordsAssumption DEF Expired, Floor
    <3>4. ~(services[k].left + ago[f] < 0)
      BY <3>1, <3>2, <3>3, <1>2, <1>3, RecordsAssumption DEF Floor
    <3> QED BY <3>1, <3>4, <2>1 DEF Pending, Expired
  <2> QED BY <2>1, <2>2
<1>6. FindExact'
  BY <1>1 DEF FindExact, RegistryType, Witness
<1> QED BY <1>4, <1>5, <1>6

LEMMA RegistryFindClockInv == ASSUME RegistryInv, NEW f \in Finds, FindClock(f) PROVE RegistryInv'
<1> USE DEF RegistryInv
<1>1. RegistryType'
  BY DEF FindClock, RegistryType, Live
<1>2. Pending'
  <2>1. ago[f] = 0 /\ services' = services /\ ago' = ago /\ findPc'[f] = "clocked"
    BY DEF FindClock, Pending, RegistryType
  <2>2. ever'[f] = Live(services) /\ always'[f] = Live(services)
    BY DEF FindClock, RegistryType
  <2>3. ASSUME NEW k \in Keys, services[k] # None, ~Expired(services[k], 0) PROVE k \in Live(services)
    <3>1. services[k].left \in Floor..MaxTTL
      BY <2>3 DEF RegistryType, Record
    <3> QED BY <2>3, <3>1, RecordsAssumption DEF Live, Expired, Floor
  <2>4. \A g \in Finds : g # f => findPc'[g] = findPc[g] /\ ever'[g] = ever[g] /\ always'[g] = always[g]
    BY DEF FindClock, RegistryType
  <2> QED BY <2>1, <2>2, <2>3, <2>4 DEF Pending
<1>3. FindExact'
  BY DEF FindClock, RegistryType, FindExact
<1> QED BY <1>1, <1>2, <1>3

\* What Pending says is what the answer needs.
LEMMA RegistryFindAnswerInv == ASSUME RegistryInv, NEW f \in Finds, FindAnswer(f) PROVE RegistryInv'
<1> USE DEF RegistryInv
<1>1. RegistryType' /\ Pending'
  BY DEF FindAnswer, RegistryType, Pending, Found
<1>2. Found(services, WantOf[f], ago[f]) \subseteq ever[f]
  BY DEF FindAnswer, Pending, Found
<1>3. \A k \in always[f] : Asks(WantOf[f], k) => k \in Found(services, WantOf[f], ago[f])
  <2> SUFFICES ASSUME NEW k \in always[f], Asks(WantOf[f], k)
               PROVE  k \in Keys /\ services[k] # None /\ ~Expired(services[k], ago[f])
    BY DEF Found
  <2>1. k \in Keys /\ services[k] # None /\ services[k].left >= 0
    BY DEF FindAnswer, Pending, Live
  <2>2. services[k].left \in Floor..MaxTTL /\ ago[f] \in 0..MaxAgo
    BY <2>1 DEF RegistryType, Record
  <2> QED BY <2>1, <2>2, RecordsAssumption DEF Expired, Floor
<1>4. FindExact'
  BY <1>2, <1>3 DEF FindAnswer, RegistryType, FindExact
<1> QED BY <1>1, <1>4

\* The inductive invariant: what a pending Find will return is decided by the
\* records and the age of its clock reading together (Registry.Find, Offer).
THEOREM RegistryInductive == RegistrySpec => []RegistryInv
<1>1. RegistryInv /\ [RegistryNext]_registryVars => RegistryInv'
  <2> SUFFICES ASSUME RegistryInv, [RegistryNext]_registryVars PROVE RegistryInv'
    OBVIOUS
  <2>1. CASE RegistryNext
    BY <2>1, RegistryOfferInv, RegistrySecondInv, RegistryFindClockInv, RegistryFindAnswerInv DEF RegistryNext
  <2>2. CASE UNCHANGED registryVars
    BY <2>2 DEF registryVars, findVars, RegistryInv, RegistryType, Pending, FindExact, Live
  <2> QED BY <2>1, <2>2
<1> QED BY <1>1, RegistryIInvInit, PTL DEF RegistrySpec

\* Find never returns a service that had expired before it was called, and
\* never misses one that was on offer throughout (REQ-SD-007).
THEOREM FindExactHolds == RegistrySpec => []FindExact
  BY RegistryInductive, PTL DEF RegistryInv
=============================================================================
