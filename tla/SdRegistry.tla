----------------------------- MODULE SdRegistry -----------------------------
(***************************************************************************)
(* sd.Registry (src/sd/sd.go) on its own: Offers of any TTL come in from   *)
(* handler goroutines while the application calls Find, which reads the    *)
(* clock and only then waits for the lock.                                 *)
(***************************************************************************)
EXTENDS SdRecords

CONSTANTS
    Values,     \* what an offer may carry
    Finds,      \* the Find calls
    WantOf      \* the ServiceID each asks for

ASSUME RegistryAssumption == None \notin Record(Values)

VARIABLES
    findPc,    \* where each Find is
    ago,       \* the age of its clock reading
    answer,    \* the keys it returns
    ever,      \* history: the keys that were offered at some moment of the call
    always     \* history: the keys that were offered at every moment of it

findVars == <<findPc, ago, answer, ever, always>>
registryVars == <<services, findVars>>

RegistryType ==
    /\ services \in [Keys -> Record(Values) \cup {None}]
    /\ findPc \in [Finds -> {"idle", "clocked", "returned"}]
    /\ ago \in [Finds -> 0..MaxAgo]
    /\ answer \in [Finds -> SUBSET Keys]
    /\ ever \in [Finds -> SUBSET Keys] /\ always \in [Finds -> SUBSET Keys]

RegistryInit ==
    /\ services = [k \in Keys |-> None]
    /\ findPc = [f \in Finds |-> "idle"]
    /\ ago = [f \in Finds |-> 0]
    /\ answer = [f \in Finds |-> {}]
    /\ ever = [f \in Finds |-> {}] /\ always = [f \in Finds |-> {}]

-----------------------------------------------------------------------------
\* The keys on offer: there is a record and its time is not in the past.
Live(recs) == {k \in Keys : recs[k] # None /\ recs[k].left >= 0}

Witness == /\ ever' = [f \in Finds |-> IF findPc[f] = "clocked" THEN ever[f] \cup Live(services') ELSE ever[f]]
           /\ always' = [f \in Finds |-> IF findPc[f] = "clocked" THEN always[f] \cap Live(services') ELSE always[f]]

Offer(k, ttl, endpoint) ==
    /\ services' = Stored(services, k, ttl, endpoint)
    /\ Witness
    /\ UNCHANGED <<findPc, ago, answer>>

\* A second passes.
RegistrySecond ==
    /\ \A f \in Finds : findPc[f] = "clocked" => ago[f] < MaxAgo
    /\ services' = Aged(services)
    /\ ago' = [f \in Finds |-> IF findPc[f] = "clocked" THEN ago[f] + 1 ELSE ago[f]]
    /\ Witness
    /\ UNCHANGED <<findPc, answer>>

FindClock(f) ==
    /\ findPc[f] = "idle"
    /\ findPc' = [findPc EXCEPT ![f] = "clocked"]
    /\ ever' = [ever EXCEPT ![f] = Live(services)]
    /\ always' = [always EXCEPT ![f] = Live(services)]
    /\ UNCHANGED <<services, ago, answer>>

FindAnswer(f) ==
    /\ findPc[f] = "clocked"
    /\ findPc' = [findPc EXCEPT ![f] = "returned"]
    /\ answer' = [answer EXCEPT ![f] = Found(services, WantOf[f], ago[f])]
    /\ UNCHANGED <<services, ago, ever, always>>

RegistryNext == \/ \E k \in Keys, ttl \in 0..MaxTTL, e \in Values : Offer(k, ttl, e)
                \/ RegistrySecond
                \/ \E f \in Finds : FindClock(f) \/ FindAnswer(f)

RegistrySpec == RegistryInit /\ [][RegistryNext]_registryVars
-----------------------------------------------------------------------------
\* Find agrees with a moment of its call, for every service by itself, although
\* its clock is older than its lock: it returns each service that was on offer
\* throughout, and none that was on offer at no moment (REQ-SD-007).
FindExact == \A f \in Finds : findPc[f] = "returned" =>
                 /\ answer[f] \subseteq ever[f]
                 /\ \A k \in always[f] : Asks(WantOf[f], k) => k \in answer[f]

\* What a Find that holds a clock reading will make of the records.
Pending == \A f \in Finds :
    /\ findPc[f] = "idle" => ago[f] = 0
    /\ findPc[f] = "clocked" =>
           /\ always[f] \subseteq Live(services)
           /\ \A k \in Keys : services[k] # None /\ ~Expired(services[k], ago[f]) => k \in ever[f]

RegistryInv == RegistryType /\ Pending /\ FindExact
=============================================================================
