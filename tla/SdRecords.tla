----------------------------- MODULE SdRecords -----------------------------
(***************************************************************************)
(* The records of sd.Registry (src/sd/sd.go).  A record is kept with the   *)
(* seconds that are left of it, Expires minus now, and not with the moment *)
(* it expires: this keeps a model with a clock finite.                     *)
(***************************************************************************)
EXTENDS Integers

CONSTANTS
    Keys,       \* the (ServiceID, InstanceID) pairs
    ServiceOf,  \* the ServiceID of each
    Any,        \* ServiceID 0xFFFF
    MaxTTL,     \* bound: the longest TTL, in seconds
    MaxAgo,     \* bound: how old the clock reading of a Find may become
    None        \* no record

VARIABLE services  \* r.services: for each key its record

ASSUME RecordsAssumption == MaxTTL \in Nat \ {0} /\ MaxAgo \in Nat

\* What is left is not told apart below Floor: no Find can find it again.
Floor == -(MaxAgo + 1)

Record(Val) == [val : Val, left : Floor..MaxTTL]

\* Registry.Offer: a zero TTL removes the record, any other renews it.
Stored(recs, k, ttl, val) ==
    [recs EXCEPT ![k] = IF ttl = 0 THEN None ELSE [val |-> val, left |-> ttl]]

\* The records a second later.
Aged(recs) ==
    [k \in Keys |-> IF recs[k] = None \/ recs[k].left = Floor
                    THEN recs[k] ELSE [recs[k] EXCEPT !.left = @ - 1]]

\* Mutation: Find does not look at Expires.
NeverExpired(rec, ago) == FALSE

\* Expires.Before(now), for a now that was read that many seconds ago.
Expired(rec, ago) == rec.left + ago < 0

\* ServiceID sid, or 0xFFFF, asks for key k.
Asks(sid, k) == sid = Any \/ ServiceOf[k] = sid

\* What Registry.Find returns under the lock.
Found(recs, sid, ago) ==
    {k \in Keys : Asks(sid, k) /\ recs[k] # None /\ ~Expired(recs[k], ago)}
=============================================================================
