----------------------------- MODULE MCSdDaemon -----------------------------
(* Instances of SdDaemon for TLC: one service, every Offer is for its key.   *)
EXTENDS SdDaemon

CONSTANTS k1, v1

MCServiceOf == [k \in Keys |-> v1]
MCKeyOf == [o \in Offers |-> k1]
=============================================================================
