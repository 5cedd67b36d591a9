---------------------------- MODULE MCSdRegistry ----------------------------
(* Instances of SdRegistry for TLC: two services, a Find for one of them and *)
(* a Find for all.                                                           *)
EXTENDS SdRegistry

CONSTANTS k1, f1, v1, v2

MCServiceOf == [k \in Keys |-> IF k = k1 THEN v1 ELSE v2]
MCWantOf == [f \in Finds |-> IF f = f1 THEN v1 ELSE Any]
=============================================================================
