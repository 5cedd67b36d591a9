----------------------------- MODULE MCUdpCalls -----------------------------
(* Instances of UdpCalls for TLC: one method, every operation addresses it. *)
EXTENDS UdpCalls, TLC

MCMethodOf == [x \in Senders |-> CHOOSE m \in Methods : TRUE]

MCSymmetry == Permutations(Calls)
=============================================================================
