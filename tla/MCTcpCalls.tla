----------------------------- MODULE MCTcpCalls -----------------------------
(* Instances of TcpCalls for TLC: one method, every operation addresses it. *)
EXTENDS TcpCalls

MCMethodOf == [x \in Senders |-> CHOOSE m \in Methods : TRUE]
=============================================================================
