--------------------------- MODULE MCTpReassembly ---------------------------
(* Instances of TpReassembly for TLC: a message of two and one of three     *)
(* segments (a cfg with one message takes the shorter).                     *)
EXTENDS TpReassembly, TLC

CONSTANTS m1, m2

MCSize == [m \in Messages |-> IF m = m1 THEN 2 ELSE 3]

\* Messages with keys of their own, and messages that share a SessionID.
MCOwnKey == [m \in Messages |-> m]
MCSameKey == [m \in Messages |-> "key"]
=============================================================================
