----------------------------- MODULE MCMockBus -----------------------------
(* Instances of MockBus for TLC: one service, every subscription is its own, *)
(* every subscription.Close aims at the first subscription.                  *)
EXTENDS MockBus

CONSTANTS sa, c1

MCOwner == [x \in Subs |-> c1]
MCClosing == [k \in Closers |-> sa]
=============================================================================
