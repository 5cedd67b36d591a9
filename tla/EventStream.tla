----------------------------- MODULE EventStream -----------------------------
(***************************************************************************)
(* What a subscription made through someip.Adapt promises its consumer     *)
(* (src/adapt.go:159): events come out in the order in which they came in, *)
(* each once; they are lost only under the policies that drop; and the     *)
(* stream ends when nothing is left in it.                                 *)
(***************************************************************************)
EXTENDS Naturals, Sequences

CONSTANT Events

VARIABLES
    lossy,  \* the policy may drop events
    buf,    \* the events that are in the stream
    got,    \* those that the consumer has received
    ended   \* the consumer has seen the end

vars == <<lossy, buf, got, ended>>

Init == lossy \in BOOLEAN /\ buf = <<>> /\ got = <<>> /\ ended = FALSE

Put(e) == /\ ~ended /\ buf' = Append(buf, e)
          /\ UNCHANGED <<lossy, got, ended>>

Take == /\ buf # <<>>
        /\ got' = Append(got, Head(buf)) /\ buf' = Tail(buf)
        /\ UNCHANGED <<lossy, ended>>

Without(s, i) == [j \in 1..Len(s) - 1 |-> IF j < i THEN s[j] ELSE s[j + 1]]

Lose(i) == /\ lossy /\ buf' = Without(buf, i)
           /\ UNCHANGED <<lossy, got, ended>>

End == /\ buf = <<>> /\ ended' = TRUE
       /\ UNCHANGED <<lossy, buf, got>>

Next == \/ \E e \in Events : Put(e)
        \/ \E i \in 1..Len(buf) : Lose(i)
        \/ Take \/ End

Spec == Init /\ [][Next]_vars
=============================================================================
