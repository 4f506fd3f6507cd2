------------------------------- MODULE MCRefund -------------------------------
(* Instances of RefundCore for TLC.                                      *)
EXTENDS RefundRules, TLC

CONSTANTS o1, f1, f2, r1, r2, h1, w1

\* Two keys for one order.
OneOrder == [f \in {f1, f2} |-> o1]
OneKey   == [f \in {f1} |-> o1]

Amounts == [c \in {o1} |-> 1]
NoAmounts == [c \in {} |-> 1]

Permute == Permutations({r1, r2}) \cup Permutations({f1, f2})
=============================================================================
