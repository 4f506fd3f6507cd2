------------------------------ MODULE MCPayment ------------------------------
(* Instances of PaymentCore for TLC.                                     *)
EXTENDS PaymentCore, TLC

CONSTANTS o1, a1, a2, r1, r2

\* Both attempts pay the one order: two Idempotency-Keys for one order.
OneOrder   == [a \in {a1, a2} |-> o1]
OneAttempt == [a \in {a1} |-> o1]

\* Requests are interchangeable; the attempts differ in their routing.
Permute == Permutations({r1, r2})
=============================================================================
