------------------------------ MODULE MCRights ------------------------------
(* An instance of Rights for TLC: a customer buys one membership plan twice.  *)
EXTENDS Rights

CONSTANTS o1, o2

OnePlan == [o \in {o1, o2} |-> "membership"]
=============================================================================
