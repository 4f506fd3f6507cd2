---------------------------- MODULE EventDelivery ----------------------------
(*************************************************************************)
(* What the outbox promises, without workers, locks and retries: an      *)
(* event that is recorded is put on the stream at least once before it   *)
(* counts as delivered, and what is delivered or abandoned stays so.  A  *)
(* late copy of an event may still reach the stream.                     *)
(*************************************************************************)
CONSTANT Events

VARIABLES
  stage,     (* "none", "open", "delivered" or "abandoned", per event.   *)
  onStream   (* The events of which the stream has a copy.               *)

deliveryVars == <<stage, onStream>>

Init ==
  /\ stage = [e \in Events |-> "none"]
  /\ onStream = {}

Record(e) ==
  /\ stage[e] = "none"
  /\ stage' = [stage EXCEPT ![e] = "open"]
  /\ UNCHANGED onStream

Copy(e) ==
  /\ stage[e] # "none"
  /\ onStream' = onStream \cup {e}
  /\ UNCHANGED stage

Deliver(e) ==
  /\ stage[e] = "open"
  /\ e \in onStream
  /\ stage' = [stage EXCEPT ![e] = "delivered"]
  /\ UNCHANGED onStream

Abandon(e) ==
  /\ stage[e] = "open"
  /\ stage' = [stage EXCEPT ![e] = "abandoned"]
  /\ UNCHANGED onStream

Next == \E e \in Events : Record(e) \/ Copy(e) \/ Deliver(e) \/ Abandon(e)

Spec == Init /\ [][Next]_deliveryVars
=============================================================================
