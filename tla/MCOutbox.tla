------------------------------- MODULE MCOutbox -------------------------------
(*************************************************************************)
(* Instances of what is delivered: events to their consumers, and codes  *)
(* by mail.  The two services write no row in common, so a behaviour is  *)
(* one service's, and scene says whose.  The fairness is that of the     *)
(* publishers; of codes only what holds in every state is asked.         *)
(*************************************************************************)
EXTENDS OutboxPublisher, VerificationCodes

CONSTANTS e1, e2, w1, w2

VARIABLE scene

MCInit == scene \in {"events", "codes"} /\ OutboxInit /\ CodeInit

\* Bound: of two events and of two workers, which are alike, the first is
\* recorded and the first starts before the other.
FirstBeforeSecond ==
  /\ status'[e2] # "none" => status[e1] # "none"
  /\ pc'[w2] # "stopped" => pc[w1] # "stopped" \/ crashes > 0

\* Bounds: one message's time ends; a courier crashes, or the channel is changed for a
\* last time, and after either nobody guesses, and no code is erased; two couriers
\* have work at a time only when it is the same, of which one lost its claim.
CodeBounds ==
  /\ Cardinality({courier'[k].job : k \in Couriers} \ {NoCourier}) <= 1
  /\ Cardinality(pastDue') <= 1
  /\ courierStops' > 0 => channel'.version < MaxChannelChanges
  /\ \A c \in Codes : code'[c].guesses > 0 \/ code'[c].status = "erased" =>
       courierStops' = 0 /\ channel'.version < MaxChannelChanges

MCNext ==
  \/ scene = "events" /\ OutboxNext /\ FirstBeforeSecond /\ UNCHANGED <<scene, codeVars>>
  \/ scene = "codes" /\ CodeNext /\ CodeBounds /\ UNCHANGED <<scene, outboxVars>>

MCSpec == MCInit /\ [][MCNext]_<<scene, outboxVars, codeVars>> /\ OutboxFairness
=============================================================================
