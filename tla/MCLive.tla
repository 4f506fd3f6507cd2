-------------------------------- MODULE MCLive --------------------------------
(*************************************************************************)
(* What redelivered webhooks bring about: a hosted payment, or the       *)
(* refund of an order for a right.  A behaviour is one of the two, and   *)
(* scene says which from the start; the rows of the other stay as they   *)
(* were created.                                                         *)
(*************************************************************************)
EXTENDS MCPayment

CONSTANTS f1, h1, NoRefund

\* The variables of RefundCore whose names payments use too, and the others.
VARIABLES
  scene,
  refundedOrder, refundBound, refundCommand, refundRequest, refundEvents, refundInbox,
  refund, flagged, answer, wallet, reserved, released, revoked, commission,
  atProvider, handler, tenantOpen, settlement, due, account, ledger, withdrawal

refundVars ==
  <<refundedOrder, refundBound, refundCommand, refundRequest, refundEvents, refundInbox,
    refund, flagged, answer, wallet, reserved, released, revoked, commission,
    atProvider, handler, tenantOpen, settlement, due, account, ledger, withdrawal>>

\* One key, two requests and one webhook at a time, of an order that the
\* platform did not collect.
RightRefund == INSTANCE RefundCore WITH
  order <- refundedOrder, bound <- refundBound, command <- refundCommand,
  request <- refundRequest, events <- refundEvents, inbox <- refundInbox,
  Charges <- {}, AmountOf <- [c \in {} |-> 1], Withdrawals <- {}, Requested <- {1},
  MaxBalance <- 1, Topups <- {}, Points <- 1, Refunds <- {f1},
  RefundOf <- [f \in {f1} |-> o1], Requests <- {r1, r2}, Handlers <- {h1}

LiveInit == Init /\ RightRefund!Init /\ scene \in {"payment", "refund"}

LiveNext ==
  \/ scene = "payment" /\ Next /\ UNCHANGED <<scene, refundVars>>
  \/ scene = "refund" /\ RightRefund!Next /\ UNCHANGED <<scene, vars>>

\* The fairness of the two services, that of their FairSpec.  In the other
\* scene their actions are never enabled: nothing happened at the provider.
PaymentFairness ==
  /\ \A a \in Attempts : WF_vars(Announce(a, "exact"))
  /\ \A e \in Event : WF_vars(HandleWebhook(e))

RefundFairness ==
  /\ WF_refundVars(RightRefund!Announce(f1))
  /\ \A e \in RightRefund!Event : SF_refundVars(RightRefund!ReceiveOutcome(h1, e))
  /\ SF_refundVars(RightRefund!ApplyOutcome(h1))
  /\ SF_refundVars(RightRefund!MarkProcessed(h1))

LiveSpec ==
  /\ LiveInit /\ [][LiveNext]_<<scene, vars, refundVars>>
  /\ PaymentFairness /\ RefundFairness

\* A refund decided at the provider is decided here too, by redelivered
\* webhooks alone: a request that was lost or ambiguous needs no operator
\* (handleProviderWebhook, markAmbiguous).
DecidedRefundIsBooked == RightRefund!DecidedIsBooked
=============================================================================
