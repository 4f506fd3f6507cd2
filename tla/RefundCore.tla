------------------------------ MODULE RefundCore ------------------------------
(*************************************************************************)
(* Refunding a paid order: RefundService, on top of the merchant's       *)
(* account of MerchantFinance.                                           *)
(*                                                                       *)
(* Staff ask for a full refund under an Idempotency-Key.  The request    *)
(* runs as a transaction, a call to the provider and a second            *)
(* transaction; the provider's webhook runs as three transactions;       *)
(* either may stop between two of them, and a key may be resumed while   *)
(* its first call is still out.                                          *)
(*                                                                       *)
(* A refund is named by the command that created it: both rows appear in *)
(* one transaction, and the request hash binds a key to one order.       *)
(*************************************************************************)
EXTENDS MerchantFinance

CONSTANTS
  Orders,      (* Orders; those in Charges were collected by the platform. *)
  Topups,      (* The orders that bought points, not a right to watch.     *)
  Points,      (* The points each of them granted.                         *)
  Refunds,     (* Refund commands.                                         *)
  RefundOf,    (* The order a refund command names.                        *)
  Requests,    (* Concurrent calls of POST .../refunds.                    *)
  Handlers,    (* Concurrent deliveries of refund webhooks.                *)
  NoRefund     (* What an idle request works for.                          *)

ASSUME OrdersAssumption == Charges \subseteq Orders /\ Topups \subseteq Orders
ASSUME RefundOfAssumption == RefundOf \in [Refunds -> Orders]
ASSUME PointsAssumption == Points \in Nat \ {0}
ASSUME NoRefundAssumption == NoRefund \notin Refunds

VARIABLES
  order,       (* orders.status from payment on.                         *)
  refund,      (* payment_refunds.status, "none" before the insert.      *)
  flagged,     (* Processing refunds with reconciliation_required.       *)
  bound,       (* Refunds whose external_refund_id is recorded.          *)
  command,     (* command_idempotency.status of the refund's command.    *)
  answer,      (* The refund status in the command's stored response.    *)
  wallet,      (* The customer's point balance.                          *)
  reserved,    (* Refunds with a refund_reserve entry in point_ledger.   *)
  released,    (* Refunds with a refund_release entry.                   *)
  revoked,     (* Orders whose entitlements are revoked.                 *)
  commission,  (* referral_commissions.status of the order.              *)
  request,     (* Program counter and refund of each running request.    *)
  atProvider,  (* What became of the refund at the provider.             *)
  events,      (* Signed refund events, sent again until answered.       *)
  inbox,       (* payment_webhook_inbox.status of each event.            *)
  handler      (* Program counter and event of each running webhook.     *)

orderVars    == <<order, wallet, reserved, released, revoked, commission>>
refundVars   == <<refund, flagged, bound, command, answer>>
providerVars == <<atProvider, events>>
webhookVars  == <<inbox, handler>>
vars == <<orderVars, refundVars, request, providerVars, webhookVars, financeVars>>

RefundStatus ==
  {"none", "processing", "succeeded", "failed", "manual_reconciliation"}
Reply == {"succeeded", "pending", "failed", "rejected", "ambiguous"}
Event == [refund: Refunds, type: {"pending", "succeeded", "failed"}]
Idle  == [pc |-> "idle", refund |-> NoRefund]
Ready == [pc |-> "idle"]

RefundTypeOK ==
  /\ FinanceTypeOK
  /\ order \in [Orders -> {"pending_payment", "paid", "refunded"}]
  /\ refund \in [Refunds -> RefundStatus]
  /\ flagged \subseteq Refunds
  /\ bound \subseteq Refunds
  /\ command \in [Refunds -> {"none", "processing", "completed"}]
  /\ answer \in [Refunds -> RefundStatus]
  /\ wallet \in Nat
  /\ reserved \subseteq Refunds
  /\ released \subseteq Refunds
  /\ revoked \subseteq Orders
  /\ commission \in [Orders -> {"none", "pending", "available", "reversed"}]
  /\ request \in [Requests ->
       {Idle} \cup [pc: {"prepared"} \cup Reply, refund: Refunds]]
  /\ atProvider \in [Refunds -> {"none", "pending", "succeeded", "failed"}]
  /\ events \subseteq Event
  /\ inbox \in [Event -> {"none", "received", "processed"}]
  /\ handler \in [Handlers ->
       {Ready} \cup [pc: {"reserved", "finalized"}, event: Event]]

Init ==
  /\ FinanceInit
  /\ order = [o \in Orders |-> "pending_payment"]
  /\ refund = [f \in Refunds |-> "none"]
  /\ flagged = {}
  /\ bound = {}
  /\ command = [f \in Refunds |-> "none"]
  /\ answer = [f \in Refunds |-> "none"]
  /\ wallet = 0
  /\ reserved = {}
  /\ released = {}
  /\ revoked = {}
  /\ commission = [o \in Orders |-> "none"]
  /\ request = [r \in Requests |-> Idle]
  /\ atProvider = [f \in Refunds |-> "none"]
  /\ events = {}
  /\ inbox = [e \in Event |-> "none"]
  /\ handler = [h \in Handlers |-> Ready]

-----------------------------------------------------------------------------
(* What happens to a paid order besides refunds.                         *)

\* The success transaction of handleWebhook: goods, settlement, commission.
Pay(o) ==
  /\ order[o] = "pending_payment"
  /\ order' = [order EXCEPT ![o] = "paid"]
  /\ wallet' = IF o \in Topups THEN wallet + Points ELSE wallet
  /\ commission' \in {commission, [commission EXCEPT ![o] = "pending"]}
  /\ IF o \in Charges THEN CreditCharge(o) ELSE UNCHANGED financeVars
  /\ UNCHANGED <<reserved, released, revoked, refundVars, request,
                 providerVars, webhookVars>>

\* The referral worker's settleDue.
MatureCommission(o) ==
  /\ commission[o] = "pending"
  /\ commission' = [commission EXCEPT ![o] = "available"]
  /\ UNCHANGED <<order, wallet, reserved, released, revoked, refundVars,
                 request, providerVars, webhookVars, financeVars>>

\* The customer unlocks an episode with points.
SpendPoints ==
  /\ wallet > 0
  /\ wallet' = wallet - 1
  /\ UNCHANGED <<order, reserved, released, revoked, commission, refundVars,
                 request, providerVars, webhookVars, financeVars>>

ManageFinance ==
  /\ Managing
  /\ UNCHANGED <<orderVars, refundVars, request, providerVars, webhookVars>>

-----------------------------------------------------------------------------
(* The request: first transaction.                                       *)

Live == {"processing", "succeeded", "manual_reconciliation"}

Reserve(f) ==
  IF RefundOf[f] \in Topups
    THEN /\ wallet >= Points
         /\ wallet' = wallet - Points
         /\ reserved' = reserved \cup {f}
    ELSE UNCHANGED <<wallet, reserved>>

NoLiveRefund(o) == \A g \in Refunds : RefundOf[g] = o => refund[g] \notin Live

PrepareRefund(r, f) ==
  /\ request[r] = Idle
  /\ command[f] = "none"
  /\ order[RefundOf[f]] = "paid"
  /\ NoLiveRefund(RefundOf[f])
  /\ refund' = [refund EXCEPT ![f] = "processing"]
  /\ command' = [command EXCEPT ![f] = "processing"]
  /\ Reserve(f)
  /\ request' = [request EXCEPT ![r] = [pc |-> "prepared", refund |-> f]]
  /\ UNCHANGED <<order, released, revoked, commission, flagged, bound, answer,
                 providerVars, webhookVars, financeVars>>

\* The key of a command still processing resumes its refund.
ResumeRefund(r, f) ==
  /\ request[r] = Idle
  /\ command[f] = "processing"
  /\ refund[f] = "processing"
  /\ request' = [request EXCEPT ![r] = [pc |-> "prepared", refund |-> f]]
  /\ UNCHANGED <<orderVars, refundVars, providerVars, webhookVars, financeVars>>

-----------------------------------------------------------------------------
(* The provider, which knows a refund by its id and refunds a charge once.   *)

Refundable(f) ==
  /\ atProvider[f] = "none"
  /\ \A g \in Refunds :
       RefundOf[g] = RefundOf[f] => atProvider[g] \notin {"pending", "succeeded"}

\* A call that makes the refund is answered with its status or not at all.
\* A repeated call is answered with the refund's status or its first one, or
\* is refused (the provider forgets keys, and knows the charge is refunded;
\* another call has the key; the credentials were changed): the adapter takes
\* every refusal to be definitive.
CallProvider(r, reply) ==
  LET f == request[r].refund IN
  /\ request[r].pc = "prepared"
  /\ \/ /\ Refundable(f)
        /\ \E status \in {"pending", "succeeded", "failed"} :
             /\ atProvider' = [atProvider EXCEPT ![f] = status]
             /\ reply \in {status, "ambiguous"}
     \/ /\ atProvider[f] # "none"
        /\ reply \in {atProvider[f], "pending"}
        /\ UNCHANGED atProvider
     \/ /\ reply \in {"rejected", "ambiguous"}
        /\ UNCHANGED atProvider
  /\ request' = [request EXCEPT ![r].pc = reply]
  /\ UNCHANGED <<orderVars, refundVars, events, webhookVars, financeVars>>

\* A pending refund is decided at the provider.
Decided(f, status) ==
  /\ atProvider[f] = "pending"
  /\ atProvider' = [atProvider EXCEPT ![f] = status]
  /\ UNCHANGED <<orderVars, refundVars, request, events, webhookVars, financeVars>>

Announce(f) ==
  /\ atProvider[f] # "none"
  /\ events' = events \cup {[refund |-> f, type |-> atProvider[f]]}
  /\ UNCHANGED <<orderVars, refundVars, request, atProvider, webhookVars, financeVars>>

\* The process stops, or the provider's credentials cannot be loaded.
AbandonRequest(r) ==
  /\ request[r] # Idle
  /\ request' = [request EXCEPT ![r] = Idle]
  /\ UNCHANGED <<orderVars, refundVars, providerVars, webhookVars, financeVars>>

-----------------------------------------------------------------------------
(* What the second transaction and the webhook do to the refund.  Each finds *)
(* the refund locked and leaves it alone unless it is still processing.  *)

\* Mutants: an answered command keeps its first answer; a commission that
\* matured is not reversed.
AnswerOnce(f, status) ==
  /\ command' = [command EXCEPT ![f] = "completed"]
  /\ answer' = IF command[f] = "processing" THEN [answer EXCEPT ![f] = status] ELSE answer

ReversePending(o) ==
  commission' = [commission EXCEPT ![o] = IF @ = "pending" THEN "reversed" ELSE @]

CompleteCommand(f, status) ==
  /\ command' = [command EXCEPT ![f] = "completed"]
  /\ answer' = [answer EXCEPT ![f] = status]

ReverseCommission(o) ==
  commission' = [commission EXCEPT ![o] = IF @ = "none" THEN @ ELSE "reversed"]

\* finalizeSuccess.
Complete(f) ==
  LET o == RefundOf[f]
      status == IF o \in Charges /\ ~Covered(o) THEN "manual_reconciliation"
                                                ELSE "succeeded"
  IN
  /\ refund[f] = "processing"
  /\ order[o] = "paid"
  /\ refund' = [refund EXCEPT ![f] = status]
  /\ order' = [order EXCEPT ![o] = "refunded"]
  /\ flagged' = flagged \ {f}
  /\ bound' = bound \cup {f}
  /\ revoked' = IF o \in Topups THEN revoked ELSE revoked \cup {o}
  /\ IF o \in Charges THEN CloseSettlement(o) ELSE UNCHANGED financeVars
  /\ ReverseCommission(o)
  /\ CompleteCommand(f, status)
  /\ UNCHANGED <<wallet, reserved, released>>

\* Mutant: a refund that is already decided is failed too.
FailAgain(f) ==
  /\ refund' = [refund EXCEPT ![f] = "failed"]
  /\ flagged' = flagged \ {f}
  /\ IF f \in reserved
       THEN wallet' = wallet + Points /\ released' = released \cup {f}
       ELSE UNCHANGED <<wallet, released>>
  /\ CompleteCommand(f, "failed")
  /\ UNCHANGED <<order, reserved, revoked, commission, bound, financeVars>>

\* finalizeDefinitiveFailure, releaseTopupPointsIfNeeded.
Fail(f) ==
  /\ refund[f] = "processing"
  /\ refund' = [refund EXCEPT ![f] = "failed"]
  /\ flagged' = flagged \ {f}
  /\ IF f \in reserved
       THEN wallet' = wallet + Points /\ released' = released \cup {f}
       ELSE UNCHANGED <<wallet, released>>
  /\ CompleteCommand(f, "failed")
  /\ UNCHANGED <<order, reserved, revoked, commission, bound, financeVars>>

\* recordProviderPending.
RecordPending(f) ==
  /\ refund[f] = "processing"
  /\ bound' = bound \cup {f}
  /\ CompleteCommand(f, "processing")
  /\ UNCHANGED <<orderVars, refund, flagged, financeVars>>

MarkAmbiguous(f) ==
  /\ refund[f] = "processing"
  /\ flagged' = flagged \cup {f}
  /\ UNCHANGED <<orderVars, refund, bound, command, answer, financeVars>>

LeaveAlone(f) ==
  /\ refund[f] # "processing"
  /\ UNCHANGED <<orderVars, refundVars, financeVars>>

\* Mutant: a refund the provider has only accepted is taken for made.
FinalizeAccepted(r) ==
  LET f == request[r].refund IN
  /\ \/ request[r].pc \in {"succeeded", "pending"} /\ Complete(f)
     \/ request[r].pc \in {"failed", "rejected"} /\ Fail(f)
     \/ request[r].pc = "ambiguous" /\ MarkAmbiguous(f)
     \/ request[r].pc \in Reply /\ LeaveAlone(f)
  /\ request' = [request EXCEPT ![r] = Idle]
  /\ UNCHANGED <<providerVars, webhookVars>>

\* The request's second transaction.
FinalizeRequest(r) ==
  LET f == request[r].refund IN
  /\ \/ request[r].pc = "succeeded" /\ Complete(f)
     \/ request[r].pc \in {"failed", "rejected"} /\ Fail(f)
     \/ request[r].pc = "pending" /\ RecordPending(f)
     \/ request[r].pc = "ambiguous" /\ MarkAmbiguous(f)
     \/ request[r].pc \in Reply /\ LeaveAlone(f)
  /\ request' = [request EXCEPT ![r] = Idle]
  /\ UNCHANGED <<providerVars, webhookVars>>

-----------------------------------------------------------------------------
(* handleProviderWebhook: three transactions.  An event already processed is *)
(* answered from the inbox; one that was only received is taken up again.    *)

\* Mutant: an event received once is a duplicate.
NeverReceived(e) == e \in events /\ inbox[e] = "none"

Unprocessed(e) == e \in events /\ inbox[e] # "processed"

Bind(f) == bound' = IF refund[f] = "processing" THEN bound \cup {f} ELSE bound

ReceivePending(h, e) ==
  /\ handler[h] = Ready
  /\ Unprocessed(e)
  /\ e.type = "pending"
  /\ Bind(e.refund)
  /\ CompleteCommand(e.refund, refund[e.refund])
  /\ inbox' = [inbox EXCEPT ![e] = "processed"]
  /\ UNCHANGED <<orderVars, refund, flagged, request, providerVars, handler, financeVars>>

ReceiveOutcome(h, e) ==
  /\ handler[h] = Ready
  /\ Unprocessed(e)
  /\ e.type # "pending"
  /\ Bind(e.refund)
  /\ inbox' = [inbox EXCEPT ![e] = "received"]
  /\ handler' = [handler EXCEPT ![h] = [pc |-> "reserved", event |-> e]]
  /\ UNCHANGED <<orderVars, refund, flagged, command, answer, request,
                 providerVars, financeVars>>

ApplyOutcome(h) ==
  LET f == handler[h].event.refund IN
  /\ handler[h].pc = "reserved"
  /\ \/ handler[h].event.type = "succeeded" /\ Complete(f)
     \/ handler[h].event.type = "failed" /\ Fail(f)
     \/ LeaveAlone(f)
  /\ handler' = [handler EXCEPT ![h].pc = "finalized"]
  /\ UNCHANGED <<request, providerVars, inbox>>

MarkProcessed(h) ==
  /\ handler[h].pc = "finalized"
  /\ inbox' = [inbox EXCEPT ![handler[h].event] = "processed"]
  /\ handler' = [handler EXCEPT ![h] = Ready]
  /\ UNCHANGED <<orderVars, refundVars, request, providerVars, financeVars>>

StopHandler(h) ==
  /\ handler[h] # Ready
  /\ handler' = [handler EXCEPT ![h] = Ready]
  /\ UNCHANGED <<orderVars, refundVars, request, providerVars, inbox, financeVars>>

Receive(h) == \E e \in Event : ReceivePending(h, e) \/ ReceiveOutcome(h, e)

Next ==
  \/ \E o \in Orders : Pay(o) \/ MatureCommission(o)
  \/ SpendPoints
  \/ ManageFinance
  \/ \E r \in Requests :
       \/ \E f \in Refunds : PrepareRefund(r, f) \/ ResumeRefund(r, f)
       \/ \E reply \in Reply : CallProvider(r, reply)
       \/ FinalizeRequest(r)
       \/ AbandonRequest(r)
  \/ \E f \in Refunds :
       \/ Decided(f, "succeeded")
       \/ Decided(f, "failed")
       \/ Announce(f)
  \/ \E h \in Handlers :
       Receive(h) \/ ApplyOutcome(h) \/ MarkProcessed(h) \/ StopHandler(h)

Spec == Init /\ [][Next]_vars

\* The provider announces and redelivers what it decided, and a webhook that
\* is delivered again and again is not stopped at the same place each time.
FairSpec ==
  /\ Spec
  /\ \A f \in Refunds : WF_vars(Announce(f))
  /\ \A h \in Handlers :
       /\ \A e \in Event : SF_vars(ReceiveOutcome(h, e))
       /\ SF_vars(ApplyOutcome(h))
       /\ SF_vars(MarkProcessed(h))

-----------------------------------------------------------------------------
(* What refunds must guarantee.                                          *)

Completed == {f \in Refunds : refund[f] \in {"succeeded", "manual_reconciliation"}}

\* At most one refund of an order is under way or done, and an order is
\* refunded exactly when one is done: no two keys, and no request and
\* webhook, refund it twice (the guard and the unique index of create).
OneRefundPerOrder ==
  /\ \A f, g \in Refunds :
       /\ RefundOf[f] = RefundOf[g]
       /\ refund[f] \in Live
       /\ refund[g] \in Live
       => f = g
  /\ \A o \in Orders : order[o] = "refunded" <=> \E f \in Completed : RefundOf[f] = o

\* A refunded order has lost its right or its points, its settlement is
\* closed and its commission reversed; a paid one has lost none of them
\* unless a refund under way holds its points (finalizeSuccess,
\* finalizeDefinitiveFailure, the deferred check of refund effects).
RefundReversesOrder ==
  /\ \A o \in Orders :
       /\ o \in revoked <=> order[o] = "refunded" /\ o \notin Topups
       /\ o \in Charges => (settlement[o] = "refunded" <=> order[o] = "refunded")
       /\ order[o] = "refunded" => commission[o] \in {"none", "reversed"}
       /\ commission[o] = "reversed" => order[o] = "refunded"
  /\ \A f \in Refunds :
       /\ f \in reserved <=> refund[f] # "none" /\ RefundOf[f] \in Topups
       /\ f \in released <=> refund[f] = "failed" /\ RefundOf[f] \in Topups

\* No refund is booked that the provider did not make, whichever of request,
\* resumed request and webhook books it.
BookedIsMade == \A f \in Completed : atProvider[f] = "succeeded"

\* The response stored for a key is the refund's present status, also when a
\* webhook moves the refund on after the key was answered
\* (completeRefundCommand).
StoredAnswerIsCurrent ==
  \A f \in Refunds : command[f] = "completed" => answer[f] = refund[f]

\* A webhook is not marked processed before its outcome took effect, at
\* whatever transaction a delivery stops.
ProcessedTookEffect ==
  \A e \in Event :
    inbox[e] = "processed" /\ e.type # "pending"
      => refund[e.refund] \notin {"none", "processing"}

\* Whatever requests and webhooks of one order do in whatever order, it is refunded
\* once, by the provider, and then everything it gave is taken back; and whoever asks
\* or tells of a refund again gets an answer that is true now: the key its stored
\* response, the provider an end of its deliveries.
RefundsAreComplete ==
  /\ OneRefundPerOrder
  /\ RefundReversesOrder
  /\ BookedIsMade
  /\ StoredAnswerIsCurrent
  /\ ProcessedTookEffect

\* A refund and its command are created together, before anything is asked
\* of the provider.
RefundIsRecorded ==
  \A f \in Refunds :
    /\ command[f] = "none" <=> refund[f] = "none"
    /\ atProvider[f] # "none" => refund[f] # "none"

\* What requests, events and webhooks carry is what the provider decided.
OutcomesAreTrue ==
  /\ \A r \in Requests : request[r] # Idle =>
       /\ refund[request[r].refund] # "none"
       /\ request[r].pc = "succeeded" => atProvider[request[r].refund] = "succeeded"
  /\ \A e \in events :
       /\ atProvider[e.refund] # "none"
       /\ e.type = "succeeded" => atProvider[e.refund] = "succeeded"
  /\ \A h \in Handlers : handler[h] # Ready =>
       /\ handler[h].event \in events
       /\ handler[h].event.type # "pending"
       /\ handler[h].pc = "finalized"
            => refund[handler[h].event.refund] \notin {"none", "processing"}

\* Everything above, at once: what every step of refunds relies on and keeps.
RefundConsistent ==
  /\ OneRefundPerOrder
  /\ RefundReversesOrder
  /\ BookedIsMade
  /\ StoredAnswerIsCurrent
  /\ ProcessedTookEffect
  /\ RefundIsRecorded
  /\ OutcomesAreTrue

\* What the failure message says (finalizeDefinitiveFailure): a failed refund
\* was definitively rejected by the provider.
FailedIsRejected ==
  \A f \in Refunds : refund[f] = "failed" => atProvider[f] \in {"none", "failed"}

\* A refund decided at the provider is decided here too, by redelivered
\* webhooks alone: a request that was lost or ambiguous needs no operator.
DecidedIsBooked ==
  \A f \in Refunds :
    atProvider[f] \in {"succeeded", "failed"} ~> refund[f] # "processing"
=============================================================================
