------------------------------ MODULE RefundRules ------------------------------
(*************************************************************************)
(* What the database itself demands of every transaction that writes     *)
(* refunds, orders, points, settlements, withdrawals and the merchant's  *)
(* ledger: the triggers and constraints of migrations 0013, 0014, 0020   *)
(* and 0028, each in its last version.                                   *)
(*                                                                       *)
(* The rules were written apart from the services and are never asked in *)
(* advance: a write they refuse rolls the whole transaction back, after  *)
(* the provider has already made the refund.  Each rule is a condition   *)
(* on a step of RefundCore.  A BEFORE trigger sees the rows written so   *)
(* far by its transaction, a deferred one all of them: where the service *)
(* writes the row a rule looks at before the row it guards the rule      *)
(* reads it primed, and unprimed where it writes it afterwards.          *)
(*************************************************************************)
EXTENDS RefundCore

NewEntries == ledger' \ ledger
MovedInto(b) == Total({l \in NewEntries : l.bucket = b})

-----------------------------------------------------------------------------
(* The merchant's ledger and account.                                    *)

\* apply_merchant_balance_ledger_entry and prevent_direct_merchant_balance_update:
\* a bucket moves by its new entries and by nothing else, within its range.
BalancesFollowEntries ==
  \A b \in Buckets :
    /\ account'[b] = account[b] + MovedInto(b)
    /\ account'[b] \in 0..MaxBalance

\* The unique index on reference, entry type and bucket.
EachLegOnce ==
  \A l \in NewEntries : ~\E k \in ledger' :
    k # l /\ k.ref = l.ref /\ k.type = l.type /\ k.bucket = l.bucket

Legs(from, to, amount) == {<<from, -amount>>, <<to, amount>>}

\* The debit of a refund: the refund it refers to is already marked succeeded.
DebitIsOfARefund(l) ==
  \E f \in Refunds :
    /\ RefundOf[f] = l.ref
    /\ refund'[f] = "succeeded"
    /\ l.delta = -AmountOf[l.ref]

\* validate_finance_ledger_reference and, for the first entry of a charge, the
\* condition of apply_merchant_balance_ledger_entry.
EntryIsBacked(l) ==
  LET leg == <<l.bucket, l.delta>> IN
  \/ /\ l.type = "payment_pending"
     /\ l.ref \in Charges
     /\ order'[l.ref] = "paid"
     /\ leg = <<"pending", AmountOf[l.ref]>>
  \/ /\ l.type = "settlement_available"
     /\ settlement[l.ref] = "pending"
     /\ l.ref \in due
     /\ leg \in Legs("pending", "available", AmountOf[l.ref])
  \/ /\ l.type = "freeze"
     /\ withdrawal'[l.ref].status = "submitted"
     /\ leg \in Legs("available", "frozen", withdrawal'[l.ref].amount)
  \/ /\ l.type = "unfreeze"
     /\ withdrawal[l.ref].status \in {"submitted", "approved"}
     /\ leg \in Legs("frozen", "available", withdrawal[l.ref].amount)
  \/ /\ l.type = "withdrawal"
     /\ withdrawal[l.ref].status = "approved"
     /\ leg \in Legs("frozen", "withdrawn", withdrawal[l.ref].amount)
  \/ l.type = "refund" /\ DebitIsOfARefund(l)

LedgerAdmits ==
  /\ BalancesFollowEntries
  /\ EachLegOnce
  /\ \A l \in NewEntries : EntryIsBacked(l)

-----------------------------------------------------------------------------
(* Settlements and withdrawals.                                          *)

\* enforce_refunded_order_has_refund; a closed settlement needs the same fact.
HasRefundFact(o) ==
  \E f \in Refunds :
    RefundOf[f] = o /\ refund'[f] \in {"succeeded", "manual_reconciliation"}

\* enforce_merchant_settlement_snapshot.
SettlementTransition(c) ==
  \/ /\ settlement[c] = "none" /\ settlement'[c] = "pending"
     /\ order'[c] = "paid"
  \/ /\ settlement[c] = "pending" /\ settlement'[c] = "settled"
     /\ c \in due
  \/ /\ settlement[c] \in {"pending", "settled"} /\ settlement'[c] = "refunded"
     /\ HasRefundFact(c)

HasLegs(ref, type, legs) == \A leg \in legs : Entry(ref, type, leg[1], leg[2]) \in ledger'

\* validate_finance_balanced_entries, deferred, for settlements ...
SettlementBalances(c) ==
  settlement'[c] = "settled" =>
    HasLegs(c, "settlement_available", Legs("pending", "available", AmountOf[c]))

\* ... and for withdrawals.
WithdrawalBalances(w) ==
  LET amount == withdrawal'[w].amount
      status == withdrawal'[w].status
  IN
  /\ HasLegs(w, "freeze", Legs("available", "frozen", amount))
  /\ status \in {"rejected", "cancelled"} =>
       HasLegs(w, "unfreeze", Legs("frozen", "available", amount))
  /\ status = "paid" => HasLegs(w, "withdrawal", Legs("frozen", "withdrawn", amount))

\* require_withdrawal_action and enforce_withdrawal_action: the changes that one of
\* the actions explains which the service records.
Explained(from, to) ==
  \/ from = "none" /\ to = "submitted"
  \/ from = "submitted" /\ to \in {"approved", "rejected", "cancelled"}
  \/ from = "approved" /\ to = "paid"

\* enforce_withdrawal_transition, too: the amount is settled by the submission.
WithdrawalTransition(w) ==
  LET from == withdrawal[w].status IN
  /\ Explained(from, withdrawal'[w].status)
  /\ from # "none" => withdrawal'[w].amount = withdrawal[w].amount

FinanceAdmits ==
  /\ LedgerAdmits
  /\ \A c \in Charges : settlement'[c] # settlement[c] =>
       SettlementTransition(c) /\ SettlementBalances(c)
  /\ \A w \in Withdrawals : withdrawal'[w] # withdrawal[w] =>
       WithdrawalTransition(w) /\ WithdrawalBalances(w)

-----------------------------------------------------------------------------
(* Orders and points.                                                    *)

\* protect_order_snapshot.
OrderTransition(o) ==
  \/ order[o] = "pending_payment" /\ order'[o] = "paid"
  \/ order[o] = "paid" /\ order'[o] = "refunded" /\ HasRefundFact(o)

\* apply_point_ledger_entry, for the entries a refund makes: a reserve belongs
\* to a refund under way, a release to one that failed.
PointEntryIsBacked(f) ==
  /\ f \in reserved' \ reserved => RefundOf[f] \in Topups /\ refund'[f] = "processing"
  /\ f \in released' \ released => RefundOf[f] \in Topups /\ refund'[f] = "failed"

GoodsAdmit ==
  /\ wallet' >= 0
  /\ \A o \in Orders : order'[o] # order[o] => OrderTransition(o)
  /\ \A f \in Refunds : PointEntryIsBacked(f)

-----------------------------------------------------------------------------
(* Refunds.                                                              *)

\* payment_refunds_completion_check.
RowIsWhole(f) ==
  CASE refund'[f] = "none"       -> f \notin bound' /\ f \notin flagged'
    [] refund'[f] = "processing" -> TRUE
    [] refund'[f] = "failed"     -> f \notin flagged'
    [] OTHER                     -> f \in bound' /\ f \notin flagged'

\* payment_refunds_active_order_unique_idx.
OneActive(f) ==
  refund'[f] \in Live =>
    \A g \in Refunds \ {f} : RefundOf[g] = RefundOf[f] => refund'[g] \notin Live

RowChanged(f) ==
  \/ refund'[f] # refund[f]
  \/ (f \in bound') # (f \in bound)
  \/ (f \in flagged') # (f \in flagged)

\* enforce_payment_refund_state: a refund is created for a paid order, decided
\* once while processing and then frozen; in between it takes the provider's id
\* once and the mark of an unknown outcome once, each by itself.
RefundTransition(f) ==
  \/ refund[f] = "none" /\ refund'[f] = "processing" /\ order[RefundOf[f]] = "paid"
  \/ /\ refund[f] = "processing"
     /\ f \in bound => f \in bound'
     /\ \/ refund'[f] \in {"succeeded", "failed", "manual_reconciliation"}
        \/ /\ refund'[f] = "processing"
           /\ \/ f \in bound' \ bound /\ (f \in flagged' <=> f \in flagged)
              \/ f \in flagged' \ flagged /\ (f \in bound' <=> f \in bound)

\* payment_refunds_merchant_scope_check: only a succeeded refund of a charge the
\* platform collected names the bucket it was taken from.
ScopeHolds(f) ==
  LET o == RefundOf[f]
      debited == \E l \in ledger' : l.ref = o /\ l.type = "refund"
  IN
  /\ refund'[f] = "succeeded" => (o \in Charges <=> debited)
  /\ refund'[f] = "manual_reconciliation" => o \in Charges /\ ~debited

\* require_completed_refund_effects, deferred.
EffectsOfRefund(f) ==
  LET o == RefundOf[f]
      topup == o \in Topups
  IN
  /\ refund'[f] = "processing" /\ topup => f \in reserved'
  /\ refund'[f] = "failed" /\ topup => f \in released'
  /\ refund'[f] \in {"succeeded", "manual_reconciliation"} =>
       /\ order'[o] = "refunded"
       /\ IF topup THEN f \in reserved' ELSE o \in revoked'
       /\ commission'[o] \in {"none", "reversed"}
       /\ o \in Charges => settlement'[o] = "refunded"

RefundsAdmit ==
  \A f \in Refunds : RowChanged(f) =>
    /\ RefundTransition(f)
    /\ RowIsWhole(f)
    /\ OneActive(f)
    /\ ScopeHolds(f)
    /\ refund'[f] # refund[f] => EffectsOfRefund(f)

\* The database refuses no write of a payment, a refund, a webhook or a
\* withdrawal, whatever ran between the transactions they are split into: a
\* refund made at the provider is never rolled back here for breaking a rule of
\* the tables (RefundService, FinanceService against the triggers above).
WritesAreAdmitted == [][RefundsAdmit /\ GoodsAdmit /\ FinanceAdmits]_vars
=============================================================================
