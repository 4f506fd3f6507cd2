--------------------------- MODULE MerchantFinance ---------------------------
(*************************************************************************)
(* The money a platform owes one merchant in one currency:               *)
(* FinanceService, and what payments and refunds do to the same rows.    *)
(*                                                                       *)
(* The balance account has four buckets.  A bucket changes only with an  *)
(* entry of merchant_balance_ledger, whose trigger locks the account and *)
(* refuses an entry that would take a bucket out of its range, so that   *)
(* the transaction it is part of is rolled back.  Every transaction      *)
(* locks the settlement or the withdrawal it works on before the         *)
(* account: each is one action.                                          *)
(*                                                                       *)
(* A withdrawal is named by the command that submitted it, which belongs *)
(* to one applicant; reviewers are platform staff and never applicants.  *)
(*************************************************************************)
EXTENDS Integers, Functions

CONSTANTS
  Charges,       (* Platform-collected charges, one settlement each.     *)
  AmountOf,      (* What each charge is worth.                           *)
  Withdrawals,   (* Withdrawals, one per Idempotency-Key.                *)
  Requested,     (* The amounts a merchant may ask to withdraw.          *)
  MaxBalance     (* The upper bound of a bucket, 9e15 in the code.       *)

ASSUME AmountAssumption == AmountOf \in [Charges -> Nat \ {0}]
ASSUME RequestedAssumption == Requested \subseteq Nat \ {0}
ASSUME BalanceAssumption == MaxBalance \in Nat

VARIABLES
  tenantOpen,   (* The tenant passes assertTenantAvailable.               *)
  settlement,   (* merchant_settlements.status, "none" before the charge. *)
  due,          (* The settlements whose eligible_at has come.            *)
  account,      (* The buckets of merchant_balance_accounts.              *)
  ledger,       (* The rows of merchant_balance_ledger.                   *)
  withdrawal    (* withdrawals: status, version and amount_minor.         *)

financeVars == <<tenantOpen, settlement, due, account, ledger, withdrawal>>

Buckets == {"pending", "available", "frozen", "withdrawn"}
EntryType == {"payment_pending", "settlement_available", "freeze", "unfreeze",
              "withdrawal", "refund"}
SettlementStatus == {"none", "pending", "settled", "refunded"}
WithdrawalStatus ==
  {"none", "submitted", "approved", "rejected", "cancelled", "paid"}

FinanceTypeOK ==
  /\ tenantOpen \in BOOLEAN
  /\ settlement \in [Charges -> SettlementStatus]
  /\ due \subseteq Charges
  /\ account \in [Buckets -> 0..MaxBalance]
  /\ ledger \subseteq [ref: Charges \cup Withdrawals, type: EntryType,
                       bucket: Buckets, delta: Int]
  /\ withdrawal \in [Withdrawals ->
       [status: WithdrawalStatus, version: Nat, amount: Nat]]

FinanceInit ==
  /\ tenantOpen = TRUE
  /\ settlement = [c \in Charges |-> "none"]
  /\ due = {}
  /\ account = [b \in Buckets |-> 0]
  /\ ledger = {}
  /\ withdrawal = [w \in Withdrawals |->
       [status |-> "none", version |-> 0, amount |-> 0]]

-----------------------------------------------------------------------------
(* The ledger.                                                           *)

Worth(S) == SumFunctionOnSet(AmountOf, S)

Entry(ref, type, bucket, delta) ==
  [ref |-> ref, type |-> type, bucket |-> bucket, delta |-> delta]

\* The unique index on reference, entry type and bucket.
Unposted(ref, type, bucket) ==
  \A l \in ledger : ~(l.ref = ref /\ l.type = type /\ l.bucket = bucket)

Post(ref, type, bucket, delta) ==
  /\ Unposted(ref, type, bucket)
  /\ account[bucket] + delta \in 0..MaxBalance
  /\ account' = [account EXCEPT ![bucket] = @ + delta]
  /\ ledger' = ledger \cup {Entry(ref, type, bucket, delta)}

\* Two entries that take an amount out of one bucket and into another.
Move(ref, type, amount, from, to) ==
  /\ Unposted(ref, type, from) /\ Unposted(ref, type, to)
  /\ account[from] - amount \in 0..MaxBalance
  /\ account[to] + amount \in 0..MaxBalance
  /\ account' = [account EXCEPT ![from] = @ - amount, ![to] = @ + amount]
  /\ ledger' = ledger \cup {Entry(ref, type, from, -amount), Entry(ref, type, to, amount)}

-----------------------------------------------------------------------------
(* Settlements.                                                          *)

ChangeTenant ==
  /\ tenantOpen' = ~tenantOpen
  /\ UNCHANGED <<settlement, due, account, ledger, withdrawal>>

\* fulfillOrder, for a charge the platform collected.
CreditCharge(c) ==
  /\ settlement[c] = "none"
  /\ settlement' = [settlement EXCEPT ![c] = "pending"]
  /\ Post(c, "payment_pending", "pending", AmountOf[c])
  /\ UNCHANGED <<tenantOpen, due, withdrawal>>

\* The database clock passes a settlement's eligible_at.
BecomeDue(c) ==
  /\ settlement[c] # "none"
  /\ c \notin due
  /\ due' = due \cup {c}
  /\ UNCHANGED <<tenantOpen, settlement, account, ledger, withdrawal>>

\* A batch of due settlements, those whose rows another transaction holds
\* being skipped, moves to the available bucket in one transaction.
SettleDue(S) ==
  /\ S # {}
  /\ \A c \in S : c \in due /\ settlement[c] = "pending"
  /\ \A c \in S, b \in {"pending", "available"} : Unposted(c, "settlement_available", b)
  /\ account["pending"] - Worth(S) \in 0..MaxBalance
  /\ account["available"] + Worth(S) \in 0..MaxBalance
  /\ account' = [account EXCEPT !["pending"] = @ - Worth(S),
                                !["available"] = @ + Worth(S)]
  /\ ledger' = ledger
       \cup {Entry(c, "settlement_available", "pending", -AmountOf[c]) : c \in S}
       \cup {Entry(c, "settlement_available", "available", AmountOf[c]) : c \in S}
  /\ settlement' = [c \in Charges |-> IF c \in S THEN "settled" ELSE settlement[c]]
  /\ UNCHANGED <<tenantOpen, due, withdrawal>>

\* Mutants: any bucket with enough money; one with more than enough.
CoveredAnywhere(c, bucket) ==
  bucket \in {"pending", "available"} /\ account[bucket] >= AmountOf[c]

CoveredAmply(c, bucket) ==
  /\ account[bucket] > AmountOf[c]
  /\ \/ bucket = "pending" /\ settlement[c] = "pending"
     \/ bucket = "available" /\ settlement[c] = "settled"

\* chooseMerchantRefundBucket: where a refund of the charge is taken from.
CoveredBy(c, bucket) ==
  /\ account[bucket] >= AmountOf[c]
  /\ \/ bucket = "pending" /\ settlement[c] = "pending"
     \/ bucket = "available" /\ settlement[c] = "settled"

Covered(c) == \E b \in Buckets : CoveredBy(c, b)

\* finalizeSuccess, on the merchant's rows: the settlement closes whether or
\* not a bucket covers the refund; if none does, nothing is debited and the
\* refund is left to manual reconciliation.
CloseSettlement(c) ==
  /\ settlement[c] \in {"pending", "settled"}
  /\ settlement' = [settlement EXCEPT ![c] = "refunded"]
  /\ IF Covered(c)
       THEN \E b \in Buckets : CoveredBy(c, b) /\ Post(c, "refund", b, -AmountOf[c])
       ELSE UNCHANGED <<account, ledger>>
  /\ UNCHANGED <<tenantOpen, due, withdrawal>>

-----------------------------------------------------------------------------
(* Withdrawals.                                                          *)

SubmitWithdrawal(w, amount) ==
  /\ tenantOpen
  /\ withdrawal[w].status = "none"
  /\ account["available"] >= amount
  /\ withdrawal' = [withdrawal EXCEPT
       ![w] = [status |-> "submitted", version |-> 0, amount |-> amount]]
  /\ Move(w, "freeze", amount, "available", "frozen")
  /\ UNCHANGED <<tenantOpen, settlement, due>>

\* Mutant: the version is trusted to imply the status.
DecideVersion(w, from, version, to) ==
  /\ withdrawal[w].version = version
  /\ withdrawal' = [withdrawal EXCEPT ![w].status = to, ![w].version = @ + 1]

\* Staff act on the version of the withdrawal they were shown.
Decide(w, from, version, to) ==
  /\ withdrawal[w].status = from
  /\ withdrawal[w].version = version
  /\ withdrawal' = [withdrawal EXCEPT ![w].status = to, ![w].version = @ + 1]

Unfreeze(w) == Move(w, "unfreeze", withdrawal[w].amount, "frozen", "available")

CancelWithdrawal(w, version) ==
  /\ Decide(w, "submitted", version, "cancelled")
  /\ Unfreeze(w)
  /\ UNCHANGED <<tenantOpen, settlement, due>>

ApproveWithdrawal(w, version) ==
  /\ Decide(w, "submitted", version, "approved")
  /\ UNCHANGED <<tenantOpen, settlement, due, account, ledger>>

RejectWithdrawal(w, version) ==
  /\ Decide(w, "submitted", version, "rejected")
  /\ Unfreeze(w)
  /\ UNCHANGED <<tenantOpen, settlement, due>>

ConfirmTransfer(w, version) ==
  /\ Decide(w, "approved", version, "paid")
  /\ Move(w, "withdrawal", withdrawal[w].amount, "frozen", "withdrawn")
  /\ UNCHANGED <<tenantOpen, settlement, due>>

Withdrawing(w) ==
  \/ \E amount \in Requested : SubmitWithdrawal(w, amount)
  \/ \E version \in 0..2 :
       \/ CancelWithdrawal(w, version)
       \/ ApproveWithdrawal(w, version)
       \/ RejectWithdrawal(w, version)
       \/ ConfirmTransfer(w, version)

\* What FinanceService and the clock do by themselves.
Managing ==
  \/ ChangeTenant
  \/ \E c \in Charges : BecomeDue(c)
  \/ \E S \in SUBSET Charges : SettleDue(S)
  \/ \E w \in Withdrawals : Withdrawing(w)

FinanceNext ==
  \/ \E c \in Charges : CreditCharge(c) \/ CloseSettlement(c)
  \/ Managing

FinanceSpec == FinanceInit /\ [][FinanceNext]_financeVars

-----------------------------------------------------------------------------
(* What the merchant's account must say.                                 *)

Total(legs) == SumFunctionOnSet([l \in legs |-> l.delta], legs)
InStatus(statuses) == {w \in Withdrawals : withdrawal[w].status \in statuses}
AmountsOf(W) == SumFunctionOnSet([w \in W |-> withdrawal[w].amount], W)

\* Each bucket is the sum of its ledger entries: no entry is applied twice
\* and no balance moves without one (apply_merchant_balance_ledger_entry).
BalanceIsLedger ==
  \A b \in Buckets : account[b] = Total({l \in ledger : l.bucket = b})

\* The pending bucket owes the pending settlements, the frozen one the
\* withdrawals under way, the withdrawn one those that were paid, whatever
\* the order in which settlements, refunds and withdrawals reach the account.
BucketsAreOwed ==
  /\ account["pending"] = Worth({c \in Charges : settlement[c] = "pending"})
  /\ account["frozen"] = AmountsOf(InStatus({"submitted", "approved"}))
  /\ account["withdrawn"] = AmountsOf(InStatus({"paid"}))

\* The merchant was and will be paid what was settled, less the refunds that
\* were debited after settlement: a refund left to manual reconciliation
\* takes nothing from the merchant.
PaidFromSettled ==
  LET Leg(c, type, bucket) ==
        \E l \in ledger : l.ref = c /\ l.type = type /\ l.bucket = bucket
  IN account["available"] + account["frozen"] + account["withdrawn"]
       = Worth({c \in Charges : /\ Leg(c, "settlement_available", "available")
                                /\ ~Leg(c, "refund", "available")})

\* Together: each bucket is explained by its ledger and by what the merchant is
\* owed, whatever the order in which settlements, refunds and withdrawals come.
AccountIsExplained == BalanceIsLedger /\ BucketsAreOwed /\ PaidFromSettled

\* A refund before settlement always finds its money: only the refund of a
\* settled charge can be left to manual reconciliation.
PendingRefundIsCovered ==
  [][\A c \in Charges :
       settlement[c] = "pending" /\ settlement'[c] = "refunded"
         => account'["pending"] = account["pending"] - AmountOf[c]]_financeVars

\* The buckets in which a charge or withdrawal has an entry of some type.
Posted(ref, type) == {l.bucket : l \in {k \in ledger : k.ref = ref /\ k.type = type}}

SettlementTold(c) ==
  LET settled == Posted(c, "settlement_available")
      debited == Posted(c, "refund")
  IN
  /\ Posted(c, "payment_pending") = IF settlement[c] = "none" THEN {} ELSE {"pending"}
  /\ settlement[c] \in {"none", "pending"} => settled = {}
  /\ settlement[c] = "settled" => settled = {"pending", "available"}
  /\ settlement[c] # "refunded" => debited = {}
  /\ settlement[c] = "refunded" =>
       \/ settled = {} /\ debited \subseteq {"pending"}
       \/ settled = {"pending", "available"} /\ debited \subseteq {"available"}

WithdrawalTold(w) ==
  LET status == withdrawal[w].status IN
  /\ Posted(w, "freeze") = IF status = "none" THEN {} ELSE {"available", "frozen"}
  /\ Posted(w, "unfreeze")
       = IF status \in {"cancelled", "rejected"} THEN {"available", "frozen"} ELSE {}
  /\ Posted(w, "withdrawal") = IF status = "paid" THEN {"frozen", "withdrawn"} ELSE {}

\* The statuses and the ledger tell the same story: a settlement or a
\* withdrawal has exactly the entries its status calls for, so that none is
\* settled twice, frozen without a withdrawal, or returned and also paid.
LedgerTellsStatus ==
  /\ \A c \in Charges : SettlementTold(c)
  /\ \A w \in Withdrawals : WithdrawalTold(w)
=============================================================================
