------------------------------ MODULE Referrals ------------------------------
(*************************************************************************)
(* Invitations between the customers of one merchant and the commissions *)
(* their orders earn: ReferralService, ReferralSettlementWorkerService,  *)
(* the part of a refund that takes a commission back, and the triggers   *)
(* of migration 0018.                                                    *)
(*                                                                       *)
(* The trigger that forbids cycles reads the committed bindings only, so *)
(* the transaction of bindReferral has three steps here: it locks the    *)
(* customer's account (for update), the trigger looks, and the foreign   *)
(* key locks the inviter's account (for key share), which waits for a    *)
(* customer who is binding.                                              *)
(*************************************************************************)
EXTENDS Integers, Functions

CONSTANTS
  Members,         (* Customers.                                         *)
  Purchases,       (* Orders.                                            *)
  BuyerOf,         (* The customer of an order.                          *)
  WorthOf,         (* total_minor of an order.                           *)
  Rates,           (* The commission_bps that staff choose from.         *)
  MaxRateChanges,  (* Bound on changes of the merchant's configuration.  *)
  Nobody

ASSUME NobodyAssumption == Nobody \notin Members
ASSUME PurchaseAssumption ==
  /\ BuyerOf \in [Purchases -> Members]
  /\ WorthOf \in [Purchases -> Nat]
ASSUME RatesAssumption == Rates \subseteq 0 .. 10000

VARIABLES
  rate,          (* tenant_referral_configs: commission_bps while enabled,
                    0 while not, and version.                                *)
  inviteCode,    (* The customers with a row in customer_referral_codes.    *)
  inviter,       (* customer_referrals.inviter_account_id                   *)
  binding,       (* The transaction of bindReferral each customer has open. *)
  purchase,      (* An order and its webhook.                               *)
  boundLater,    (* The orders whose paid_at is before their buyer's
                    bound_at, if that binding commits.                       *)
  commissions,   (* referral_commissions of an order.                         *)
  earnings,      (* referral_commission_accounts                         *)
  entries        (* referral_commission_ledger: order and entry_type.    *)

referralVars == <<rate, inviteCode, inviter, binding, purchase, boundLater, commissions,
                  earnings, entries>>

NoCommission == [status |-> "none", to |-> Nobody, minor |-> 0, from |-> "none"]
NoBinding    == [step |-> "none", inviter |-> Nobody]

ReferralTypeOK ==
  /\ rate \in [bps: Rates \cup {0}, version: Nat]
  /\ inviteCode \subseteq Members
  /\ inviter \in [Members -> Members \cup {Nobody}]
  /\ binding \in [Members -> [step: {"none", "locked", "checked"}, inviter: Members \cup {Nobody}]]
  /\ purchase \in [Purchases -> {"open", "paying", "paid", "refunded"}]
  /\ boundLater \subseteq Purchases
  /\ commissions \in [Purchases -> [status: {"none", "pending", "available", "reversed"},
       to: Members \cup {Nobody}, minor: Nat, from: {"none", "pending", "available"}]]
  /\ earnings \in [Members -> [pending: Nat, available: Nat]]
  /\ entries \subseteq Purchases \X {"commission_pending", "settlement_pending_debit",
       "settlement_available_credit", "reversal_pending_debit", "reversal_available_debit"}

ReferralInit ==
  /\ rate = [bps |-> 0, version |-> 0]
  /\ inviteCode = {}
  /\ inviter = [c \in Members |-> Nobody]
  /\ binding = [c \in Members |-> NoBinding]
  /\ purchase = [o \in Purchases |-> "open"]
  /\ boundLater = {}
  /\ commissions = [o \in Purchases |-> NoCommission]
  /\ earnings = [c \in Members |-> [pending |-> 0, available |-> 0]]
  /\ entries = {}

\* upsertTenantConfig: the version the form was opened with is the row's.
UpsertTenantConfig(bps) ==
  /\ rate.version < MaxRateChanges
  /\ rate' = [bps |-> bps, version |-> rate.version + 1]
  /\ UNCHANGED <<inviteCode, inviter, binding, purchase, boundLater, commissions, earnings,
                 entries>>

\* A customer who is binding has its account locked, here and below.
CreateInviteCode(c) ==
  /\ binding[c] = NoBinding
  /\ inviteCode' = inviteCode \cup {c}
  /\ UNCHANGED <<rate, inviter, binding, purchase, boundLater, commissions, earnings, entries>>

-----------------------------------------------------------------------------
(* bindReferral.                                                         *)

\* Its account is locked, and stays so; bound_at is now.
BeginBinding(c, i) ==
  /\ binding[c] = NoBinding
  /\ i \in inviteCode \ {c}
  /\ inviter[c] = Nobody
  /\ binding' = [binding EXCEPT ![c] = [step |-> "locked", inviter |-> i]]
  /\ boundLater' = boundLater \cup {o \in Purchases : BuyerOf[o] = c /\ purchase[o] = "paying"}
  /\ UNCHANGED <<rate, inviteCode, inviter, purchase, commissions, earnings, entries>>

\* inviter_chain: the customer and those above, who are in every set that holds
\* the customer and the inviter of each of its members.
InviterChain(c) ==
  {x \in Members : \A S \in SUBSET Members :
     c \in S /\ (\A y \in S : inviter[y] \in S \cup {Nobody}) => x \in S}

Bought(c) == \E o \in Purchases : BuyerOf[o] = c /\ purchase[o] \in {"paid", "refunded"}

\* enforce_customer_referral_binding; a binding that it refuses is withdrawn.
CheckBinding(c) ==
  /\ binding[c].step = "locked"
  /\ IF Bought(c) \/ c \in InviterChain(binding[c].inviter)
     THEN binding' = [binding EXCEPT ![c] = NoBinding]
     ELSE binding' = [binding EXCEPT ![c].step = "checked"]
  /\ UNCHANGED <<rate, inviteCode, inviter, purchase, boundLater, commissions, earnings, entries>>

\* Mutant: the row's foreign key locks nothing.
CommitsAtOnce(c) ==
  /\ binding[c].step = "checked"
  /\ inviter' = [inviter EXCEPT ![c] = binding[c].inviter]
  /\ binding' = [binding EXCEPT ![c] = NoBinding]
  /\ UNCHANGED <<rate, inviteCode, purchase, boundLater, commissions, earnings, entries>>

CommitBinding(c) ==
  /\ binding[c].step = "checked"
  /\ binding[binding[c].inviter] = NoBinding
  /\ inviter' = [inviter EXCEPT ![c] = binding[c].inviter]
  /\ binding' = [binding EXCEPT ![c] = NoBinding]
  /\ UNCHANGED <<rate, inviteCode, purchase, boundLater, commissions, earnings, entries>>

\* The process stops, the lock is waited for too long, or a deadlock is found.
AbortBinding(c) ==
  /\ binding[c] # NoBinding
  /\ binding' = [binding EXCEPT ![c] = NoBinding]
  /\ UNCHANGED <<rate, inviteCode, inviter, purchase, boundLater, commissions, earnings, entries>>

-----------------------------------------------------------------------------
(* Commissions and their ledger.                                         *)

Debits == {"settlement_pending_debit", "reversal_pending_debit", "reversal_available_debit"}
Bucket(type) == IF type \in {"settlement_available_credit", "reversal_available_debit"}
                THEN "available" ELSE "pending"

\* What entries of these types add to a bucket.
Effect(minor, types, b) ==
  LET delta == [type \in types |-> IF Bucket(type) # b THEN 0
                                   ELSE IF type \in Debits THEN -minor ELSE minor]
  IN SumFunctionOnSet(delta, types)

\* apply_referral_commission_ledger: an entry moves its bucket, once for each
\* type, and never below zero.
Enter(o, to, minor, types) ==
  LET after == [pending   |-> earnings[to].pending + Effect(minor, types, "pending"),
                available |-> earnings[to].available + Effect(minor, types, "available")]
  IN /\ entries \cap {<<o, type>> : type \in types} = {}
     /\ after.pending >= 0 /\ after.available >= 0
     /\ entries' = entries \cup {<<o, type>> : type \in types}
     /\ earnings' = [earnings EXCEPT ![to] = after]

\* The transaction of the success webhook begins: paid_at is now.
BeginPayment(o) ==
  /\ purchase[o] = "open"
  /\ purchase' = [purchase EXCEPT ![o] = "paying"]
  /\ UNCHANGED <<rate, inviteCode, inviter, binding, boundLater, commissions, earnings, entries>>

\* The webhook fails and is delivered again: another transaction, another paid_at.
AbortPayment(o) ==
  /\ purchase[o] = "paying"
  /\ purchase' = [purchase EXCEPT ![o] = "open"]
  /\ boundLater' = boundLater \ {o}
  /\ UNCHANGED <<rate, inviteCode, inviter, binding, commissions, earnings, entries>>

Minor(o) == (WorthOf[o] * rate.bps) \div 10000

\* recordPaidOrderCommission: to the customer the buyer was bound to when the
\* payment began, at the present rate, unless that rounds to nothing.
RecordPaidOrderCommission(o) ==
  LET to == inviter[BuyerOf[o]]
  IN IF to = Nobody \/ o \in boundLater \/ Minor(o) = 0
     THEN UNCHANGED <<commissions, earnings, entries>>
     ELSE /\ commissions' = [commissions EXCEPT ![o] =
               [status |-> "pending", to |-> to, minor |-> Minor(o), from |-> "none"]]
          /\ Enter(o, to, Minor(o), {"commission_pending"})

\* The webhook locks the buyer's account before it pays the order.
CommitPayment(o) ==
  /\ purchase[o] = "paying"
  /\ binding[BuyerOf[o]] = NoBinding
  /\ purchase' = [purchase EXCEPT ![o] = "paid"]
  /\ RecordPaidOrderCommission(o)
  /\ UNCHANGED <<rate, inviteCode, inviter, binding, boundLater>>

\* settleDue, of one commission that is due and not locked.
SettleCommission(o) ==
  /\ commissions[o].status = "pending"
  /\ commissions' = [commissions EXCEPT ![o].status = "available"]
  /\ Enter(o, commissions[o].to, commissions[o].minor,
           {"settlement_pending_debit", "settlement_available_credit"})
  /\ UNCHANGED <<rate, inviteCode, inviter, binding, purchase, boundLater>>

\* reverseReferralCommission, from the bucket the commission is in.
ReverseReferralCommission(o) ==
  IF commissions[o].status \notin {"pending", "available"}
  THEN UNCHANGED <<commissions, earnings, entries>>
  ELSE /\ commissions' = [commissions EXCEPT ![o].status = "reversed",
                                             ![o].from = commissions[o].status]
       /\ Enter(o, commissions[o].to, commissions[o].minor,
                {IF commissions[o].status = "pending" THEN "reversal_pending_debit"
                 ELSE "reversal_available_debit"})

RefundPurchase(o) ==
  /\ purchase[o] = "paid"
  /\ purchase' = [purchase EXCEPT ![o] = "refunded"]
  /\ ReverseReferralCommission(o)
  /\ UNCHANGED <<rate, inviteCode, inviter, binding, boundLater>>

-----------------------------------------------------------------------------
ReferralNext ==
  \/ \E bps \in Rates \cup {0} : UpsertTenantConfig(bps)
  \/ \E c \in Members :
       \/ CreateInviteCode(c) \/ CheckBinding(c) \/ CommitBinding(c) \/ AbortBinding(c)
       \/ \E i \in Members : BeginBinding(c, i)
  \/ \E o \in Purchases :
       \/ BeginPayment(o) \/ AbortPayment(o) \/ CommitPayment(o) \/ SettleCommission(o)
       \/ RefundPurchase(o)

ReferralSpec == ReferralInit /\ [][ReferralNext]_referralVars

-----------------------------------------------------------------------------
(* Properties.                                                           *)

\* No two customers invite each other, although each of the two checks sees
\* only what the other has committed: one of the two locks has to wait.
\* (A circle of three is possible: one binding is old, the other two commit
\* one after the other, both checked before the first did.)
NobodyInvitesBack ==
  \A c \in Members : inviter[c] # Nobody => inviter[inviter[c]] # c

\* A customer who had bought before is bound to nobody.
BoundBeforeBuying ==
  \A c \in Members : inviter'[c] # inviter[c] => inviter[c] = Nobody /\ ~Bought(c)

\* What the commissions of one status add up to for a customer.
CommissionsOf(c, status) ==
  {o \in Purchases : commissions[o].to = c /\ commissions[o].status = status}

Earned(c, status) ==
  SumFunctionOnSet([o \in Purchases |-> commissions[o].minor], CommissionsOf(c, status))

\* A commission is owed to the one customer who had invited its buyer, and what
\* a customer is owed, pending and matured, is what its entries add up to:
\* a refund takes a commission back from where it is by then.
EarningsAreCommissions ==
  /\ \A o \in Purchases : commissions[o].status # "none" => commissions[o].to = inviter[BuyerOf[o]]
  /\ \A c \in Members :
       earnings[c] = [pending |-> Earned(c, "pending"), available |-> Earned(c, "available")]

\* Together: who invited whom, and what it earned them.
InvitationsAreFair ==
  [][NobodyInvitesBack' /\ EarningsAreCommissions' /\ BoundBeforeBuying]_referralVars
=============================================================================
