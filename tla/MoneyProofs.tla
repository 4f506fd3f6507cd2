----------------------------- MODULE MoneyProofs -----------------------------
(*************************************************************************)
(* Proofs about the merchant's account and the refunds made from it: its *)
(* buckets stay in range and its ledger tells the status of every        *)
(* settlement and withdrawal; the refund code uses the account only as   *)
(* MerchantFinance allows; a refund is booked at most once per order,    *)
(* completely, and only if the provider made it; the answer stored for a *)
(* key is never stale; a processed webhook has taken effect.  Every      *)
(* bucket is the sum of its entries and what the merchant is owed; and   *)
(* whatever ran in between, no transaction writes what the database's    *)
(* triggers refuse.  Invitations go one way, and what they earn is what  *)
(* their commissions add up to.  The sums rest on lemmas about sums over *)
(* finite sets: a set that breaks a law of sums has a smallest subset    *)
(* that breaks it, and taking one element from that one gives the        *)
(* contradiction.                                                        *)
(*************************************************************************)
EXTENDS RefundRules, Referrals, FiniteSetTheorems, TLAPS

-----------------------------------------------------------------------------
(* The account, as MerchantFinance has it.                               *)

\* The initial account is well typed.
LEMMA InitFinanceType == FinanceInit => FinanceTypeOK
BY BalanceAssumption DEF FinanceInit, FinanceTypeOK, SettlementStatus,
   WithdrawalStatus

\* One entry keeps the account and the ledger well typed.
LEMMA PostType ==
  ASSUME FinanceTypeOK,
         NEW ref \in Charges \cup Withdrawals, NEW type \in EntryType,
         NEW bucket \in Buckets, NEW delta \in Int,
         Post(ref, type, bucket, delta)
  PROVE  /\ account' \in [Buckets -> 0..MaxBalance]
         /\ ledger' \subseteq [ref: Charges \cup Withdrawals, type: EntryType,
                               bucket: Buckets, delta: Int]
BY DEF FinanceTypeOK, Post, Entry

\* So do the two entries of a move.
LEMMA MoveType ==
  ASSUME FinanceTypeOK,
         NEW ref \in Charges \cup Withdrawals, NEW type \in EntryType,
         NEW amount \in Nat, NEW from \in Buckets, NEW to \in Buckets,
         Move(ref, type, amount, from, to)
  PROVE  /\ account' \in [Buckets -> 0..MaxBalance]
         /\ ledger' \subseteq [ref: Charges \cup Withdrawals, type: EntryType,
                               bucket: Buckets, delta: Int]
<1>1. -amount \in Int OBVIOUS
<1>2. account' \in [Buckets -> 0..MaxBalance]
  BY DEF FinanceTypeOK, Move
<1>3. /\ Entry(ref, type, from, -amount)
           \in [ref: Charges \cup Withdrawals, type: EntryType, bucket: Buckets, delta: Int]
      /\ Entry(ref, type, to, amount)
           \in [ref: Charges \cup Withdrawals, type: EntryType, bucket: Buckets, delta: Int]
  BY <1>1 DEF Entry
<1> QED BY <1>2, <1>3 DEF FinanceTypeOK, Move

\* A decision on a withdrawal keeps it well typed.
LEMMA DecideType ==
  ASSUME FinanceTypeOK, NEW w \in Withdrawals, NEW from, NEW version,
         NEW to \in WithdrawalStatus, Decide(w, from, version, to)
  PROVE  withdrawal' \in [Withdrawals ->
           [status: WithdrawalStatus, version: Nat, amount: Nat]]
BY DEF FinanceTypeOK, Decide

\* Every operation keeps the account well typed.
LEMMA NextFinanceType == FinanceTypeOK /\ [FinanceNext]_financeVars => FinanceTypeOK'
<1> SUFFICES ASSUME FinanceTypeOK, [FinanceNext]_financeVars PROVE FinanceTypeOK'
  OBVIOUS
<1> USE DEF EntryType, Buckets
<1>1. ASSUME NEW c \in Charges, CreditCharge(c) PROVE FinanceTypeOK'
  <2>1. AmountOf[c] \in Int BY AmountAssumption
  <2>2. /\ account' \in [Buckets -> 0..MaxBalance]
        /\ ledger' \subseteq [ref: Charges \cup Withdrawals, type: EntryType,
                              bucket: Buckets, delta: Int]
    BY <1>1, <2>1, PostType DEF CreditCharge
  <2> QED BY <1>1, <2>2 DEF CreditCharge, FinanceTypeOK, SettlementStatus
<1>2. ASSUME NEW c \in Charges, CloseSettlement(c) PROVE FinanceTypeOK'
  <2>1. -AmountOf[c] \in Int BY AmountAssumption
  <2>2. /\ account' \in [Buckets -> 0..MaxBalance]
        /\ ledger' \subseteq [ref: Charges \cup Withdrawals, type: EntryType,
                              bucket: Buckets, delta: Int]
    <3>1. CASE Covered(c)
      <4> PICK b \in Buckets : CoveredBy(c, b) /\ Post(c, "refund", b, -AmountOf[c])
        BY <1>2, <3>1 DEF CloseSettlement
      <4> QED BY <2>1, PostType
    <3>2. CASE ~Covered(c)
      BY <1>2, <3>2 DEF CloseSettlement, FinanceTypeOK
    <3> QED BY <3>1, <3>2
  <2> QED BY <1>2, <2>2 DEF CloseSettlement, FinanceTypeOK, SettlementStatus
<1>3. ASSUME ChangeTenant PROVE FinanceTypeOK'
  BY <1>3 DEF ChangeTenant, FinanceTypeOK
<1>4. ASSUME NEW c \in Charges, BecomeDue(c) PROVE FinanceTypeOK'
  BY <1>4 DEF BecomeDue, FinanceTypeOK
<1>5. ASSUME NEW S \in SUBSET Charges, SettleDue(S) PROVE FinanceTypeOK'
  <2>1. account' \in [Buckets -> 0..MaxBalance]
    BY <1>5 DEF SettleDue, FinanceTypeOK
  <2>2. \A c \in S : AmountOf[c] \in Int /\ -AmountOf[c] \in Int
    BY AmountAssumption
  <2>3. ledger' \subseteq [ref: Charges \cup Withdrawals, type: EntryType,
                           bucket: Buckets, delta: Int]
    BY <1>5, <2>2 DEF SettleDue, FinanceTypeOK, Entry
  <2>4. settlement' \in [Charges -> SettlementStatus]
    BY <1>5 DEF SettleDue, FinanceTypeOK, SettlementStatus
  <2> QED BY <1>5, <2>1, <2>3, <2>4 DEF SettleDue, FinanceTypeOK
<1>6. ASSUME NEW w \in Withdrawals, Withdrawing(w) PROVE FinanceTypeOK'
  <2> USE DEF WithdrawalStatus
  <2>0. withdrawal[w].amount \in Nat BY DEF FinanceTypeOK
  <2>1. ASSUME NEW amount \in Requested, SubmitWithdrawal(w, amount)
        PROVE  FinanceTypeOK'
    <3>1. amount \in Nat BY RequestedAssumption
    <3>2. /\ account' \in [Buckets -> 0..MaxBalance]
          /\ ledger' \subseteq [ref: Charges \cup Withdrawals, type: EntryType,
                                bucket: Buckets, delta: Int]
      BY <2>1, <3>1, MoveType DEF SubmitWithdrawal
    <3>3. withdrawal' \in [Withdrawals ->
            [status: WithdrawalStatus, version: Nat, amount: Nat]]
      BY <2>1, <3>1 DEF SubmitWithdrawal, FinanceTypeOK
    <3> QED BY <2>1, <3>2, <3>3 DEF SubmitWithdrawal, FinanceTypeOK
  <2>2. ASSUME NEW version \in 0..2, CancelWithdrawal(w, version)
        PROVE  FinanceTypeOK'
    BY <2>2, <2>0, MoveType, DecideType DEF CancelWithdrawal, Unfreeze, FinanceTypeOK
  <2>3. ASSUME NEW version \in 0..2, ApproveWithdrawal(w, version)
        PROVE  FinanceTypeOK'
    BY <2>3, DecideType DEF ApproveWithdrawal, FinanceTypeOK
  <2>4. ASSUME NEW version \in 0..2, RejectWithdrawal(w, version)
        PROVE  FinanceTypeOK'
    BY <2>4, <2>0, MoveType, DecideType DEF RejectWithdrawal, Unfreeze, FinanceTypeOK
  <2>5. ASSUME NEW version \in 0..2, ConfirmTransfer(w, version)
        PROVE  FinanceTypeOK'
    BY <2>5, <2>0, MoveType, DecideType DEF ConfirmTransfer, FinanceTypeOK
  <2> QED BY <1>6, <2>1, <2>2, <2>3, <2>4, <2>5 DEF Withdrawing
<1>7. ASSUME UNCHANGED financeVars PROVE FinanceTypeOK'
  BY <1>7 DEF financeVars, FinanceTypeOK
<1> QED BY <1>1, <1>2, <1>3, <1>4, <1>5, <1>6, <1>7 DEF FinanceNext, Managing

\* The type invariant: no sequence of payments, settlements, refunds and
\* withdrawals takes a bucket out of its range.
THEOREM FinanceTypeCorrect == FinanceSpec => []FinanceTypeOK
BY InitFinanceType, NextFinanceType, PTL DEF FinanceSpec
-----------------------------------------------------------------------------
(* The ledger and the statuses.                                          *)

\* New entries add their buckets to those posted for a reference.
LEMMA PostedGrows ==
  ASSUME NEW L, ledger' = ledger \cup L, NEW r, NEW t
  PROVE  Posted(r, t)' =
           Posted(r, t) \cup {l.bucket : l \in {k \in L : k.ref = r /\ k.type = t}}
<1>1. Posted(r, t)' = {l.bucket : l \in {k \in ledger' : k.ref = r /\ k.type = t}}
  BY DEF Posted
<1> QED BY <1>1 DEF Posted

\* What one entry adds.
LEMMA PostPosted ==
  ASSUME NEW ref, NEW type, NEW bucket, NEW delta, Post(ref, type, bucket, delta),
         NEW r, NEW t
  PROVE  Posted(r, t)' = IF r = ref /\ t = type THEN Posted(r, t) \cup {bucket}
                                                ELSE Posted(r, t)
<1> DEFINE e == Entry(ref, type, bucket, delta)
           L == {e}
<1>1. ledger' = ledger \cup L BY DEF Post
<1>2. e.ref = ref /\ e.type = type /\ e.bucket = bucket BY DEF Entry
<1> HIDE DEF L
<1>3. Posted(r, t)' =
        Posted(r, t) \cup {l.bucket : l \in {k \in L : k.ref = r /\ k.type = t}}
  BY <1>1, PostedGrows
<1> HIDE DEF e
<1> QED BY <1>2, <1>3 DEF L

\* What the two entries of a move add.
LEMMA MovePosted ==
  ASSUME NEW ref, NEW type, NEW amount, NEW from, NEW to,
         Move(ref, type, amount, from, to), NEW r, NEW t
  PROVE  Posted(r, t)' = IF r = ref /\ t = type THEN Posted(r, t) \cup {from, to}
                                                ELSE Posted(r, t)
<1> DEFINE d == Entry(ref, type, from, -amount)
           e == Entry(ref, type, to, amount)
           L == {d, e}
<1>1. ledger' = ledger \cup L BY DEF Move
<1>2. /\ d.ref = ref /\ d.type = type /\ d.bucket = from
      /\ e.ref = ref /\ e.type = type /\ e.bucket = to
  BY DEF Entry
<1> HIDE DEF L
<1>3. Posted(r, t)' =
        Posted(r, t) \cup {l.bucket : l \in {k \in L : k.ref = r /\ k.type = t}}
  BY <1>1, PostedGrows
<1> HIDE DEF d, e
<1> QED BY <1>2, <1>3 DEF L

\* What a batch of settlements adds.
LEMMA SettlePosted ==
  ASSUME NEW S, SettleDue(S), NEW r, NEW t
  PROVE  Posted(r, t)' = IF r \in S /\ t = "settlement_available"
                           THEN Posted(r, t) \cup {"pending", "available"}
                           ELSE Posted(r, t)
<1> DEFINE d(c) == Entry(c, "settlement_available", "pending", -AmountOf[c])
           e(c) == Entry(c, "settlement_available", "available", AmountOf[c])
           L == {d(c) : c \in S} \cup {e(c) : c \in S}
<1>1. ledger' = ledger \cup L BY DEF SettleDue
<1>2. \A c : /\ d(c).ref = c /\ d(c).type = "settlement_available" /\ d(c).bucket = "pending"
             /\ e(c).ref = c /\ e(c).type = "settlement_available" /\ e(c).bucket = "available"
  BY DEF Entry
<1> HIDE DEF L
<1>3. Posted(r, t)' =
        Posted(r, t) \cup {l.bucket : l \in {k \in L : k.ref = r /\ k.type = t}}
  BY <1>1, PostedGrows
<1> HIDE DEF d, e
<1>4. {l.bucket : l \in {k \in L : k.ref = r /\ k.type = t}}
        = IF r \in S /\ t = "settlement_available" THEN {"pending", "available"} ELSE {}
  BY <1>2 DEF L
<1> QED BY <1>3, <1>4

\* A step that changes neither a status nor the ledger changes nothing told.
LEMMA QuietTold ==
  ASSUME LedgerTellsStatus, UNCHANGED <<settlement, withdrawal, ledger>>
  PROVE  LedgerTellsStatus'
BY DEF LedgerTellsStatus, SettlementTold, WithdrawalTold, Posted

\* Entries of a charge's types tell nothing of withdrawals.
LEMMA WithdrawalsKept ==
  ASSUME LedgerTellsStatus, UNCHANGED withdrawal,
         \A w \in Withdrawals, t \in {"freeze", "unfreeze", "withdrawal"} :
           Posted(w, t)' = Posted(w, t)
  PROVE  \A w \in Withdrawals : WithdrawalTold(w)'
BY DEF LedgerTellsStatus, WithdrawalTold

\* Entries of a withdrawal's types tell nothing of charges.
LEMMA SettlementsKept ==
  ASSUME LedgerTellsStatus, UNCHANGED settlement,
         \A c \in Charges, t \in {"payment_pending", "settlement_available", "refund"} :
           Posted(c, t)' = Posted(c, t)
  PROVE  \A c \in Charges : SettlementTold(c)'
BY DEF LedgerTellsStatus, SettlementTold

\* A withdrawal decided on is the only one whose entries change.
LEMMA DecidedTold ==
  ASSUME FinanceTypeOK, LedgerTellsStatus, UNCHANGED settlement,
         NEW w \in Withdrawals, NEW from, NEW version, NEW to,
         Decide(w, from, version, to),
         \A r, t : t \notin {"freeze", "unfreeze", "withdrawal"} \/ r # w
                    => Posted(r, t)' = Posted(r, t),
         Posted(w, "freeze")' = Posted(w, "freeze"),
         from # "none", to # "none",
         Posted(w, "unfreeze")'
           = IF to \in {"cancelled", "rejected"} THEN {"available", "frozen"} ELSE {},
         Posted(w, "withdrawal")' = IF to = "paid" THEN {"frozen", "withdrawn"} ELSE {}
  PROVE  LedgerTellsStatus'
<1>1. \A c \in Charges : SettlementTold(c)' BY SettlementsKept
<1>2. withdrawal'[w].status = to BY DEF Decide, FinanceTypeOK
<1>3. \A v \in Withdrawals \ {w} : withdrawal'[v] = withdrawal[v]
  BY DEF Decide, FinanceTypeOK
<1>4. WithdrawalTold(w)'
  BY <1>2 DEF WithdrawalTold, LedgerTellsStatus, Decide
<1>5. \A v \in Withdrawals \ {w} : WithdrawalTold(v)'
  BY <1>3 DEF WithdrawalTold, LedgerTellsStatus
<1> QED BY <1>1, <1>4, <1>5 DEF LedgerTellsStatus

\* Every operation keeps statuses and ledger in agreement.
LEMMA NextTold ==
  FinanceTypeOK /\ LedgerTellsStatus /\ [FinanceNext]_financeVars => LedgerTellsStatus'
<1> SUFFICES ASSUME FinanceTypeOK, LedgerTellsStatus, [FinanceNext]_financeVars
             PROVE  LedgerTellsStatus'
  OBVIOUS
<1>1. ASSUME NEW c \in Charges, CreditCharge(c) PROVE LedgerTellsStatus'
  <2>1. Post(c, "payment_pending", "pending", AmountOf[c]) BY <1>1 DEF CreditCharge
  <2>2. \A r, t : Posted(r, t)' = IF r = c /\ t = "payment_pending"
                                  THEN Posted(r, t) \cup {"pending"} ELSE Posted(r, t)
    BY <2>1, PostPosted
  <2>3. \A w \in Withdrawals : WithdrawalTold(w)'
    BY <1>1, <2>2, WithdrawalsKept DEF CreditCharge
  <2>4. /\ settlement[c] = "none" /\ settlement'[c] = "pending"
        /\ \A d \in Charges \ {c} : settlement'[d] = settlement[d]
    BY <1>1 DEF CreditCharge, FinanceTypeOK
  <2>5. ASSUME NEW d \in Charges PROVE SettlementTold(d)'
    BY <2>2, <2>4 DEF SettlementTold, LedgerTellsStatus
  <2> QED BY <2>3, <2>5 DEF LedgerTellsStatus
<1>2. ASSUME NEW c \in Charges, CloseSettlement(c) PROVE LedgerTellsStatus'
  <2>1. /\ settlement[c] \in {"pending", "settled"} /\ settlement'[c] = "refunded"
        /\ \A d \in Charges \ {c} : settlement'[d] = settlement[d]
        /\ UNCHANGED withdrawal
    BY <1>2 DEF CloseSettlement, FinanceTypeOK
  <2>2. CASE ~Covered(c)
    <3>1. UNCHANGED ledger BY <1>2, <2>2 DEF CloseSettlement
    <3> QED BY <2>1, <3>1 DEF LedgerTellsStatus, SettlementTold, WithdrawalTold, Posted
  <2>3. CASE Covered(c)
    <3>1. PICK b \in Buckets : CoveredBy(c, b) /\ Post(c, "refund", b, -AmountOf[c])
      BY <1>2, <2>3 DEF CloseSettlement
    <3>2. \A r, t : Posted(r, t)' = IF r = c /\ t = "refund"
                                    THEN Posted(r, t) \cup {b} ELSE Posted(r, t)
      BY <3>1, PostPosted
    <3>3. \A w \in Withdrawals : WithdrawalTold(w)'
      BY <2>1, <3>2, WithdrawalsKept
    <3>4. \A d \in Charges \ {c} : SettlementTold(d)'
      BY <2>1, <3>2 DEF SettlementTold, LedgerTellsStatus
    <3>5. \/ b = "pending" /\ settlement[c] = "pending"
          \/ b = "available" /\ settlement[c] = "settled"
      BY <3>1 DEF CoveredBy
    <3>6. SettlementTold(c)'
      BY <2>1, <3>2, <3>5 DEF SettlementTold, LedgerTellsStatus
    <3> QED BY <3>3, <3>4, <3>6 DEF LedgerTellsStatus
  <2> QED BY <2>2, <2>3
<1>3. ASSUME ChangeTenant \/ (\E c \in Charges : BecomeDue(c)) \/ UNCHANGED financeVars
      PROVE  LedgerTellsStatus'
  BY <1>3, QuietTold DEF ChangeTenant, BecomeDue, financeVars
<1>4. ASSUME NEW S \in SUBSET Charges, SettleDue(S) PROVE LedgerTellsStatus'
  <2>1. \A r, t : Posted(r, t)' = IF r \in S /\ t = "settlement_available"
                                  THEN Posted(r, t) \cup {"pending", "available"}
                                  ELSE Posted(r, t)
    BY <1>4, SettlePosted
  <2>2. \A w \in Withdrawals : WithdrawalTold(w)'
    BY <1>4, <2>1, WithdrawalsKept DEF SettleDue
  <2>3. ASSUME NEW c \in Charges PROVE SettlementTold(c)'
    <3>1. CASE c \in S
      <4>1. settlement[c] = "pending" /\ settlement'[c] = "settled"
        BY <1>4, <3>1 DEF SettleDue
      <4> QED BY <2>1, <3>1, <4>1 DEF SettlementTold, LedgerTellsStatus
    <3>2. CASE c \notin S
      <4>1. settlement'[c] = settlement[c] BY <1>4, <3>2 DEF SettleDue
      <4> QED BY <2>1, <3>2, <4>1 DEF SettlementTold, LedgerTellsStatus
    <3> QED BY <3>1, <3>2
  <2> QED BY <2>2, <2>3 DEF LedgerTellsStatus
<1>5. ASSUME NEW w \in Withdrawals, Withdrawing(w) PROVE LedgerTellsStatus'
  <2>0. WithdrawalTold(w) BY DEF LedgerTellsStatus
  <2>1. ASSUME NEW amount \in Requested, SubmitWithdrawal(w, amount)
        PROVE  LedgerTellsStatus'
    <3>1. Move(w, "freeze", amount, "available", "frozen")
      BY <2>1 DEF SubmitWithdrawal
    <3>2. \A r, t : Posted(r, t)' = IF r = w /\ t = "freeze"
                                    THEN Posted(r, t) \cup {"available", "frozen"}
                                    ELSE Posted(r, t)
      BY <3>1, MovePosted
    <3>3. \A c \in Charges : SettlementTold(c)'
      BY <2>1, <3>2, SettlementsKept DEF SubmitWithdrawal
    <3>4. /\ withdrawal[w].status = "none" /\ withdrawal'[w].status = "submitted"
          /\ \A v \in Withdrawals \ {w} : withdrawal'[v] = withdrawal[v]
      BY <2>1 DEF SubmitWithdrawal, FinanceTypeOK
    <3>5. WithdrawalTold(w)' BY <2>0, <3>2, <3>4 DEF WithdrawalTold
    <3>6. \A v \in Withdrawals \ {w} : WithdrawalTold(v)'
      BY <3>2, <3>4 DEF WithdrawalTold, LedgerTellsStatus
    <3> QED BY <3>3, <3>5, <3>6 DEF LedgerTellsStatus
  <2>2. ASSUME NEW version \in 0..2, CancelWithdrawal(w, version)
        PROVE  LedgerTellsStatus'
    <3>1. Decide(w, "submitted", version, "cancelled") /\ UNCHANGED settlement
      BY <2>2 DEF CancelWithdrawal
    <3>2. Move(w, "unfreeze", withdrawal[w].amount, "frozen", "available")
      BY <2>2 DEF CancelWithdrawal, Unfreeze
    <3>3. \A r, t : Posted(r, t)' = IF r = w /\ t = "unfreeze"
                                    THEN Posted(r, t) \cup {"frozen", "available"}
                                    ELSE Posted(r, t)
      BY <3>2, MovePosted
    <3>4. Posted(w, "unfreeze") = {} /\ Posted(w, "withdrawal") = {}
      BY <2>0, <3>1 DEF WithdrawalTold, Decide
    <3> QED BY <3>1, <3>3, <3>4, DecidedTold
  <2>3. ASSUME NEW version \in 0..2, ApproveWithdrawal(w, version)
        PROVE  LedgerTellsStatus'
    <3>1. Decide(w, "submitted", version, "approved") /\ UNCHANGED <<settlement, ledger>>
      BY <2>3 DEF ApproveWithdrawal
    <3>2. \A r, t : Posted(r, t)' = Posted(r, t) BY <3>1 DEF Posted
    <3>3. Posted(w, "unfreeze") = {} /\ Posted(w, "withdrawal") = {}
      BY <2>0, <3>1 DEF WithdrawalTold, Decide
    <3> QED BY <3>1, <3>2, <3>3, DecidedTold
  <2>4. ASSUME NEW version \in 0..2, RejectWithdrawal(w, version)
        PROVE  LedgerTellsStatus'
    <3>1. Decide(w, "submitted", version, "rejected") /\ UNCHANGED settlement
      BY <2>4 DEF RejectWithdrawal
    <3>2. Move(w, "unfreeze", withdrawal[w].amount, "frozen", "available")
      BY <2>4 DEF RejectWithdrawal, Unfreeze
    <3>3. \A r, t : Posted(r, t)' = IF r = w /\ t = "unfreeze"
                                    THEN Posted(r, t) \cup {"frozen", "available"}
                                    ELSE Posted(r, t)
      BY <3>2, MovePosted
    <3>4. Posted(w, "unfreeze") = {} /\ Posted(w, "withdrawal") = {}
      BY <2>0, <3>1 DEF WithdrawalTold, Decide
    <3> QED BY <3>1, <3>3, <3>4, DecidedTold
  <2>5. ASSUME NEW version \in 0..2, ConfirmTransfer(w, version)
        PROVE  LedgerTellsStatus'
    <3>1. Decide(w, "approved", version, "paid") /\ UNCHANGED settlement
      BY <2>5 DEF ConfirmTransfer
    <3>2. Move(w, "withdrawal", withdrawal[w].amount, "frozen", "withdrawn")
      BY <2>5 DEF ConfirmTransfer
    <3>3. \A r, t : Posted(r, t)' = IF r = w /\ t = "withdrawal"
                                    THEN Posted(r, t) \cup {"frozen", "withdrawn"}
                                    ELSE Posted(r, t)
      BY <3>2, MovePosted
    <3>4. Posted(w, "unfreeze") = {} /\ Posted(w, "withdrawal") = {}
      BY <2>0, <3>1 DEF WithdrawalTold, Decide
    <3> QED BY <3>1, <3>3, <3>4, DecidedTold
  <2> QED BY <1>5, <2>1, <2>2, <2>3, <2>4, <2>5 DEF Withdrawing
<1> QED BY <1>1, <1>2, <1>3, <1>4, <1>5 DEF FinanceNext, Managing

\* Statuses and ledger agree in every reachable state: no settlement is
\* credited or settled twice, no refund debits a bucket the money is not in,
\* and no withdrawal is both returned and paid.
THEOREM LedgerAlwaysTells == FinanceSpec => []LedgerTellsStatus
<1>1. FinanceInit => LedgerTellsStatus
  BY DEF FinanceInit, LedgerTellsStatus, SettlementTold, WithdrawalTold, Posted
<1> QED BY <1>1, InitFinanceType, NextFinanceType, NextTold, PTL DEF FinanceSpec

-----------------------------------------------------------------------------
(* Refunds on the account.                                               *)

(* Refunds on the merchant's account.                                    *)

\* A completed refund closes its settlement, or was never collected by the
\* platform.
LEMMA CompleteFinance ==
  ASSUME NEW f \in Refunds, Complete(f) PROVE [FinanceNext]_financeVars
<1> DEFINE o == RefundOf[f]
<1>1. CASE o \in Charges
  <2>1. CloseSettlement(o) BY <1>1 DEF Complete
  <2> QED BY <1>1, <2>1 DEF FinanceNext
<1>2. CASE o \notin Charges BY <1>2 DEF Complete
<1> QED BY <1>1, <1>2

\* A running request or webhook works for some refund.
LEMMA RequestHasRefund ==
  ASSUME RefundTypeOK, NEW r \in Requests, request[r].pc # "idle"
  PROVE  /\ request[r] \in [pc: {"prepared"} \cup Reply, refund: Refunds]
         /\ request[r].refund \in Refunds
         /\ request[r] # Idle
BY DEF RefundTypeOK, Idle

\* A webhook under way holds an event of some refund.
LEMMA HandlerHasEvent ==
  ASSUME RefundTypeOK, NEW h \in Handlers, handler[h].pc # "idle"
  PROVE  /\ handler[h] \in [pc: {"reserved", "finalized"}, event: Event]
         /\ handler[h].event \in Event
         /\ handler[h].event.refund \in Refunds
         /\ handler[h] # Ready
BY DEF RefundTypeOK, Ready, Event

\* What a request's second transaction does to orders and refunds.
LEMMA FinalizeCases ==
  ASSUME RefundTypeOK, NEW r \in Requests, FinalizeRequest(r)
  PROVE  /\ request[r].refund \in Refunds
         /\ request[r] # Idle
         /\ \/ request[r].pc = "succeeded" /\ Complete(request[r].refund)
            \/ Fail(request[r].refund)
            \/ RecordPending(request[r].refund)
            \/ MarkAmbiguous(request[r].refund)
            \/ LeaveAlone(request[r].refund)
<1>1. request[r].pc # "idle" BY DEF FinalizeRequest, Reply
<1> QED BY <1>1, RequestHasRefund DEF FinalizeRequest

\* What a webhook's second transaction does to them.
LEMMA ApplyCases ==
  ASSUME RefundTypeOK, NEW h \in Handlers, ApplyOutcome(h)
  PROVE  /\ handler[h].event \in Event
         /\ handler[h].event.refund \in Refunds
         /\ handler[h] # Ready
         /\ \/ handler[h].event.type = "succeeded" /\ Complete(handler[h].event.refund)
            \/ Fail(handler[h].event.refund)
            \/ LeaveAlone(handler[h].event.refund)
<1>1. handler[h].pc # "idle" BY DEF ApplyOutcome
<1> QED BY <1>1, HandlerHasEvent DEF ApplyOutcome

\* Every step of refunds is a step of the merchant's account or leaves it.
LEMMA NextFinance ==
  RefundTypeOK /\ [Next]_vars => [FinanceNext]_financeVars
<1> SUFFICES ASSUME RefundTypeOK, [Next]_vars PROVE [FinanceNext]_financeVars
  OBVIOUS
<1>1. ASSUME NEW o \in Orders, Pay(o) PROVE [FinanceNext]_financeVars
  BY <1>1 DEF Pay, FinanceNext
<1>2. ASSUME ManageFinance PROVE [FinanceNext]_financeVars
  BY <1>2 DEF ManageFinance, FinanceNext
<1>3. ASSUME NEW r \in Requests, FinalizeRequest(r) PROVE [FinanceNext]_financeVars
  BY <1>3, FinalizeCases, CompleteFinance DEF Fail, RecordPending, MarkAmbiguous, LeaveAlone
<1>4. ASSUME NEW h \in Handlers, ApplyOutcome(h) PROVE [FinanceNext]_financeVars
  BY <1>4, ApplyCases, CompleteFinance DEF Fail, LeaveAlone
<1>5. ASSUME \/ \E o \in Orders : MatureCommission(o)
             \/ SpendPoints
             \/ \E r \in Requests :
                  \/ \E f \in Refunds : PrepareRefund(r, f) \/ ResumeRefund(r, f)
                  \/ \E reply \in Reply : CallProvider(r, reply)
                  \/ AbandonRequest(r)
             \/ \E f \in Refunds :
                  Decided(f, "succeeded") \/ Decided(f, "failed") \/ Announce(f)
             \/ \E h \in Handlers : Receive(h) \/ MarkProcessed(h) \/ StopHandler(h)
      PROVE  UNCHANGED financeVars
  BY <1>5 DEF MatureCommission, SpendPoints, PrepareRefund, ResumeRefund, CallProvider,
     AbandonRequest, Decided, Announce, Receive, ReceivePending, ReceiveOutcome,
     MarkProcessed, StopHandler
<1>6. ASSUME UNCHANGED vars PROVE UNCHANGED financeVars
  BY <1>6 DEF vars
<1> QED BY <1>1, <1>2, <1>3, <1>4, <1>5, <1>6 DEF Next

-----------------------------------------------------------------------------
(* Type correctness.                                                     *)

\* The initial state is well typed.
LEMMA InitRefundType == Init => RefundTypeOK
BY InitFinanceType DEF Init, RefundTypeOK, RefundStatus, Idle, Ready

\* The orders and refunds as the type invariant has them.
OrdersTyped ==
  /\ order \in [Orders -> {"pending_payment", "paid", "refunded"}]
  /\ wallet \in Nat
  /\ reserved \subseteq Refunds
  /\ released \subseteq Refunds
  /\ revoked \subseteq Orders
  /\ commission \in [Orders -> {"none", "pending", "available", "reversed"}]

RefundsTyped ==
  /\ refund \in [Refunds -> RefundStatus]
  /\ flagged \subseteq Refunds
  /\ bound \subseteq Refunds
  /\ command \in [Refunds -> {"none", "processing", "completed"}]
  /\ answer \in [Refunds -> RefundStatus]

CallsTyped ==
  /\ request \in [Requests ->
       {Idle} \cup [pc: {"prepared"} \cup Reply, refund: Refunds]]
  /\ atProvider \in [Refunds -> {"none", "pending", "succeeded", "failed"}]
  /\ events \subseteq Event
  /\ inbox \in [Event -> {"none", "received", "processed"}]
  /\ handler \in [Handlers ->
       {Ready} \cup [pc: {"reserved", "finalized"}, event: Event]]

\* The type invariant, split so that each step is checked against its part.
LEMMA TypeParts ==
  RefundTypeOK <=> FinanceTypeOK /\ OrdersTyped /\ RefundsTyped /\ CallsTyped
BY DEF RefundTypeOK, OrdersTyped, RefundsTyped, CallsTyped

\* The outcomes of a refund keep orders and refunds well typed.
LEMMA OutcomeType ==
  ASSUME OrdersTyped, RefundsTyped, NEW f \in Refunds,
         \/ Complete(f) \/ Fail(f) \/ RecordPending(f) \/ MarkAmbiguous(f) \/ LeaveAlone(f)
  PROVE  OrdersTyped' /\ RefundsTyped'
<1> USE DEF OrdersTyped, RefundsTyped
<1>0. RefundOf[f] \in Orders BY RefundOfAssumption
<1>1. CASE Complete(f)
  BY <1>1, <1>0 DEF Complete, CompleteCommand, ReverseCommission, RefundStatus
<1>2. CASE Fail(f)
  BY <1>2, PointsAssumption DEF Fail, CompleteCommand, RefundStatus
<1>3. CASE RecordPending(f)
  BY <1>3 DEF RecordPending, CompleteCommand, RefundStatus, orderVars
<1>4. CASE MarkAmbiguous(f)
  BY <1>4 DEF MarkAmbiguous, orderVars
<1>5. CASE LeaveAlone(f)
  BY <1>5 DEF LeaveAlone, orderVars, refundVars
<1> QED BY <1>1, <1>2, <1>3, <1>4, <1>5

\* Every operation keeps the state well typed.
LEMMA NextRefundType == RefundTypeOK /\ [Next]_vars => RefundTypeOK'
<1> SUFFICES ASSUME RefundTypeOK, [Next]_vars
             PROVE  OrdersTyped' /\ RefundsTyped' /\ CallsTyped'
  <2>1. ASSUME RefundTypeOK, [Next]_vars PROVE FinanceTypeOK'
    BY <2>1, NextFinance, NextFinanceType, TypeParts
  <2> QED BY <2>1 DEF RefundTypeOK, OrdersTyped, RefundsTyped, CallsTyped
<1>0. OrdersTyped /\ RefundsTyped /\ CallsTyped BY TypeParts
<1> DEFINE Good == OrdersTyped' /\ RefundsTyped' /\ CallsTyped'
<1>1. ASSUME NEW o \in Orders, Pay(o) PROVE Good
  BY <1>0, <1>1, PointsAssumption
  DEF Pay, OrdersTyped, RefundsTyped, CallsTyped, refundVars, providerVars, webhookVars
<1>2. ASSUME NEW o \in Orders, MatureCommission(o) PROVE Good
  BY <1>0, <1>2
  DEF MatureCommission, OrdersTyped, RefundsTyped, CallsTyped, refundVars, providerVars,
      webhookVars
<1>3. ASSUME SpendPoints PROVE Good
  BY <1>0, <1>3
  DEF SpendPoints, OrdersTyped, RefundsTyped, CallsTyped, refundVars, providerVars,
      webhookVars
<1>4. ASSUME ManageFinance PROVE Good
  BY <1>0, <1>4
  DEF ManageFinance, OrdersTyped, RefundsTyped, CallsTyped, orderVars, refundVars,
      providerVars, webhookVars
<1>5. ASSUME NEW r \in Requests, NEW f \in Refunds, PrepareRefund(r, f) PROVE Good
  <2>1. OrdersTyped' BY <1>0, <1>5, PointsAssumption
    DEF PrepareRefund, Reserve, OrdersTyped
  <2>2. RefundsTyped' BY <1>0, <1>5 DEF PrepareRefund, RefundsTyped, RefundStatus
  <2>3. CallsTyped' BY <1>0, <1>5 DEF PrepareRefund, CallsTyped, providerVars, webhookVars
  <2> QED BY <2>1, <2>2, <2>3
<1>6. ASSUME NEW r \in Requests, NEW f \in Refunds, ResumeRefund(r, f) PROVE Good
  BY <1>0, <1>6
  DEF ResumeRefund, OrdersTyped, RefundsTyped, CallsTyped, orderVars, refundVars,
      providerVars, webhookVars
<1>7. ASSUME NEW r \in Requests, NEW reply \in Reply, CallProvider(r, reply) PROVE Good
  <2>1. request[r].pc # "idle" BY <1>7 DEF CallProvider
  <2>2. request[r] \in [pc: {"prepared"} \cup Reply, refund: Refunds]
    BY <2>1, RequestHasRefund
  <2>3. OrdersTyped' /\ RefundsTyped'
    BY <1>0, <1>7 DEF CallProvider, OrdersTyped, RefundsTyped, orderVars, refundVars
  <2>4. request' = [request EXCEPT ![r] = [@ EXCEPT !.pc = reply]]
    BY <1>7 DEF CallProvider
  <2>5. request' \in [Requests -> {Idle} \cup [pc: {"prepared"} \cup Reply, refund: Refunds]]
    BY <1>0, <2>2, <2>4 DEF CallsTyped
  <2>6. atProvider' \in [Refunds -> {"none", "pending", "succeeded", "failed"}]
    BY <1>0, <1>7 DEF CallProvider, CallsTyped
  <2> QED BY <1>0, <1>7, <2>3, <2>5, <2>6 DEF CallProvider, CallsTyped, webhookVars
<1>8. ASSUME NEW r \in Requests, FinalizeRequest(r) PROVE Good
  <2>1. OrdersTyped' /\ RefundsTyped' BY <1>0, <1>8, FinalizeCases, OutcomeType
  <2>2. CallsTyped' BY <1>0, <1>8 DEF FinalizeRequest, CallsTyped, providerVars, webhookVars
  <2> QED BY <2>1, <2>2
<1>9. ASSUME NEW r \in Requests, AbandonRequest(r) PROVE Good
  BY <1>0, <1>9
  DEF AbandonRequest, OrdersTyped, RefundsTyped, CallsTyped, orderVars, refundVars,
      providerVars, webhookVars
<1>10. ASSUME NEW f \in Refunds, NEW status \in {"succeeded", "failed"}, Decided(f, status)
       PROVE  Good
  BY <1>0, <1>10
  DEF Decided, OrdersTyped, RefundsTyped, CallsTyped, orderVars, refundVars, webhookVars
<1>11. ASSUME NEW f \in Refunds, Announce(f) PROVE Good
  <2>1. [refund |-> f, type |-> atProvider[f]] \in Event
    BY <1>0, <1>11 DEF Announce, CallsTyped, Event
  <2> QED BY <1>0, <1>11, <2>1
      DEF Announce, OrdersTyped, RefundsTyped, CallsTyped, orderVars, refundVars, webhookVars
<1>12. ASSUME NEW h \in Handlers, NEW e \in Event, ReceivePending(h, e) PROVE Good
  <2>1. e.refund \in Refunds BY DEF Event
  <2>2. refund[e.refund] \in RefundStatus BY <1>0, <2>1 DEF RefundsTyped
  <2>3. RefundsTyped'
    BY <1>0, <1>12, <2>1, <2>2 DEF ReceivePending, Bind, CompleteCommand, RefundsTyped
  <2> QED BY <1>0, <1>12, <2>3
      DEF ReceivePending, OrdersTyped, CallsTyped, orderVars, providerVars
<1>13. ASSUME NEW h \in Handlers, NEW e \in Event, ReceiveOutcome(h, e) PROVE Good
  <2>1. e.refund \in Refunds BY DEF Event
  <2>2. RefundsTyped' BY <1>0, <1>13, <2>1 DEF ReceiveOutcome, Bind, RefundsTyped
  <2> QED BY <1>0, <1>13, <2>2
      DEF ReceiveOutcome, OrdersTyped, CallsTyped, orderVars, providerVars
<1>14. ASSUME NEW h \in Handlers, ApplyOutcome(h) PROVE Good
  <2>1. OrdersTyped' /\ RefundsTyped' BY <1>0, <1>14, ApplyCases, OutcomeType
  <2>2. handler[h] \in [pc: {"reserved", "finalized"}, event: Event]
    BY <1>14, HandlerHasEvent DEF ApplyOutcome
  <2>3. handler' = [handler EXCEPT ![h] = [@ EXCEPT !.pc = "finalized"]]
    BY <1>14 DEF ApplyOutcome
  <2>4. handler' \in [Handlers -> {Ready} \cup [pc: {"reserved", "finalized"}, event: Event]]
    BY <1>0, <2>2, <2>3 DEF CallsTyped
  <2> QED BY <1>0, <1>14, <2>1, <2>4 DEF ApplyOutcome, CallsTyped, providerVars
<1>15. ASSUME NEW h \in Handlers, MarkProcessed(h) PROVE Good
  BY <1>0, <1>15
  DEF MarkProcessed, OrdersTyped, RefundsTyped, CallsTyped, orderVars, refundVars, providerVars
<1>16. ASSUME NEW h \in Handlers, StopHandler(h) PROVE Good
  BY <1>0, <1>16
  DEF StopHandler, OrdersTyped, RefundsTyped, CallsTyped, orderVars, refundVars, providerVars
<1>17. ASSUME UNCHANGED vars PROVE Good
  BY <1>0, <1>17
  DEF vars, OrdersTyped, RefundsTyped, CallsTyped, orderVars, refundVars, providerVars,
      webhookVars
<1> QED
  BY <1>1, <1>2, <1>3, <1>4, <1>5, <1>6, <1>7, <1>8, <1>9, <1>10, <1>11, <1>12, <1>13,
     <1>14, <1>15, <1>16, <1>17
  DEF Next, Receive

\* The type invariant.
THEOREM RefundTypeCorrect == Spec => []RefundTypeOK
BY InitRefundType, NextRefundType, PTL DEF Spec

\* Refunds use the merchant's account only as MerchantFinance allows, so that
\* everything proved of the account holds while refunds run.
THEOREM ImplementsFinance == Spec => FinanceSpec
<1>1. Init => FinanceInit BY DEF Init
<1> QED BY <1>1, NextFinance, RefundTypeCorrect, PTL DEF Spec, FinanceSpec

-----------------------------------------------------------------------------
(* Consistency.                                                          *)

\* Nothing is refunded at first.
LEMMA InitRefundConsistent == Init => RefundConsistent
BY DEF Init, FinanceInit, RefundConsistent, OneRefundPerOrder, RefundReversesOrder,
   BookedIsMade, StoredAnswerIsCurrent, ProcessedTookEffect, RefundIsRecorded,
   OutcomesAreTrue, Completed, Live, Event

\* Only a refund makes a settlement refunded, and nothing undoes it.
LEMMA ManagingKeepsRefunded ==
  ASSUME FinanceTypeOK, Managing, NEW c \in Charges
  PROVE  settlement'[c] = "refunded" <=> settlement[c] = "refunded"
<1>1. CASE \E S \in SUBSET Charges : SettleDue(S)
  BY <1>1 DEF SettleDue
<1>2. CASE UNCHANGED settlement BY <1>2
<1> QED
  BY <1>1, <1>2
  DEF Managing, ChangeTenant, BecomeDue, Withdrawing, SubmitWithdrawal, CancelWithdrawal,
      ApproveWithdrawal, RejectWithdrawal, ConfirmTransfer

\* The parts about orders and refunds are kept by a step that changes none of
\* them, nor which settlements are refunded, and undoes nothing at the provider.
LEMMA OrdersKept ==
  ASSUME RefundConsistent, UNCHANGED <<order, reserved, released, revoked, commission,
                                       refund, command, answer>>,
         \A c \in Charges : settlement'[c] = "refunded" <=> settlement[c] = "refunded",
         \A f \in Refunds : atProvider[f] = "succeeded" => atProvider'[f] = "succeeded"
  PROVE  /\ OneRefundPerOrder'
         /\ RefundReversesOrder'
         /\ BookedIsMade'
         /\ StoredAnswerIsCurrent'
BY DEF RefundConsistent, OneRefundPerOrder, RefundReversesOrder, BookedIsMade,
   StoredAnswerIsCurrent, Completed

\* A refund completes only from processing and only on a paid order.
LEMMA CompleteKeeps ==
  ASSUME RefundTypeOK, RefundConsistent, NEW f \in Refunds, Complete(f),
         atProvider[f] = "succeeded", UNCHANGED <<atProvider, events, inbox>>
  PROVE  /\ OneRefundPerOrder'
         /\ RefundReversesOrder'
         /\ BookedIsMade'
         /\ StoredAnswerIsCurrent'
         /\ ProcessedTookEffect'
         /\ RefundIsRecorded'
<1> DEFINE o == RefundOf[f]
<1>0. o \in Orders BY RefundOfAssumption
<1>1. /\ refund[f] = "processing" /\ refund'[f] \in {"succeeded", "manual_reconciliation"}
      /\ \A g \in Refunds \ {f} : refund'[g] = refund[g]
      /\ order[o] = "paid" /\ order'[o] = "refunded"
      /\ \A p \in Orders \ {o} : order'[p] = order[p]
      /\ UNCHANGED <<reserved, released>>
  BY <1>0 DEF Complete, RefundTypeOK
<1>2. /\ command'[f] = "completed" /\ answer'[f] = refund'[f]
      /\ \A g \in Refunds \ {f} : command'[g] = command[g] /\ answer'[g] = answer[g]
  BY DEF Complete, CompleteCommand, RefundTypeOK
<1>3. OneRefundPerOrder'
  BY <1>0, <1>1, RefundOfAssumption DEF RefundConsistent, OneRefundPerOrder, Completed, Live
<1>4. RefundReversesOrder'
  <2>1. /\ revoked' = IF o \in Topups THEN revoked ELSE revoked \cup {o}
        /\ commission'[o] \in {"none", "reversed"}
        /\ \A p \in Orders \ {o} : commission'[p] = commission[p]
    BY <1>0 DEF Complete, ReverseCommission, RefundTypeOK
  <2>2. \A c \in Charges : settlement'[c] = IF c = o THEN "refunded" ELSE settlement[c]
    BY DEF Complete, CloseSettlement, RefundTypeOK, FinanceTypeOK, financeVars
  <2>3. \A p \in Orders :
          /\ p \in revoked' <=> order'[p] = "refunded" /\ p \notin Topups
          /\ p \in Charges => (settlement'[p] = "refunded" <=> order'[p] = "refunded")
          /\ order'[p] = "refunded" => commission'[p] \in {"none", "reversed"}
          /\ commission'[p] = "reversed" => order'[p] = "refunded"
    BY <1>0, <1>1, <2>1, <2>2 DEF RefundConsistent, RefundReversesOrder
  <2>4. \A g \in Refunds :
          /\ g \in reserved' <=> refund'[g] # "none" /\ RefundOf[g] \in Topups
          /\ g \in released' <=> refund'[g] = "failed" /\ RefundOf[g] \in Topups
    BY <1>1 DEF RefundConsistent, RefundReversesOrder
  <2> QED BY <2>3, <2>4 DEF RefundReversesOrder
<1>5. BookedIsMade' BY <1>1 DEF RefundConsistent, BookedIsMade, Completed
<1>6. StoredAnswerIsCurrent' BY <1>1, <1>2 DEF RefundConsistent, StoredAnswerIsCurrent
<1>7. ProcessedTookEffect' BY <1>1 DEF RefundConsistent, ProcessedTookEffect, Event
<1>8. RefundIsRecorded' BY <1>1, <1>2 DEF RefundConsistent, RefundIsRecorded
<1> QED BY <1>3, <1>4, <1>5, <1>6, <1>7, <1>8

\* A failed refund gives back what it reserved.
LEMMA FailKeeps ==
  ASSUME RefundTypeOK, RefundConsistent, NEW f \in Refunds, Fail(f),
         UNCHANGED <<atProvider, events, inbox>>
  PROVE  /\ OneRefundPerOrder'
         /\ RefundReversesOrder'
         /\ BookedIsMade'
         /\ StoredAnswerIsCurrent'
         /\ ProcessedTookEffect'
         /\ RefundIsRecorded'
<1>1. /\ refund[f] = "processing" /\ refund'[f] = "failed"
      /\ \A g \in Refunds \ {f} : refund'[g] = refund[g]
      /\ UNCHANGED <<order, reserved, revoked, commission, settlement>>
      /\ released' = IF f \in reserved THEN released \cup {f} ELSE released
  BY DEF Fail, RefundTypeOK, financeVars
<1>2. /\ command'[f] = "completed" /\ answer'[f] = refund'[f]
      /\ \A g \in Refunds \ {f} : command'[g] = command[g] /\ answer'[g] = answer[g]
  BY DEF Fail, CompleteCommand, RefundTypeOK
<1>3. OneRefundPerOrder'
  BY <1>1 DEF RefundConsistent, OneRefundPerOrder, Completed, Live
<1>4. RefundReversesOrder' BY <1>1 DEF RefundConsistent, RefundReversesOrder
<1>5. BookedIsMade' BY <1>1 DEF RefundConsistent, BookedIsMade, Completed
<1>6. StoredAnswerIsCurrent' BY <1>1, <1>2 DEF RefundConsistent, StoredAnswerIsCurrent
<1>7. ProcessedTookEffect' BY <1>1 DEF RefundConsistent, ProcessedTookEffect, Event
<1>8. RefundIsRecorded' BY <1>1, <1>2 DEF RefundConsistent, RefundIsRecorded
<1> QED BY <1>3, <1>4, <1>5, <1>6, <1>7, <1>8

\* The other outcomes decide nothing.
LEMMA UndecidedKeeps ==
  ASSUME RefundTypeOK, RefundConsistent, NEW f \in Refunds,
         RecordPending(f) \/ MarkAmbiguous(f) \/ LeaveAlone(f),
         UNCHANGED <<atProvider, events, inbox>>
  PROVE  /\ OneRefundPerOrder'
         /\ RefundReversesOrder'
         /\ BookedIsMade'
         /\ StoredAnswerIsCurrent'
         /\ ProcessedTookEffect'
         /\ RefundIsRecorded'
         /\ UNCHANGED refund
<1>1. UNCHANGED <<order, reserved, released, revoked, commission, refund, settlement>>
  BY DEF RecordPending, MarkAmbiguous, LeaveAlone, orderVars, refundVars, financeVars
<1>2. \/ UNCHANGED <<command, answer>>
      \/ /\ refund[f] = "processing"
         /\ command'[f] = "completed" /\ answer'[f] = refund[f]
         /\ \A g \in Refunds \ {f} : command'[g] = command[g] /\ answer'[g] = answer[g]
  BY DEF RecordPending, MarkAmbiguous, LeaveAlone, refundVars, CompleteCommand, RefundTypeOK
<1>3. OneRefundPerOrder' /\ RefundReversesOrder' /\ BookedIsMade'
  BY <1>1 DEF RefundConsistent, OneRefundPerOrder, RefundReversesOrder, BookedIsMade, Completed
<1>4. StoredAnswerIsCurrent' BY <1>1, <1>2 DEF RefundConsistent, StoredAnswerIsCurrent
<1>5. ProcessedTookEffect' BY <1>1 DEF RefundConsistent, ProcessedTookEffect
<1>6. RefundIsRecorded' BY <1>1, <1>2 DEF RefundConsistent, RefundIsRecorded
<1> QED BY <1>1, <1>3, <1>4, <1>5, <1>6

\* A refund once decided stays decided, one that exists stays, and so does
\* what the provider made.
LEMMA OutcomesKept ==
  ASSUME RefundTypeOK, RefundConsistent, UNCHANGED <<request, events, handler, atProvider>>,
         \A f \in Refunds : refund[f] # "none" => refund'[f] # "none",
         \A f \in Refunds : refund[f] \notin {"none", "processing"} =>
                              refund'[f] \notin {"none", "processing"}
  PROVE  OutcomesAreTrue'
<1>1. \A r \in Requests : request[r] # Idle => request[r].refund \in Refunds
  BY DEF RefundTypeOK
<1>2. \A h \in Handlers : handler[h] # Ready => handler[h].event.refund \in Refunds
  BY DEF RefundTypeOK, Event
<1> QED BY <1>1, <1>2 DEF RefundConsistent, OutcomesAreTrue

\* The customer's, the worker's and the merchant's steps.
LEMMA OrderStepConsistent ==
  ASSUME RefundTypeOK, RefundConsistent,
         \/ \E o \in Orders : Pay(o) \/ MatureCommission(o)
         \/ SpendPoints
         \/ ManageFinance
  PROVE  RefundConsistent'
<1>1. UNCHANGED <<refund, command, answer, reserved, released, revoked, request, events,
                  handler, atProvider, inbox>>
  BY DEF Pay, MatureCommission, SpendPoints, ManageFinance, orderVars, refundVars,
     providerVars, webhookVars
<1>2. OutcomesAreTrue' BY <1>1, OutcomesKept
<1>3. BookedIsMade' /\ StoredAnswerIsCurrent' /\ ProcessedTookEffect' /\ RefundIsRecorded'
  BY <1>1 DEF RefundConsistent, BookedIsMade, StoredAnswerIsCurrent, ProcessedTookEffect,
     RefundIsRecorded, Completed
<1>4. ASSUME NEW o \in Orders, Pay(o) PROVE OneRefundPerOrder' /\ RefundReversesOrder'
  <2>1. /\ order[o] = "pending_payment" /\ order'[o] = "paid"
        /\ \A p \in Orders \ {o} : order'[p] = order[p]
        /\ commission' \in {commission, [commission EXCEPT ![o] = "pending"]}
    BY <1>4 DEF Pay, RefundTypeOK
  <2>2. \A c \in Charges : settlement'[c] = "refunded" <=> settlement[c] = "refunded"
    BY <1>4 DEF Pay, CreditCharge, financeVars, RefundTypeOK, FinanceTypeOK
  <2>3. OneRefundPerOrder'
    BY <1>1, <2>1 DEF RefundConsistent, OneRefundPerOrder, Completed
  <2>4. RefundReversesOrder'
    BY <1>1, <2>1, <2>2 DEF RefundConsistent, RefundReversesOrder, RefundTypeOK
  <2> QED BY <2>3, <2>4
<1>5. ASSUME NEW o \in Orders, MatureCommission(o)
      PROVE  OneRefundPerOrder' /\ RefundReversesOrder'
  <2>1. UNCHANGED <<order, settlement>> BY <1>5 DEF MatureCommission, financeVars
  <2>2. /\ commission[o] = "pending" /\ commission'[o] = "available"
        /\ \A p \in Orders \ {o} : commission'[p] = commission[p]
    BY <1>5 DEF MatureCommission, RefundTypeOK
  <2>3. OneRefundPerOrder' BY <1>1, <2>1 DEF RefundConsistent, OneRefundPerOrder, Completed
  <2>4. RefundReversesOrder' BY <1>1, <2>1, <2>2 DEF RefundConsistent, RefundReversesOrder
  <2> QED BY <2>3, <2>4
<1>6. ASSUME SpendPoints PROVE OneRefundPerOrder' /\ RefundReversesOrder'
  BY <1>1, <1>6, OrdersKept DEF SpendPoints, financeVars
<1>7. ASSUME ManageFinance PROVE OneRefundPerOrder' /\ RefundReversesOrder'
  <2>1. \A c \in Charges : settlement'[c] = "refunded" <=> settlement[c] = "refunded"
    BY <1>7, ManagingKeepsRefunded DEF ManageFinance, RefundTypeOK
  <2> QED BY <1>1, <1>7, <2>1, OrdersKept DEF ManageFinance, orderVars
<1> QED BY <1>2, <1>3, <1>4, <1>5, <1>6, <1>7 DEF RefundConsistent

\* The request's steps.
LEMMA RequestStepConsistent ==
  ASSUME RefundTypeOK, RefundConsistent, NEW r \in Requests,
         \/ \E f \in Refunds : PrepareRefund(r, f) \/ ResumeRefund(r, f)
         \/ \E reply \in Reply : CallProvider(r, reply)
         \/ FinalizeRequest(r)
         \/ AbandonRequest(r)
  PROVE  RefundConsistent'
<1>1. ASSUME NEW f \in Refunds, PrepareRefund(r, f) PROVE RefundConsistent'
  <2>1. /\ refund[f] = "none" /\ refund'[f] = "processing"
        /\ command[f] = "none" /\ command'[f] = "processing"
        /\ \A g \in Refunds \ {f} : refund'[g] = refund[g] /\ command'[g] = command[g]
        /\ \A g \in Refunds : RefundOf[g] = RefundOf[f] => refund[g] \notin Live
        /\ order[RefundOf[f]] = "paid"
        /\ reserved' = IF RefundOf[f] \in Topups THEN reserved \cup {f} ELSE reserved
        /\ UNCHANGED <<order, released, revoked, commission, answer, settlement,
                       atProvider, events, inbox, handler>>
    BY <1>1 DEF PrepareRefund, NoLiveRefund, Reserve, RefundTypeOK, RefundConsistent, RefundIsRecorded,
       providerVars, webhookVars, financeVars
  <2>2. OneRefundPerOrder'
    BY <2>1 DEF RefundConsistent, OneRefundPerOrder, Completed, Live
  <2>3. RefundReversesOrder' BY <2>1 DEF RefundConsistent, RefundReversesOrder
  <2>4. BookedIsMade' /\ StoredAnswerIsCurrent' /\ RefundIsRecorded'
    BY <2>1 DEF RefundConsistent, BookedIsMade, StoredAnswerIsCurrent, RefundIsRecorded,
       Completed
  <2>5. ProcessedTookEffect' BY <2>1 DEF RefundConsistent, ProcessedTookEffect, Event
  <2>6. /\ request'[r] = [pc |-> "prepared", refund |-> f]
        /\ \A q \in Requests \ {r} : request'[q] = request[q]
    BY <1>1 DEF PrepareRefund, RefundTypeOK
  <2>7. OutcomesAreTrue'
    <3>1. \A q \in Requests : request[q] # Idle => request[q].refund \in Refunds
      BY DEF RefundTypeOK
    <3>2. \A h \in Handlers : handler[h] # Ready => handler[h].event.refund \in Refunds
      BY DEF RefundTypeOK, Event
    <3> QED BY <2>1, <2>6, <3>1, <3>2 DEF RefundConsistent, OutcomesAreTrue
  <2> QED BY <2>2, <2>3, <2>4, <2>5, <2>7 DEF RefundConsistent
<1>2. ASSUME NEW f \in Refunds, ResumeRefund(r, f) PROVE RefundConsistent'
  <2>1. /\ refund[f] = "processing"
        /\ UNCHANGED <<order, reserved, released, revoked, commission, refund, command,
                       answer, settlement, atProvider, events, inbox, handler>>
    BY <1>2 DEF ResumeRefund, orderVars, refundVars, providerVars, webhookVars, financeVars
  <2>2. /\ request'[r] = [pc |-> "prepared", refund |-> f]
        /\ \A q \in Requests \ {r} : request'[q] = request[q]
    BY <1>2 DEF ResumeRefund, RefundTypeOK
  <2>3. OutcomesAreTrue' BY <2>1, <2>2 DEF RefundConsistent, OutcomesAreTrue
  <2>4. ProcessedTookEffect' /\ RefundIsRecorded'
    BY <2>1 DEF RefundConsistent, ProcessedTookEffect, RefundIsRecorded
  <2> QED BY <2>1, <2>3, <2>4, OrdersKept DEF RefundConsistent
<1>3. ASSUME NEW reply \in Reply, CallProvider(r, reply) PROVE RefundConsistent'
  <2> DEFINE f == request[r].refund
  <2>0. request[r].pc = "prepared" /\ f \in Refunds /\ request[r] # Idle
    BY <1>3, RequestHasRefund DEF CallProvider
  <2>1. UNCHANGED <<order, reserved, released, revoked, commission, refund, command,
                    answer, settlement, events, inbox, handler>>
    BY <1>3 DEF CallProvider, orderVars, refundVars, webhookVars, financeVars
  <2>2. /\ \A g \in Refunds \ {f} : atProvider'[g] = atProvider[g]
        /\ atProvider[f] # "none" => atProvider'[f] = atProvider[f]
        /\ reply = "succeeded" => atProvider'[f] = "succeeded"
    BY <1>3, <2>0 DEF CallProvider, Refundable, RefundTypeOK
  <2>3. /\ request'[r].pc = reply /\ request'[r].refund = f
        /\ \A q \in Requests \ {r} : request'[q] = request[q]
    BY <1>3, <2>0, RequestHasRefund DEF CallProvider, RefundTypeOK
  <2>4. refund[f] # "none" BY <2>0 DEF RefundConsistent, OutcomesAreTrue
  <2>5. OutcomesAreTrue'
    <3>1. \A q \in Requests : request'[q] # Idle =>
            /\ refund'[request'[q].refund] # "none"
            /\ request'[q].pc = "succeeded" => atProvider'[request'[q].refund] = "succeeded"
      <4>1. \A q \in Requests : request[q] # Idle => request[q].refund \in Refunds
        BY DEF RefundTypeOK
      <4> QED BY <2>1, <2>2, <2>3, <2>4, <4>1 DEF RefundConsistent, OutcomesAreTrue
    <3>2. \A e \in events' :
            /\ atProvider'[e.refund] # "none"
            /\ e.type = "succeeded" => atProvider'[e.refund] = "succeeded"
      <4>1. \A e \in events : e.refund \in Refunds BY DEF RefundTypeOK, Event
      <4> QED BY <2>0, <2>1, <2>2, <4>1 DEF RefundConsistent, OutcomesAreTrue
    <3> QED BY <2>1, <3>1, <3>2 DEF RefundConsistent, OutcomesAreTrue
  <2>6. ProcessedTookEffect' BY <2>1 DEF RefundConsistent, ProcessedTookEffect
  <2>7. RefundIsRecorded' BY <2>1, <2>2, <2>4 DEF RefundConsistent, RefundIsRecorded
  <2>8. \A g \in Refunds : atProvider[g] = "succeeded" => atProvider'[g] = "succeeded"
    BY <2>2
  <2> QED BY <2>1, <2>5, <2>6, <2>7, <2>8, OrdersKept DEF RefundConsistent
<1>4. ASSUME FinalizeRequest(r) PROVE RefundConsistent'
  <2> DEFINE f == request[r].refund
  <2>1. /\ UNCHANGED <<atProvider, events, inbox, handler>>
        /\ request' = [request EXCEPT ![r] = Idle]
    BY <1>4 DEF FinalizeRequest, providerVars, webhookVars
  <2>2. f \in Refunds BY <1>4, FinalizeCases
  <2>3. CASE request[r].pc = "succeeded" /\ Complete(f)
    <3>1. atProvider[f] = "succeeded"
      BY <1>4, <2>3, FinalizeCases DEF RefundConsistent, OutcomesAreTrue
    <3>2. \A g \in Refunds : refund[g] # "none" =>
            refund'[g] # "none" /\ (refund[g] # "processing" => refund'[g] # "processing")
      BY <2>2, <2>3 DEF Complete, RefundTypeOK
    <3>3. OutcomesAreTrue'
      <4>1. \A q \in Requests : request[q] # Idle => request[q].refund \in Refunds
        BY DEF RefundTypeOK
      <4>2. \A h \in Handlers : handler[h] # Ready => handler[h].event.refund \in Refunds
        BY DEF RefundTypeOK, Event
      <4> QED BY <2>1, <3>2, <4>1, <4>2 DEF RefundConsistent, OutcomesAreTrue, RefundTypeOK
    <3> QED BY <2>1, <2>2, <2>3, <3>1, <3>3, CompleteKeeps DEF RefundConsistent
  <2>4. CASE Fail(f)
    <3>2. \A g \in Refunds : refund[g] # "none" =>
            refund'[g] # "none" /\ (refund[g] # "processing" => refund'[g] # "processing")
      BY <2>2, <2>4 DEF Fail, RefundTypeOK
    <3>3. OutcomesAreTrue'
      <4>1. \A q \in Requests : request[q] # Idle => request[q].refund \in Refunds
        BY DEF RefundTypeOK
      <4>2. \A h \in Handlers : handler[h] # Ready => handler[h].event.refund \in Refunds
        BY DEF RefundTypeOK, Event
      <4> QED BY <2>1, <3>2, <4>1, <4>2 DEF RefundConsistent, OutcomesAreTrue, RefundTypeOK
    <3> QED BY <2>1, <2>2, <2>4, <3>3, FailKeeps DEF RefundConsistent
  <2>5. CASE RecordPending(f) \/ MarkAmbiguous(f) \/ LeaveAlone(f)
    <3>1. UNCHANGED refund BY <2>1, <2>2, <2>5, UndecidedKeeps
    <3>2. OutcomesAreTrue'
      BY <2>1, <3>1 DEF RefundConsistent, OutcomesAreTrue, RefundTypeOK
    <3> QED BY <2>1, <2>2, <2>5, <3>2, UndecidedKeeps DEF RefundConsistent
  <2> QED BY <1>4, <2>3, <2>4, <2>5, FinalizeCases
<1>5. ASSUME AbandonRequest(r) PROVE RefundConsistent'
  <2>1. /\ request' = [request EXCEPT ![r] = Idle]
        /\ UNCHANGED <<order, reserved, released, revoked, commission, refund, command,
                       answer, settlement, atProvider, events, inbox, handler>>
    BY <1>5 DEF AbandonRequest, orderVars, refundVars, providerVars, webhookVars, financeVars
  <2>2. OutcomesAreTrue' BY <2>1 DEF RefundConsistent, OutcomesAreTrue, RefundTypeOK
  <2>3. ProcessedTookEffect' /\ RefundIsRecorded'
    BY <2>1 DEF RefundConsistent, ProcessedTookEffect, RefundIsRecorded
  <2> QED BY <2>1, <2>2, <2>3, OrdersKept DEF RefundConsistent
<1> QED BY <1>1, <1>2, <1>3, <1>4, <1>5

\* The provider's steps.
LEMMA ProviderStepConsistent ==
  ASSUME RefundTypeOK, RefundConsistent, NEW f \in Refunds,
         Decided(f, "succeeded") \/ Decided(f, "failed") \/ Announce(f)
  PROVE  RefundConsistent'
<1>1. /\ UNCHANGED <<order, reserved, released, revoked, commission, refund, command,
                     answer, settlement, request, inbox, handler>>
  BY DEF Decided, Announce, orderVars, refundVars, webhookVars, financeVars
<1>2. \A g \in Refunds : atProvider[g] # "none" =>
        atProvider'[g] # "none" /\ (atProvider[g] = "succeeded" => atProvider'[g] = "succeeded")
  BY DEF Decided, Announce, RefundTypeOK
<1>3. \A g \in Refunds : atProvider'[g] # "none" => atProvider[g] # "none"
  BY DEF Decided, Announce, RefundTypeOK
<1>4. \A e \in events' : e \in events \/
        (atProvider'[e.refund] # "none" /\ e.type = atProvider'[e.refund])
  BY DEF Decided, Announce
<1>5. events \subseteq events' BY DEF Decided, Announce
<1>6. OutcomesAreTrue'
  <2>1. \A r \in Requests : request[r] # Idle => request[r].refund \in Refunds
    BY DEF RefundTypeOK
  <2>2. \A e \in events : e.refund \in Refunds BY DEF RefundTypeOK, Event
  <2>3. \A e \in events' :
          /\ atProvider'[e.refund] # "none"
          /\ e.type = "succeeded" => atProvider'[e.refund] = "succeeded"
    BY <1>2, <1>4, <2>2 DEF RefundConsistent, OutcomesAreTrue
  <2>4. \A r \in Requests : request'[r] # Idle =>
          /\ refund'[request'[r].refund] # "none"
          /\ request'[r].pc = "succeeded" => atProvider'[request'[r].refund] = "succeeded"
    BY <1>1, <1>2, <2>1 DEF RefundConsistent, OutcomesAreTrue
  <2>5. \A h \in Handlers : handler'[h] # Ready =>
          /\ handler'[h].event \in events'
          /\ handler'[h].event.type # "pending"
          /\ handler'[h].pc = "finalized"
               => refund'[handler'[h].event.refund] \notin {"none", "processing"}
    BY <1>1, <1>5 DEF RefundConsistent, OutcomesAreTrue
  <2> QED BY <2>3, <2>4, <2>5 DEF OutcomesAreTrue
<1>7. ProcessedTookEffect' BY <1>1 DEF RefundConsistent, ProcessedTookEffect
<1>8. RefundIsRecorded' BY <1>1, <1>3 DEF RefundConsistent, RefundIsRecorded
<1> QED BY <1>1, <1>2, <1>6, <1>7, <1>8, OrdersKept DEF RefundConsistent

\* The webhook's steps.
LEMMA WebhookStepConsistent ==
  ASSUME RefundTypeOK, RefundConsistent, NEW h \in Handlers,
         Receive(h) \/ ApplyOutcome(h) \/ MarkProcessed(h) \/ StopHandler(h)
  PROVE  RefundConsistent'
<1>0. /\ \A r \in Requests : request[r] # Idle => request[r].refund \in Refunds
      /\ \A g \in Handlers : handler[g] # Ready =>
           handler[g].event \in Event /\ handler[g].event.refund \in Refunds
  BY DEF RefundTypeOK, Event
<1>1. ASSUME NEW e \in Event, ReceivePending(h, e) PROVE RefundConsistent'
  <2>1. /\ UNCHANGED <<order, reserved, released, revoked, commission, refund, settlement,
                       request, atProvider, events, handler>>
        /\ e \in events /\ e.type = "pending"
    BY <1>1 DEF ReceivePending, Unprocessed, orderVars, providerVars, financeVars
  <2>2. e.refund \in Refunds BY DEF Event
  <2>3. refund[e.refund] # "none"
    BY <2>1, <2>2 DEF RefundConsistent, OutcomesAreTrue, RefundIsRecorded
  <2>4. /\ command'[e.refund] = "completed" /\ answer'[e.refund] = refund[e.refund]
        /\ \A g \in Refunds \ {e.refund} : command'[g] = command[g] /\ answer'[g] = answer[g]
    BY <1>1, <2>2 DEF ReceivePending, CompleteCommand, RefundTypeOK
  <2>5. \A d \in Event \ {e} : inbox'[d] = inbox[d]
    BY <1>1 DEF ReceivePending, RefundTypeOK
  <2>6. OneRefundPerOrder' /\ RefundReversesOrder' /\ BookedIsMade'
    BY <2>1 DEF RefundConsistent, OneRefundPerOrder, RefundReversesOrder, BookedIsMade,
       Completed
  <2>7. StoredAnswerIsCurrent' BY <2>1, <2>4 DEF RefundConsistent, StoredAnswerIsCurrent
  <2>8. ProcessedTookEffect' BY <2>1, <2>5 DEF RefundConsistent, ProcessedTookEffect
  <2>9. RefundIsRecorded' BY <2>1, <2>3, <2>4 DEF RefundConsistent, RefundIsRecorded
  <2>10. OutcomesAreTrue' BY <2>1 DEF RefundConsistent, OutcomesAreTrue
  <2> QED BY <2>6, <2>7, <2>8, <2>9, <2>10 DEF RefundConsistent
<1>2. ASSUME NEW e \in Event, ReceiveOutcome(h, e) PROVE RefundConsistent'
  <2>1. /\ UNCHANGED <<order, reserved, released, revoked, commission, refund, command,
                       answer, settlement, request, atProvider, events>>
        /\ e \in events /\ e.type # "pending"
    BY <1>2 DEF ReceiveOutcome, Unprocessed, orderVars, providerVars, financeVars
  <2>2. /\ inbox'[e] = "received" /\ \A d \in Event \ {e} : inbox'[d] = inbox[d]
        /\ handler'[h] = [pc |-> "reserved", event |-> e]
        /\ \A g \in Handlers \ {h} : handler'[g] = handler[g]
    BY <1>2 DEF ReceiveOutcome, RefundTypeOK
  <2>3. ProcessedTookEffect' BY <2>1, <2>2 DEF RefundConsistent, ProcessedTookEffect
  <2>4. RefundIsRecorded' BY <2>1 DEF RefundConsistent, RefundIsRecorded
  <2>5. OutcomesAreTrue' BY <2>1, <2>2 DEF RefundConsistent, OutcomesAreTrue
  <2> QED BY <2>1, <2>3, <2>4, <2>5, OrdersKept DEF RefundConsistent
<1>3. ASSUME ApplyOutcome(h) PROVE RefundConsistent'
  <2> DEFINE f == handler[h].event.refund
  <2>1. /\ UNCHANGED <<request, atProvider, events, inbox>>
        /\ handler' = [handler EXCEPT ![h].pc = "finalized"]
    BY <1>3 DEF ApplyOutcome, providerVars
  <2>2. f \in Refunds /\ handler[h] # Ready BY <1>3, ApplyCases
  <2>3. /\ handler[h].event \in events /\ handler[h].event.type # "pending"
        /\ refund[f] # "none"
        /\ handler[h].event.type = "succeeded" => atProvider[f] = "succeeded"
    BY <2>2 DEF RefundConsistent, OutcomesAreTrue, RefundIsRecorded
  <2>4. /\ handler'[h].event = handler[h].event
        /\ \A g \in Handlers \ {h} : handler'[g] = handler[g]
    BY <1>3, <2>1, HandlerHasEvent DEF ApplyOutcome, RefundTypeOK
  <2>5. ASSUME \A g \in Refunds : refund[g] # "none" =>
                 refund'[g] # "none" /\ (refund[g] # "processing" => refund'[g] # "processing"),
               refund'[f] # "processing"
        PROVE  OutcomesAreTrue'
    BY <1>0, <2>1, <2>2, <2>3, <2>4, <2>5 DEF RefundConsistent, OutcomesAreTrue
  <2>6. CASE handler[h].event.type = "succeeded" /\ Complete(f)
    <3>1. /\ refund'[f] # "processing"
          /\ \A g \in Refunds : refund[g] # "none" =>
               refund'[g] # "none" /\ (refund[g] # "processing" => refund'[g] # "processing")
      BY <2>2, <2>6 DEF Complete, RefundTypeOK
    <3> QED BY <2>1, <2>2, <2>3, <2>5, <2>6, <3>1, CompleteKeeps DEF RefundConsistent
  <2>7. CASE Fail(f)
    <3>1. /\ refund'[f] # "processing"
          /\ \A g \in Refunds : refund[g] # "none" =>
               refund'[g] # "none" /\ (refund[g] # "processing" => refund'[g] # "processing")
      BY <2>2, <2>7 DEF Fail, RefundTypeOK
    <3> QED BY <2>1, <2>2, <2>5, <2>7, <3>1, FailKeeps DEF RefundConsistent
  <2>8. CASE LeaveAlone(f)
    <3>1. UNCHANGED refund /\ refund[f] # "processing"
      BY <2>8 DEF LeaveAlone, refundVars
    <3> QED BY <2>1, <2>2, <2>5, <2>8, <3>1, UndecidedKeeps DEF RefundConsistent
  <2> QED BY <1>3, <2>6, <2>7, <2>8, ApplyCases
<1>4. ASSUME MarkProcessed(h) PROVE RefundConsistent'
  <2>1. /\ UNCHANGED <<order, reserved, released, revoked, commission, refund, command,
                       answer, settlement, request, atProvider, events>>
        /\ handler[h].pc = "finalized"
        /\ inbox' = [inbox EXCEPT ![handler[h].event] = "processed"]
        /\ handler' = [handler EXCEPT ![h] = Ready]
    BY <1>4 DEF MarkProcessed, orderVars, refundVars, providerVars, financeVars
  <2>2. handler[h] # Ready BY <2>1 DEF Ready
  <2>3. refund[handler[h].event.refund] \notin {"none", "processing"}
    BY <2>1, <2>2 DEF RefundConsistent, OutcomesAreTrue
  <2>4. \A d \in Event : d # handler[h].event => inbox'[d] = inbox[d]
    BY <2>1 DEF RefundTypeOK
  <2>5. ProcessedTookEffect'
    BY <2>1, <2>3, <2>4 DEF RefundConsistent, ProcessedTookEffect
  <2>6. RefundIsRecorded' BY <2>1 DEF RefundConsistent, RefundIsRecorded
  <2>7. OutcomesAreTrue' BY <2>1 DEF RefundConsistent, OutcomesAreTrue, RefundTypeOK
  <2> QED BY <2>1, <2>5, <2>6, <2>7, OrdersKept DEF RefundConsistent
<1>5. ASSUME StopHandler(h) PROVE RefundConsistent'
  <2>1. /\ UNCHANGED <<order, reserved, released, revoked, commission, refund, command,
                       answer, settlement, request, atProvider, events, inbox>>
        /\ handler' = [handler EXCEPT ![h] = Ready]
    BY <1>5 DEF StopHandler, orderVars, refundVars, providerVars, financeVars
  <2>2. ProcessedTookEffect' /\ RefundIsRecorded'
    BY <2>1 DEF RefundConsistent, ProcessedTookEffect, RefundIsRecorded
  <2>3. OutcomesAreTrue' BY <2>1 DEF RefundConsistent, OutcomesAreTrue, RefundTypeOK
  <2> QED BY <2>1, <2>2, <2>3, OrdersKept DEF RefundConsistent
<1> QED BY <1>1, <1>2, <1>3, <1>4, <1>5 DEF Receive

\* Every step keeps refunds consistent.
LEMMA NextRefundConsistent ==
  RefundTypeOK /\ RefundConsistent /\ [Next]_vars => RefundConsistent'
<1> SUFFICES ASSUME RefundTypeOK, RefundConsistent, [Next]_vars PROVE RefundConsistent'
  OBVIOUS
<1>1. ASSUME UNCHANGED vars PROVE RefundConsistent'
  <2>1. UNCHANGED <<order, reserved, released, revoked, commission, refund, command,
                    answer, settlement, request, atProvider, events, inbox, handler>>
    BY <1>1 DEF vars, orderVars, refundVars, providerVars, webhookVars, financeVars
  <2> QED BY <2>1, OrdersKept
      DEF RefundConsistent, ProcessedTookEffect, RefundIsRecorded, OutcomesAreTrue
<1> QED
  BY <1>1, OrderStepConsistent, RequestStepConsistent, ProviderStepConsistent,
     WebhookStepConsistent
  DEF Next

\* Everything refunds rely on, in every reachable state.
THEOREM RefundsConsistent == Spec => []RefundConsistent
BY InitRefundType, NextRefundType, InitRefundConsistent, NextRefundConsistent, PTL DEF Spec

\* Whatever two keys, a resumed request and webhooks do, an order is refunded
\* once, and exactly when a refund of it is done.
THEOREM RefundedOnce == Spec => []OneRefundPerOrder
<1>1. RefundConsistent => OneRefundPerOrder BY DEF RefundConsistent
<1> QED BY <1>1, RefundsConsistent, PTL

\* A refund takes back everything the order gave, a failed one nothing.
THEOREM RefundIsComplete == Spec => []RefundReversesOrder
<1>1. RefundConsistent => RefundReversesOrder BY DEF RefundConsistent
<1> QED BY <1>1, RefundsConsistent, PTL

\* Only what the provider made is booked.
THEOREM BookedOnlyIfMade == Spec => []BookedIsMade
<1>1. RefundConsistent => BookedIsMade BY DEF RefundConsistent
<1> QED BY <1>1, RefundsConsistent, PTL

\* The answer replayed for a key is the refund's present status.
THEOREM AnswerNeverStale == Spec => []StoredAnswerIsCurrent
<1>1. RefundConsistent => StoredAnswerIsCurrent BY DEF RefundConsistent
<1> QED BY <1>1, RefundsConsistent, PTL

\* No webhook is marked processed before it took effect.
THEOREM ProcessedNeverEarly == Spec => []ProcessedTookEffect
<1>1. RefundConsistent => ProcessedTookEffect BY DEF RefundConsistent
<1> QED BY <1>1, RefundsConsistent, PTL

\* One refund of an order, made by the provider, with all its effects, and answers
\* that are true when they are given again.
THEOREM RefundsStayComplete == Spec => []RefundsAreComplete
<1>1. RefundConsistent => RefundsAreComplete BY DEF RefundConsistent, RefundsAreComplete
<1> QED BY <1>1, RefundsConsistent, PTL

\* Statuses and ledger agree while refunds run, too.
THEOREM LedgerTellsWithRefunds == Spec => []LedgerTellsStatus
BY ImplementsFinance, LedgerAlwaysTells, PTL

-----------------------------------------------------------------------------
(* Sums over finite sets.                                                *)

\* Among some subsets of a finite set there is one that has none of the others in it.
LEMMA SmallestSubset ==
  ASSUME NEW S, IsFiniteSet(S), NEW P, P \subseteq SUBSET S, P # {}
  PROVE  \E X \in P : \A Y \in P : Y \subseteq X => Y = X
<1> DEFINE R == StrictSubsetOrdering(S)
<1>1. IsWellFoundedOn(R, SUBSET S)
  BY FS_StrictSubsetOrderingWellFounded, FS_FiniteSubsetsOfFinite
<1> HIDE DEF R
<1>2. \E X \in P : \A Y \in P : ~(<<Y, X>> \in R)
  BY <1>1, WFMin
<1>3. PICK X \in P : \A Y \in P : ~(<<Y, X>> \in R)
  BY <1>2
<1>4. ASSUME NEW Y \in P, Y \subseteq X PROVE Y = X
  BY <1>3, <1>4 DEF R, StrictSubsetOrdering
<1> QED BY <1>4

\* The recursion that defines a sum, over the subsets of S.
SumsUp(g, f, S) ==
  g = [s \in SUBSET S |-> IF s = {} THEN 0
                          ELSE LET x == CHOOSE x \in s : TRUE IN f[x] + g[s \ {x}]]

LEMMA SumsUpAt ==
  ASSUME NEW f, NEW S, NEW g, SumsUp(g, f, S), NEW s \in SUBSET S
  PROVE  /\ s = {} => g[s] = 0
         /\ s # {} => \E x \in s : x = (CHOOSE y \in s : TRUE) /\ g[s] = f[x] + g[s \ {x}]
<1>1. g[s] = IF s = {} THEN 0
             ELSE LET x == CHOOSE x \in s : TRUE IN f[x] + g[s \ {x}]
  BY DEF SumsUp
<1>2. s # {} => (CHOOSE y \in s : TRUE) \in s
  OBVIOUS
<1> QED BY <1>1, <1>2

\* Two functions that sum up agree wherever both are defined.
LEMMA SumsAgree ==
  ASSUME NEW f, NEW S, NEW T, IsFiniteSet(S), NEW g, NEW h, SumsUp(g, f, S), SumsUp(h, f, T),
         NEW s \in SUBSET (S \cap T)
  PROVE  g[s] = h[s]
<1> DEFINE P == {u \in SUBSET (S \cap T) : g[u] # h[u]}
<1>1. P \subseteq SUBSET S
  OBVIOUS
<1>2. ASSUME P # {} PROVE FALSE
  <2>1. PICK u \in P : \A v \in P : v \subseteq u => v = u
    <3> HIDE DEF P
    <3> QED BY <1>1, <1>2, SmallestSubset
  <2>2. u \in SUBSET S /\ u \in SUBSET T /\ g[u] # h[u]
    OBVIOUS
  <2>3. u # {}
    BY <2>2, SumsUpAt
  <2>4. PICK x \in u : x = (CHOOSE y \in u : TRUE) /\ g[u] = f[x] + g[u \ {x}]
    BY <2>2, <2>3, SumsUpAt
  <2>5. PICK y \in u : y = (CHOOSE z \in u : TRUE) /\ h[u] = f[y] + h[u \ {y}]
    BY <2>2, <2>3, SumsUpAt
  <2>6. u \ {x} \notin P
    <3> HIDE DEF P
    <3> QED BY <2>1
  <2>7. g[u \ {x}] = h[u \ {x}]
    BY <2>6
  <2> QED BY <2>2, <2>4, <2>5, <2>7
<1> QED BY <1>2

\* Such a function exists for every finite set.
LEMMA SumsExist ==
  ASSUME NEW f, NEW S, IsFiniteSet(S)
  PROVE  \E g : SumsUp(g, f, S)
<1> DEFINE Has(s) == \E g : SumsUp(g, f, s)
           P == {s \in SUBSET S : ~Has(s)}
<1>1. ASSUME P # {} PROVE FALSE
  <2>1. PICK X \in P : \A Y \in P : Y \subseteq X => Y = X
    <3>1. P \subseteq SUBSET S
      OBVIOUS
    <3> HIDE DEF P
    <3> QED BY <1>1, <3>1, SmallestSubset
  <2>2. X \in SUBSET S /\ ~Has(X)
    OBVIOUS
  <2>3. \A Y \in SUBSET X : Y # X => Has(Y)
    <3> SUFFICES ASSUME NEW Y \in SUBSET X, Y # X PROVE Has(Y)
      OBVIOUS
    <3>1. Y \notin P
      <4> HIDE DEF P
      <4> QED BY <2>1
    <3>2. Y \in SUBSET S
      BY <2>2
    <3> QED BY <3>1, <3>2
  <2> DEFINE F(v) == CHOOSE g : SumsUp(g, f, v)
             Rest(u) == u \ {CHOOSE x \in u : TRUE}
             G == [u \in SUBSET X |-> IF u = {} THEN 0
                     ELSE LET x == CHOOSE x \in u : TRUE IN f[x] + F(u \ {x})[u \ {x}]]
  <2>4. \A Y \in SUBSET X : Y # X => SumsUp(F(Y), f, Y)
    BY <2>3
  <2> HIDE DEF F
  <2>5. ASSUME NEW v \in SUBSET X, v # X PROVE G[v] = F(v)[v]
    <3>1. SumsUp(F(v), f, v)
      BY <2>4, <2>5
    <3>2. CASE v = {}
      BY <3>1, <3>2, SumsUpAt
    <3>3. CASE v # {}
      <4>1. PICK x \in v : x = (CHOOSE y \in v : TRUE) /\ F(v)[v] = f[x] + F(v)[v \ {x}]
        BY <3>1, <3>3, SumsUpAt
      <4>2. G[v] = f[x] + F(v \ {x})[v \ {x}]
        BY <3>3, <4>1
      <4>3. v \ {x} \in SUBSET X /\ v \ {x} # X
        BY <4>1
      <4>4. SumsUp(F(v \ {x}), f, v \ {x})
        BY <2>4, <4>3
      <4>5. IsFiniteSet(v)
        BY <2>2, FS_Subset
      <4>6. v \ {x} \in SUBSET (v \cap (v \ {x}))
        OBVIOUS
      <4>7. F(v)[v \ {x}] = F(v \ {x})[v \ {x}]
        BY <3>1, <4>4, <4>5, <4>6, SumsAgree
      <4> QED BY <4>1, <4>2, <4>7
    <3> QED BY <3>2, <3>3
  <2>6. ASSUME NEW u \in SUBSET X, u # {}, NEW x \in u PROVE G[u \ {x}] = F(u \ {x})[u \ {x}]
    <3>1. u \ {x} \in SUBSET X /\ u \ {x} # X
      OBVIOUS
    <3> HIDE DEF G
    <3> QED BY <2>5, <3>1
  <2> DEFINE A(u) == IF u = {} THEN 0
                     ELSE LET x == CHOOSE x \in u : TRUE IN f[x] + F(u \ {x})[u \ {x}]
             B(u) == IF u = {} THEN 0
                     ELSE LET x == CHOOSE x \in u : TRUE IN f[x] + G[u \ {x}]
  <2>7. G = [u \in SUBSET X |-> B(u)]
    <3>1. ASSUME NEW u \in SUBSET X PROVE A(u) = B(u)
      <4>1. CASE u = {}
        BY <4>1
      <4>2. CASE u # {}
        <5>1. (CHOOSE x \in u : TRUE) \in u
          BY <4>2
        <5> HIDE DEF G
        <5> QED BY <2>6, <4>2, <5>1
      <4> QED BY <4>1, <4>2
    <3>2. G = [u \in SUBSET X |-> A(u)]
      OBVIOUS
    <3> HIDE DEF A, B, G
    <3> QED BY <3>1, <3>2
  <2>8. SumsUp(G, f, X)
    <3> HIDE DEF G
    <3> QED BY <2>7 DEF SumsUp
  <2> QED BY <2>2, <2>8
<1>2. S \in SUBSET S
  OBVIOUS
<1> QED BY <1>1, <1>2

LEMMA SumIsRecursive ==
  ASSUME NEW f, NEW S, IsFiniteSet(S)
  PROVE  \E g : SumsUp(g, f, S) /\ SumFunctionOnSet(f, S) = g[S]
<1> DEFINE g == CHOOSE g : SumsUp(g, f, S)
<1>1. SumsUp(g, f, S)
  BY SumsExist
<1>2. SumFunctionOnSet(f, S) = g[S]
  BY Zenon DEF SumFunctionOnSet, FoldFunctionOnSet, MapThenFoldSet, SumsUp
<1> QED BY <1>1, <1>2

\* A sum takes some element of the set first.
LEMMA SumTakesOne ==
  ASSUME NEW f, NEW S, IsFiniteSet(S)
  PROVE  /\ S = {} => SumFunctionOnSet(f, S) = 0
         /\ S # {} => \E x \in S :
              SumFunctionOnSet(f, S) = f[x] + SumFunctionOnSet(f, S \ {x})
<1>1. PICK g : SumsUp(g, f, S) /\ SumFunctionOnSet(f, S) = g[S]
  BY SumIsRecursive
<1>2. S \in SUBSET S
  OBVIOUS
<1>3. CASE S = {}
  BY <1>1, <1>2, <1>3, SumsUpAt
<1>4. CASE S # {}
  <2>1. PICK x \in S : g[S] = f[x] + g[S \ {x}]
    BY <1>1, <1>2, <1>4, SumsUpAt
  <2>2. IsFiniteSet(S \ {x})
    BY FS_Subset
  <2>3. PICK h : SumsUp(h, f, S \ {x}) /\ SumFunctionOnSet(f, S \ {x}) = h[S \ {x}]
    BY <2>2, SumIsRecursive
  <2> DEFINE rest == S \ {x}
  <2>4. rest \in SUBSET (S \cap rest) /\ SumsUp(h, f, rest) /\ SumsUp(g, f, S)
    BY <1>1, <2>3
  <2> HIDE DEF rest
  <2>6. g[rest] = h[rest]
    BY <2>4, SumsAgree
  <2>5. g[S \ {x}] = h[S \ {x}]
    BY <2>6 DEF rest
  <2> QED BY <1>1, <1>4, <2>1, <2>3, <2>5
<1> QED BY <1>3, <1>4

LEMMA SumsAreIntegers ==
  ASSUME NEW S, IsFiniteSet(S), NEW f, \A x \in S : f[x] \in Int
  PROVE  SumFunctionOnSet(f, S) \in Int
<1> DEFINE P == {s \in SUBSET S : SumFunctionOnSet(f, s) \notin Int}
<1>1. ASSUME P # {} PROVE FALSE
  <2>1. PICK X \in P : \A Y \in P : Y \subseteq X => Y = X
    <3>1. P \subseteq SUBSET S
      OBVIOUS
    <3> HIDE DEF P
    <3> QED BY <1>1, <3>1, SmallestSubset
  <2>2. X \in SUBSET S /\ SumFunctionOnSet(f, X) \notin Int
    OBVIOUS
  <2>3. IsFiniteSet(X)
    BY <2>2, FS_Subset
  <2>4. X # {}
    BY <2>2, <2>3, SumTakesOne
  <2>5. PICK x \in X : SumFunctionOnSet(f, X) = f[x] + SumFunctionOnSet(f, X \ {x})
    BY <2>3, <2>4, SumTakesOne
  <2>6. X \ {x} \notin P
    <3> HIDE DEF P
    <3> QED BY <2>1
  <2>7. SumFunctionOnSet(f, X \ {x}) \in Int
    BY <2>2, <2>6
  <2> QED BY <2>2, <2>5, <2>7
<1> QED BY <1>1

\* Any element may be taken first.
LEMMA SumTakesAny ==
  ASSUME NEW S, IsFiniteSet(S), NEW f, \A y \in S : f[y] \in Int, NEW x \in S
  PROVE  SumFunctionOnSet(f, S) = f[x] + SumFunctionOnSet(f, S \ {x})
<1> DEFINE Any(s) == \A y \in s : SumFunctionOnSet(f, s) = f[y] + SumFunctionOnSet(f, s \ {y})
           P == {s \in SUBSET S : ~Any(s)}
<1>1. ASSUME P # {} PROVE FALSE
  <2>1. PICK X \in P : \A Y \in P : Y \subseteq X => Y = X
    <3>1. P \subseteq SUBSET S
      OBVIOUS
    <3> HIDE DEF P
    <3> QED BY <1>1, <3>1, SmallestSubset
  <2>2. X \in SUBSET S /\ ~Any(X)
    OBVIOUS
  <2>3. PICK y \in X : SumFunctionOnSet(f, X) # f[y] + SumFunctionOnSet(f, X \ {y})
    BY <2>2
  <2>4. IsFiniteSet(X)
    BY <2>2, FS_Subset
  <2>5. PICK z \in X : SumFunctionOnSet(f, X) = f[z] + SumFunctionOnSet(f, X \ {z})
    BY <2>3, <2>4, SumTakesOne
  <2>6. y # z
    BY <2>3, <2>5
  <2>7. Any(X \ {y}) /\ Any(X \ {z})
    <3>1. X \ {y} \notin P /\ X \ {z} \notin P
      <4> HIDE DEF P
      <4> QED BY <2>1
    <3>2. X \ {y} \in SUBSET S /\ X \ {z} \in SUBSET S
      BY <2>2
    <3> HIDE DEF Any
    <3> QED BY <3>1, <3>2
  <2> DEFINE both == SumFunctionOnSet(f, X \ {y, z})
  <2>8. (X \ {y}) \ {z} = X \ {y, z} /\ (X \ {z}) \ {y} = X \ {y, z}
    OBVIOUS
  <2>9. SumFunctionOnSet(f, X \ {y}) = f[z] + both
    BY <2>6, <2>7, <2>8
  <2>10. SumFunctionOnSet(f, X \ {z}) = f[y] + both
    BY <2>6, <2>7, <2>8
  <2>11. both \in Int /\ f[y] \in Int /\ f[z] \in Int
    <3>1. X \ {y, z} \subseteq S /\ IsFiniteSet(X \ {y, z}) /\ y \in S /\ z \in S
      BY <2>2, <2>4, FS_Subset
    <3>2. both \in Int
      BY <3>1, SumsAreIntegers
    <3> QED BY <3>1, <3>2
  <2> HIDE DEF both
  <2> QED BY <2>3, <2>5, <2>9, <2>10, <2>11
<1>2. Any(S)
  <2>1. S \in SUBSET S
    OBVIOUS
  <2> HIDE DEF Any
  <2> QED BY <1>1, <2>1
<1> QED BY <1>2
LEMMA SumAdds ==
  ASSUME NEW S, IsFiniteSet(S), NEW x, x \notin S, NEW f, f[x] \in Int, \A y \in S : f[y] \in Int
  PROVE  SumFunctionOnSet(f, S \cup {x}) = SumFunctionOnSet(f, S) + f[x]
<1> DEFINE all == S \cup {x}
<1>1. IsFiniteSet(all) /\ x \in all /\ all \ {x} = S /\ \A y \in all : f[y] \in Int
  BY FS_AddElement
<1>2. SumFunctionOnSet(f, S) \in Int
  BY SumsAreIntegers
<1> HIDE DEF all
<1>3. SumFunctionOnSet(f, all) = f[x] + SumFunctionOnSet(f, all \ {x})
  BY <1>1, SumTakesAny
<1>4. SumFunctionOnSet(f, all) = SumFunctionOnSet(f, S) + f[x]
  <2>1. SumFunctionOnSet(f, all \ {x}) = SumFunctionOnSet(f, S)
    BY <1>1, Zenon
  <2>2. f[x] \in Int
    OBVIOUS
  <2> QED BY <1>2, <1>3, <2>1, <2>2
<1> QED BY <1>4 DEF all

\* A sum depends on the values of its terms only.
LEMMA SumIsOfValues ==
  ASSUME NEW S, IsFiniteSet(S), NEW f, NEW g, \A x \in S : f[x] = g[x]
  PROVE  SumFunctionOnSet(f, S) = SumFunctionOnSet(g, S)
<1> DEFINE P == {s \in SUBSET S : SumFunctionOnSet(f, s) # SumFunctionOnSet(g, s)}
<1>0. \A x \in S : (CHOOSE y \in S : TRUE) \in S
  OBVIOUS
<1>1. PICK F : SumsUp(F, f, S) /\ SumFunctionOnSet(f, S) = F[S]
  BY SumIsRecursive
<1>2. PICK G : SumsUp(G, g, S) /\ SumFunctionOnSet(g, S) = G[S]
  BY SumIsRecursive
<1>3. SumsUp(G, f, S)
  <2> DEFINE A(s) == IF s = {} THEN 0
                     ELSE LET x == CHOOSE x \in s : TRUE IN f[x] + G[s \ {x}]
             B(s) == IF s = {} THEN 0
                     ELSE LET x == CHOOSE x \in s : TRUE IN g[x] + G[s \ {x}]
  <2>1. ASSUME NEW s \in SUBSET S PROVE A(s) = B(s)
    <3>1. CASE s = {}
      BY <3>1
    <3>2. CASE s # {}
      <4>1. (CHOOSE y \in s : TRUE) \in S
        BY <3>2
      <4> QED BY <3>2, <4>1
    <3> QED BY <3>1, <3>2
  <2>2. G = [s \in SUBSET S |-> B(s)]
    BY <1>2 DEF SumsUp
  <2>3. G = [s \in SUBSET S |-> A(s)]
    <3> HIDE DEF A, B
    <3> QED BY <2>1, <2>2
  <2> QED BY <2>3 DEF SumsUp
<1>4. S \in SUBSET (S \cap S)
  OBVIOUS
<1>5. F[S] = G[S]
  BY <1>1, <1>3, <1>4, SumsAgree
<1> QED BY <1>1, <1>2, <1>5

\* A sum may be taken in two parts.
LEMMA SumSplits ==
  ASSUME NEW S, IsFiniteSet(S), NEW f, \A x \in S : f[x] \in Int, NEW T \in SUBSET S
  PROVE  SumFunctionOnSet(f, S) = SumFunctionOnSet(f, T) + SumFunctionOnSet(f, S \ T)
<1> DEFINE Splits(t) ==
             SumFunctionOnSet(f, S) = SumFunctionOnSet(f, t) + SumFunctionOnSet(f, S \ t)
           P == {t \in SUBSET S : ~Splits(t)}
<1>1. ASSUME P # {} PROVE FALSE
  <2>1. PICK X \in P : \A Y \in P : Y \subseteq X => Y = X
    <3>1. P \subseteq SUBSET S
      OBVIOUS
    <3> HIDE DEF P
    <3> QED BY <1>1, <3>1, SmallestSubset
  <2>2. X \in SUBSET S /\ ~Splits(X)
    OBVIOUS
  <2>3. IsFiniteSet(X) /\ IsFiniteSet(S \ X)
    BY <2>2, FS_Subset
  <2>4. X # {}
    <3> SUFFICES ASSUME X = {} PROVE Splits(X)
      BY <2>2
    <3>1. S \ X = S /\ SumFunctionOnSet(f, X) = 0
      BY <2>3, SumTakesOne
    <3>2. SumFunctionOnSet(f, S) \in Int
      BY SumsAreIntegers
    <3> QED BY <3>1, <3>2
  <2>5. PICK x \in X : TRUE
    BY <2>4
  <2>6. Splits(X \ {x})
    <3>1. X \ {x} \notin P
      <4> HIDE DEF P
      <4> QED BY <2>1
    <3>2. X \ {x} \in SUBSET S
      BY <2>2
    <3> HIDE DEF Splits
    <3> QED BY <3>1, <3>2
  <2>7. SumFunctionOnSet(f, X) = f[x] + SumFunctionOnSet(f, X \ {x})
    BY <2>2, <2>3, SumTakesAny
  <2>8. SumFunctionOnSet(f, S \ (X \ {x})) = f[x] + SumFunctionOnSet(f, S \ X)
    <3> DEFINE rest == S \ (X \ {x})
    <3>1. rest \subseteq S /\ x \in rest /\ rest \ {x} = S \ X
      BY <2>2
    <3>2. IsFiniteSet(rest) /\ \A y \in rest : f[y] \in Int
      BY <3>1, FS_Subset
    <3> HIDE DEF rest
    <3>3. SumFunctionOnSet(f, rest) = f[x] + SumFunctionOnSet(f, rest \ {x})
      BY <3>1, <3>2, SumTakesAny
    <3> QED BY <3>1, <3>3 DEF rest
  <2>9. /\ f[x] \in Int /\ SumFunctionOnSet(f, X \ {x}) \in Int
        /\ SumFunctionOnSet(f, S \ X) \in Int
    <3>1. IsFiniteSet(X \ {x}) /\ (\A y \in X \ {x} : f[y] \in Int) /\ \A y \in S \ X : f[y] \in Int
      BY <2>2, <2>3, FS_Subset
    <3>2. SumFunctionOnSet(f, X \ {x}) \in Int
      BY <3>1, SumsAreIntegers
    <3>3. SumFunctionOnSet(f, S \ X) \in Int
      BY <2>3, <3>1, SumsAreIntegers
    <3> QED BY <2>2, <3>2, <3>3
  <2> QED BY <2>2, <2>6, <2>7, <2>8, <2>9
<1>2. Splits(T)
  <2> HIDE DEF Splits
  <2> QED BY <1>1
<1> QED BY <1>2

\* A sum of natural numbers is one, and no less than any part of it.
LEMMA SumsAreNatural ==
  ASSUME NEW S, IsFiniteSet(S), NEW f, \A x \in S : f[x] \in Nat
  PROVE  SumFunctionOnSet(f, S) \in Nat
<1> DEFINE P == {s \in SUBSET S : SumFunctionOnSet(f, s) \notin Nat}
<1>1. ASSUME P # {} PROVE FALSE
  <2>1. PICK X \in P : \A Y \in P : Y \subseteq X => Y = X
    <3>1. P \subseteq SUBSET S
      OBVIOUS
    <3> HIDE DEF P
    <3> QED BY <1>1, <3>1, SmallestSubset
  <2>2. X \in SUBSET S /\ SumFunctionOnSet(f, X) \notin Nat
    OBVIOUS
  <2>3. IsFiniteSet(X)
    BY <2>2, FS_Subset
  <2>4. X # {}
    BY <2>2, <2>3, SumTakesOne
  <2>5. PICK x \in X : SumFunctionOnSet(f, X) = f[x] + SumFunctionOnSet(f, X \ {x})
    BY <2>3, <2>4, SumTakesOne
  <2>6. X \ {x} \notin P
    <3> HIDE DEF P
    <3> QED BY <2>1
  <2>7. SumFunctionOnSet(f, X \ {x}) \in Nat /\ f[x] \in Nat
    BY <2>2, <2>6
  <2> QED BY <2>2, <2>5, <2>7
<1> QED BY <1>1

LEMMA PartsAreNoMore ==
  ASSUME NEW S, IsFiniteSet(S), NEW f, \A x \in S : f[x] \in Nat, NEW T \in SUBSET S
  PROVE  SumFunctionOnSet(f, T) <= SumFunctionOnSet(f, S)
<1>1. IsFiniteSet(T) /\ IsFiniteSet(S \ T)
  BY FS_Subset
<1>2. SumFunctionOnSet(f, T) \in Nat /\ SumFunctionOnSet(f, S \ T) \in Nat
  BY <1>1, SumsAreNatural
<1>3. SumFunctionOnSet(f, S) = SumFunctionOnSet(f, T) + SumFunctionOnSet(f, S \ T)
  BY SumSplits
<1> QED BY <1>2, <1>3

\* A sum over the values of an injective function.
LEMMA SumOfImage ==
  ASSUME NEW S, IsFiniteSet(S), NEW e, NEW f, NEW g,
         \A x \in S : g[x] \in Int /\ f[e[x]] = g[x],
         \A x, y \in S : e[x] = e[y] => x = y
  PROVE  /\ IsFiniteSet({e[x] : x \in S})
         /\ SumFunctionOnSet(f, {e[x] : x \in S}) = SumFunctionOnSet(g, S)
<1> DEFINE Img(s) == {e[x] : x \in s}
           Same(s) == /\ IsFiniteSet(Img(s))
                      /\ SumFunctionOnSet(f, Img(s)) = SumFunctionOnSet(g, s)
           P == {s \in SUBSET S : ~Same(s)}
<1>1. ASSUME P # {} PROVE FALSE
  <2>1. PICK X \in P : \A Y \in P : Y \subseteq X => Y = X
    <3>1. P \subseteq SUBSET S
      OBVIOUS
    <3> HIDE DEF P
    <3> QED BY <1>1, <3>1, SmallestSubset
  <2>2. X \in SUBSET S /\ ~Same(X)
    OBVIOUS
  <2>3. IsFiniteSet(X)
    BY <2>2, FS_Subset
  <2>4. X # {}
    <3> SUFFICES ASSUME X = {} PROVE Same(X)
      BY <2>2
    <3>1. Img(X) = {}
      OBVIOUS
    <3>2. IsFiniteSet({})
      BY FS_EmptySet
    <3>3. SumFunctionOnSet(f, {}) = 0 /\ SumFunctionOnSet(g, {}) = 0
      BY <3>2, SumTakesOne
    <3>4. IsFiniteSet(Img(X)) /\ SumFunctionOnSet(f, Img(X)) = 0
      BY <3>1, <3>2, <3>3
    <3>5. SumFunctionOnSet(g, X) = 0
      BY <3>3
    <3> QED BY <3>4, <3>5
  <2>5. PICK x \in X : TRUE
    BY <2>4
  <2>6. Same(X \ {x})
    <3>1. X \ {x} \notin P
      <4> HIDE DEF P
      <4> QED BY <2>1
    <3>2. X \ {x} \in SUBSET S
      BY <2>2
    <3> HIDE DEF Same
    <3> QED BY <3>1, <3>2
  <2>7. Img(X) = Img(X \ {x}) \cup {e[x]} /\ e[x] \notin Img(X \ {x})
    BY <2>2
  <2>8. (\A z \in Img(X \ {x}) : f[z] \in Int) /\ f[e[x]] \in Int
    BY <2>2
  <2>9. SumFunctionOnSet(g, X) = g[x] + SumFunctionOnSet(g, X \ {x})
    BY <2>2, <2>3, SumTakesAny
  <2>10. g[x] \in Int /\ f[e[x]] = g[x] /\ SumFunctionOnSet(g, X \ {x}) \in Int
    <3>1. IsFiniteSet(X \ {x}) /\ \A y \in X \ {x} : g[y] \in Int
      BY <2>2, <2>3, FS_Subset
    <3>2. SumFunctionOnSet(g, X \ {x}) \in Int
      BY <3>1, SumsAreIntegers
    <3> QED BY <2>2, <3>2
  <2> DEFINE rest == Img(X \ {x})
             all == Img(X)
             last == e[x]
  <2>11. /\ all = rest \cup {last} /\ last \notin rest /\ IsFiniteSet(rest)
         /\ (\A z \in rest : f[z] \in Int) /\ f[last] \in Int
         /\ SumFunctionOnSet(f, rest) = SumFunctionOnSet(g, X \ {x})
    BY <2>6, <2>7, <2>8
  <2>14. IsFiniteSet(all) /\ SumFunctionOnSet(f, all) = SumFunctionOnSet(g, X) => Same(X)
    OBVIOUS
  <2>15. f[last] = g[x]
    BY <2>10
  <2> HIDE DEF all, rest, last
  <2>12. IsFiniteSet(all)
    BY <2>11, FS_AddElement
  <2>13. SumFunctionOnSet(f, all) = SumFunctionOnSet(f, rest) + f[last]
    BY <2>11, SumAdds
  <2>16. SumFunctionOnSet(f, all) = SumFunctionOnSet(g, X)
    BY <2>9, <2>10, <2>11, <2>13, <2>15
  <2> HIDE DEF Same
  <2> QED BY <2>2, <2>12, <2>14, <2>16
<1>2. Same(S)
  <2>1. S \in SUBSET S
    OBVIOUS
  <2> HIDE DEF Same
  <2> QED BY <1>1, <2>1
<1> QED BY <1>2

LEMMA SumNegates ==
  ASSUME NEW S, IsFiniteSet(S), NEW f, NEW g, \A x \in S : f[x] \in Int /\ g[x] = -f[x]
  PROVE  SumFunctionOnSet(g, S) = -SumFunctionOnSet(f, S)
<1> DEFINE Negates(s) == SumFunctionOnSet(g, s) = -SumFunctionOnSet(f, s)
           P == {s \in SUBSET S : ~Negates(s)}
<1>1. ASSUME P # {} PROVE FALSE
  <2>1. PICK X \in P : \A Y \in P : Y \subseteq X => Y = X
    <3>1. P \subseteq SUBSET S
      OBVIOUS
    <3> HIDE DEF P
    <3> QED BY <1>1, <3>1, SmallestSubset
  <2>2. X \in SUBSET S /\ ~Negates(X)
    OBVIOUS
  <2>3. IsFiniteSet(X)
    BY <2>2, FS_Subset
  <2>4. X # {}
    BY <2>2, <2>3, SumTakesOne
  <2>5. PICK x \in X : TRUE
    BY <2>4
  <2>6. Negates(X \ {x})
    <3>1. X \ {x} \notin P
      <4> HIDE DEF P
      <4> QED BY <2>1
    <3>2. X \ {x} \in SUBSET S
      BY <2>2
    <3> HIDE DEF Negates
    <3> QED BY <3>1, <3>2
  <2>7. SumFunctionOnSet(f, X) = f[x] + SumFunctionOnSet(f, X \ {x})
    BY <2>2, <2>3, SumTakesAny
  <2>8. SumFunctionOnSet(g, X) = g[x] + SumFunctionOnSet(g, X \ {x})
    <3>1. \A y \in X : g[y] \in Int
      BY <2>2
    <3> QED BY <2>3, <3>1, SumTakesAny
  <2>9. f[x] \in Int /\ g[x] = -f[x] /\ SumFunctionOnSet(f, X \ {x}) \in Int
    <3>1. IsFiniteSet(X \ {x}) /\ \A y \in X \ {x} : f[y] \in Int
      BY <2>2, <2>3, FS_Subset
    <3>2. SumFunctionOnSet(f, X \ {x}) \in Int
      BY <3>1, SumsAreIntegers
    <3> QED BY <2>2, <3>2
  <2> QED BY <2>2, <2>6, <2>7, <2>8, <2>9
<1>2. Negates(S)
  <2>1. S \in SUBSET S
    OBVIOUS
  <2> HIDE DEF Negates
  <2> QED BY <1>1, <2>1
<1> QED BY <1>2

\* Any element or none may be set aside.
LEMMA SumWithout ==
  ASSUME NEW S, IsFiniteSet(S), NEW f, \A y \in S : f[y] \in Int, NEW x
  PROVE  /\ SumFunctionOnSet(f, S) = SumFunctionOnSet(f, S \ {x}) + (IF x \in S THEN f[x] ELSE 0)
         /\ SumFunctionOnSet(f, S \ {x}) \in Int
         /\ IsFiniteSet(S \ {x})
<1>1. IsFiniteSet(S \ {x})
  BY FS_Subset
<1>2. SumFunctionOnSet(f, S \ {x}) \in Int /\ SumFunctionOnSet(f, S) \in Int
  <2>1. \A y \in S \ {x} : f[y] \in Int
    OBVIOUS
  <2> QED BY <1>1, <2>1, SumsAreIntegers
<1>3. CASE x \in S
  <2>1. SumFunctionOnSet(f, S) = f[x] + SumFunctionOnSet(f, S \ {x})
    BY <1>3, SumTakesAny
  <2> QED BY <1>1, <1>2, <1>3, <2>1
<1>4. CASE x \notin S
  <2>1. S \ {x} = S
    BY <1>4
  <2>2. SumFunctionOnSet(f, S \ {x}) = SumFunctionOnSet(f, S)
    BY <2>1
  <2> QED BY <1>1, <1>2, <1>4, <2>2
<1> QED BY <1>3, <1>4

-----------------------------------------------------------------------------
(* The merchant's account: its buckets, its ledger, what it owes.        *)

LegsOf(L, b) == {l \in L : l.bucket = b}

\* Totals of legs.
LEMMA TotalOfPart ==
  ASSUME NEW M, IsFiniteSet(M), NEW L \in SUBSET M
  PROVE  Total(L) = SumFunctionOnSet([l \in M |-> l.delta], L)
<1> DEFINE f == [l \in L |-> l.delta]
           g == [l \in M |-> l.delta]
<1>1. IsFiniteSet(L)
  BY FS_Subset
<1>2. \A l \in L : f[l] = g[l]
  OBVIOUS
<1> HIDE DEF f, g
<1>3. SumFunctionOnSet(f, L) = SumFunctionOnSet(g, L)
  BY <1>1, <1>2, SumIsOfValues
<1> QED BY <1>3 DEF Total, f, g

LEMMA TotalAdds ==
  ASSUME NEW L, IsFiniteSet(L), NEW N, IsFiniteSet(N), L \cap N = {},
         \A l \in L \cup N : l.delta \in Int
  PROVE  /\ Total(L \cup N) = Total(L) + Total(N)
         /\ Total(L) \in Int /\ Total(N) \in Int
<1> DEFINE M == L \cup N
           f == [l \in M |-> l.delta]
<1>1. IsFiniteSet(M) /\ L \subseteq M /\ N \subseteq M /\ M \ L = N
  BY FS_Union
<1>2. \A l \in M : f[l] \in Int
  OBVIOUS
<1>3. /\ Total(M) = SumFunctionOnSet(f, M) /\ Total(L) = SumFunctionOnSet(f, L)
      /\ Total(N) = SumFunctionOnSet(f, N)
  <2> HIDE DEF M
  <2> QED BY <1>1, TotalOfPart
<1> HIDE DEF M, f
<1>4. SumFunctionOnSet(f, M) = SumFunctionOnSet(f, L) + SumFunctionOnSet(f, M \ L)
  BY <1>1, <1>2, SumSplits
<1>5. SumFunctionOnSet(f, L) \in Int /\ SumFunctionOnSet(f, N) \in Int
  BY <1>1, <1>2, SumsAreIntegers
<1>6. Total(M) = Total(L) + Total(N)
  BY <1>1, <1>3, <1>4, Zenon
<1> QED BY <1>3, <1>5, <1>6 DEF M

LEMMA TotalOfFew ==
  /\ Total({}) = 0
  /\ \A e : e.delta \in Int => Total({e}) = e.delta
<1>1. Total({}) = 0
  BY FS_EmptySet, SumTakesOne DEF Total
<1>2. ASSUME NEW e, e.delta \in Int PROVE Total({e}) = e.delta
  <2> DEFINE f == [l \in {e} |-> l.delta]
             S == {e}
  <2>1. f[e] = e.delta /\ IsFiniteSet(S) /\ e \in S /\ S \ {e} = {}
    BY FS_Singleton
  <2>2. \A y \in S : f[y] \in Int
    BY <1>2
  <2>3. Total(S) = SumFunctionOnSet(f, S)
    BY DEF Total
  <2> HIDE DEF f, S
  <2>4. SumFunctionOnSet(f, S) = f[e] + SumFunctionOnSet(f, S \ {e})
    BY <2>1, <2>2, SumTakesAny
  <2>5. SumFunctionOnSet(f, {}) = 0
    BY FS_EmptySet, SumTakesOne
  <2>6. SumFunctionOnSet(f, S \ {e}) = 0
    BY <2>1, <2>5
  <2>7. Total(S) = e.delta
    BY <1>2, <2>1, <2>3, <2>4, <2>6
  <2> QED BY <2>7 DEF S
<1> QED BY <1>1, <1>2

\* Each bucket is the total of its legs, if every change of it is that of new legs.
Balanced(acc, L) == \A b \in Buckets : acc[b] = Total(LegsOf(L, b))

LegsTyped(L) == IsFiniteSet(L) /\ \A l \in L : l.delta \in Int

LEMMA BalanceGrows ==
  ASSUME NEW acc, NEW accNext, NEW L, NEW N, Balanced(acc, L), LegsTyped(L), LegsTyped(N),
         L \cap N = {},
         \A b \in Buckets : accNext[b] = acc[b] + Total(LegsOf(N, b))
  PROVE  Balanced(accNext, L \cup N) /\ LegsTyped(L \cup N)
<1>1. LegsTyped(L \cup N)
  BY FS_Union DEF LegsTyped
<1>2. ASSUME NEW b \in Buckets PROVE accNext[b] = Total(LegsOf(L \cup N, b))
  <2>1. LegsOf(L \cup N, b) = LegsOf(L, b) \cup LegsOf(N, b) /\ LegsOf(L, b) \cap LegsOf(N, b) = {}
    BY DEF LegsOf
  <2>2. /\ IsFiniteSet(LegsOf(L, b)) /\ IsFiniteSet(LegsOf(N, b))
        /\ \A l \in LegsOf(L, b) \cup LegsOf(N, b) : l.delta \in Int
    BY FS_Subset DEF LegsOf, LegsTyped
  <2>3. Total(LegsOf(L, b) \cup LegsOf(N, b)) = Total(LegsOf(L, b)) + Total(LegsOf(N, b))
    BY <2>1, <2>2, TotalAdds
  <2> QED BY <2>1, <2>3 DEF Balanced
<1> QED BY <1>1, <1>2 DEF Balanced

\* One entry.
LEMMA PostBalances ==
  ASSUME Balanced(account, ledger), LegsTyped(ledger), account \in [Buckets -> Int],
         NEW ref, NEW type, NEW bucket \in Buckets, NEW delta \in Int,
         Post(ref, type, bucket, delta)
  PROVE  Balanced(account', ledger') /\ LegsTyped(ledger')
<1> DEFINE e == Entry(ref, type, bucket, delta)
           N == {e}
<1>1. e.ref = ref /\ e.type = type /\ e.bucket = bucket /\ e.delta = delta
  BY DEF Entry
<1>2. ledger' = ledger \cup N /\ e \notin ledger
  BY <1>1 DEF Post, Unposted
<1> HIDE DEF e
<1>3. LegsTyped(N)
  BY <1>1, FS_Singleton DEF LegsTyped
<1>4. \A b \in Buckets : account'[b] = account[b] + Total(LegsOf(N, b))
  <2> SUFFICES ASSUME NEW b \in Buckets PROVE account'[b] = account[b] + Total(LegsOf(N, b))
    OBVIOUS
  <2>1. CASE b = bucket
    <3>1. LegsOf(N, b) = {e}
      BY <1>1, <2>1 DEF LegsOf
    <3>2. Total(LegsOf(N, b)) = delta
      BY <1>1, <3>1, TotalOfFew
    <3> QED BY <2>1, <3>2 DEF Post
  <2>2. CASE b # bucket
    <3>1. LegsOf(N, b) = {}
      BY <1>1, <2>2 DEF LegsOf
    <3>2. Total(LegsOf(N, b)) = 0
      BY <3>1, TotalOfFew
    <3> QED BY <2>2, <3>2 DEF Post
  <2> QED BY <2>1, <2>2
<1> HIDE DEF N
<1>5. ledger \cap N = {}
  BY <1>2 DEF N
<1> QED BY <1>2, <1>3, <1>4, <1>5, BalanceGrows

\* The two entries of a move.
LEMMA MoveBalances ==
  ASSUME Balanced(account, ledger), LegsTyped(ledger), account \in [Buckets -> Int],
         NEW ref, NEW type, NEW amount \in Int, NEW from \in Buckets, NEW to \in Buckets, from # to,
         Move(ref, type, amount, from, to)
  PROVE  Balanced(account', ledger') /\ LegsTyped(ledger')
<1> DEFINE d == Entry(ref, type, from, -amount)
           e == Entry(ref, type, to, amount)
           N == {d, e}
<1>1. /\ d.ref = ref /\ d.type = type /\ d.bucket = from /\ d.delta = -amount
      /\ e.ref = ref /\ e.type = type /\ e.bucket = to /\ e.delta = amount
  BY DEF Entry
<1>2. ledger' = ledger \cup N /\ d \notin ledger /\ e \notin ledger
  BY <1>1 DEF Move, Unposted
<1> HIDE DEF d, e
<1>3. LegsTyped(N)
  <2>1. IsFiniteSet({d}) /\ IsFiniteSet({e}) /\ N = {d} \cup {e}
    BY FS_Singleton
  <2>3. IsFiniteSet({d} \cup {e})
    BY <2>1, FS_Union
  <2>2. IsFiniteSet(N)
    BY <2>1, <2>3
  <2> QED BY <1>1, <2>2 DEF LegsTyped
<1>4. \A b \in Buckets : account'[b] = account[b] + Total(LegsOf(N, b))
  <2> SUFFICES ASSUME NEW b \in Buckets PROVE account'[b] = account[b] + Total(LegsOf(N, b))
    OBVIOUS
  <2>0. /\ account' = [account EXCEPT ![from] = @ - amount, ![to] = @ + amount]
        /\ account[b] \in Int
    BY DEF Move
  <2>1. CASE b = from
    <3>1. LegsOf(N, b) = {d}
      BY <1>1, <2>1 DEF LegsOf
    <3>2. Total(LegsOf(N, b)) = -amount
      BY <1>1, <3>1, TotalOfFew
    <3> QED BY <2>0, <2>1, <3>2
  <2>2. CASE b = to
    <3>1. LegsOf(N, b) = {e}
      BY <1>1, <2>2 DEF LegsOf
    <3>2. Total(LegsOf(N, b)) = amount
      BY <1>1, <3>1, TotalOfFew
    <3> QED BY <2>0, <2>2, <3>2
  <2>3. CASE b # from /\ b # to
    <3>1. LegsOf(N, b) = {}
      BY <1>1, <2>3 DEF LegsOf
    <3>2. Total(LegsOf(N, b)) = 0
      BY <3>1, TotalOfFew
    <3> QED BY <2>0, <2>3, <3>2
  <2> QED BY <2>1, <2>2, <2>3
<1> HIDE DEF N
<1>5. ledger \cap N = {}
  BY <1>2 DEF N
<1> QED BY <1>2, <1>3, <1>4, <1>5, BalanceGrows

\* The entries of a batch of settlements.
LEMMA SettleBalances ==
  ASSUME Balanced(account, ledger), LegsTyped(ledger), account \in [Buckets -> Int],
         NEW S \in SUBSET Charges, IsFiniteSet(S), SettleDue(S)
  PROVE  Balanced(account', ledger') /\ LegsTyped(ledger')
<1> DEFINE d == [c \in S |-> Entry(c, "settlement_available", "pending", -AmountOf[c])]
           e == [c \in S |-> Entry(c, "settlement_available", "available", AmountOf[c])]
           D == {d[c] : c \in S}
           E == {e[c] : c \in S}
           N == D \cup E
<1>1. \A c \in S : /\ d[c].ref = c /\ d[c].type = "settlement_available"
                   /\ d[c].bucket = "pending" /\ d[c].delta = -AmountOf[c]
                   /\ e[c].ref = c /\ e[c].type = "settlement_available"
                   /\ e[c].bucket = "available" /\ e[c].delta = AmountOf[c]
                   /\ AmountOf[c] \in Int
  BY AmountAssumption DEF Entry
<1>2. ledger' = ledger \cup N
  <2>1. /\ D = {Entry(c, "settlement_available", "pending", -AmountOf[c]) : c \in S}
        /\ E = {Entry(c, "settlement_available", "available", AmountOf[c]) : c \in S}
    OBVIOUS
  <2> HIDE DEF D, E
  <2> QED BY <2>1 DEF SettleDue
<1>3. \A c \in S : d[c] \notin ledger /\ e[c] \notin ledger
  <2> HIDE DEF d, e
  <2> QED BY <1>1 DEF SettleDue, Unposted
<1> HIDE DEF d, e
<1>4. /\ IsFiniteSet(D) /\ Total(D) = -Worth(S)
      /\ IsFiniteSet(E) /\ Total(E) = Worth(S)
      /\ Worth(S) \in Int
  <2> DEFINE minus == [c \in S |-> -AmountOf[c]]
  <2>1. \A c \in S : AmountOf[c] \in Int /\ minus[c] = -AmountOf[c] /\ minus[c] \in Int
    BY <1>1
  <2> HIDE DEF minus
  <2>2. SumFunctionOnSet(minus, S) = -SumFunctionOnSet(AmountOf, S)
    BY <2>1, SumNegates
  <2>3. SumFunctionOnSet(AmountOf, S) \in Int
    BY <2>1, SumsAreIntegers
  <2> DEFINE f == [l \in D |-> l.delta]
             g == [l \in E |-> l.delta]
  <2>4. /\ \A c \in S : f[d[c]] = minus[c]
        /\ \A c, k \in S : d[c] = d[k] => c = k
    BY <1>1, <2>1
  <2>5. /\ \A c \in S : g[e[c]] = AmountOf[c]
        /\ \A c, k \in S : e[c] = e[k] => c = k
    BY <1>1, <2>1
  <2>6. Total(D) = SumFunctionOnSet(f, {d[c] : c \in S}) /\ Total(E) = SumFunctionOnSet(g, {e[c] : c \in S})
    BY DEF Total
  <2> HIDE DEF f, g
  <2>7. /\ IsFiniteSet({d[c] : c \in S})
        /\ SumFunctionOnSet(f, {d[c] : c \in S}) = SumFunctionOnSet(minus, S)
    BY <2>1, <2>4, SumOfImage
  <2>8. /\ IsFiniteSet({e[c] : c \in S})
        /\ SumFunctionOnSet(g, {e[c] : c \in S}) = SumFunctionOnSet(AmountOf, S)
    BY <2>1, <2>5, SumOfImage
  <2> QED BY <2>2, <2>3, <2>6, <2>7, <2>8 DEF Worth
<1>5. \A l \in N : l.delta \in Int
  BY <1>1
<1>6. LegsOf(N, "pending") = D /\ LegsOf(N, "available") = E
  BY <1>1 DEF LegsOf
<1>7. \A b \in Buckets : b \notin {"pending", "available"} => LegsOf(N, b) = {}
  BY <1>1 DEF LegsOf
<1>8. ledger \cap N = {}
  BY <1>3
<1> HIDE DEF D, E
<1>9. IsFiniteSet(N)
  BY <1>4, FS_Union
<1>10. LegsTyped(N)
  BY <1>5, <1>9 DEF LegsTyped
<1> HIDE DEF N
<1>11. \A b \in Buckets : account'[b] = account[b] + Total(LegsOf(N, b))
  <2> SUFFICES ASSUME NEW b \in Buckets PROVE account'[b] = account[b] + Total(LegsOf(N, b))
    OBVIOUS
  <2>0. /\ account' = [account EXCEPT !["pending"] = @ - Worth(S), !["available"] = @ + Worth(S)]
        /\ account[b] \in Int
    BY DEF SettleDue
  <2>1. CASE b = "pending"
    BY <1>4, <1>6, <2>0, <2>1
  <2>2. CASE b = "available"
    BY <1>4, <1>6, <2>0, <2>2
  <2>3. CASE b \notin {"pending", "available"}
    <3>1. Total(LegsOf(N, b)) = 0
      BY <1>7, <2>3, TotalOfFew
    <3> QED BY <2>0, <2>3, <3>1
  <2> QED BY <2>1, <2>2, <2>3
<1> QED BY <1>2, <1>8, <1>10, <1>11, BalanceGrows
-----------------------------------------------------------------------------
(* What the account owes.                                                *)

Legged(L, c, type, bucket) == \E l \in L : l.ref = c /\ l.type = type /\ l.bucket = bucket

Accrued      == {c \in Charges : settlement[c] # "none"}
PendingOnes  == {c \in Charges : settlement[c] = "pending"}
NetOf(L)     == {c \in Charges : /\ Legged(L, c, "settlement_available", "available")
                                 /\ ~Legged(L, c, "refund", "available")}

Owed ==
  /\ account["pending"] = Worth(PendingOnes)
  /\ account["frozen"] = AmountsOf(InStatus({"submitted", "approved"}))
  /\ account["withdrawn"] = AmountsOf(InStatus({"paid"}))
  /\ account["available"] + account["frozen"] + account["withdrawn"] = Worth(NetOf(ledger))

LEMMA ExplainedByParts == AccountIsExplained <=> Balanced(account, ledger) /\ Owed
BY DEF AccountIsExplained, BalanceIsLedger, BucketsAreOwed, PaidFromSettled, Balanced, LegsOf,
       Owed, PendingOnes, NetOf, Legged

\* Only so many charges and withdrawals have begun.
AccountIsSmall ==
  /\ IsFiniteSet(Accrued)
  /\ IsFiniteSet(InStatus(WithdrawalStatus \ {"none"}))

AccountInv ==
  /\ FinanceTypeOK
  /\ LedgerTellsStatus
  /\ LegsTyped(ledger)
  /\ AccountIsSmall
  /\ Balanced(account, ledger)
  /\ Owed

\* Sums of amounts.
LEMMA WorthAdds ==
  ASSUME NEW S \in SUBSET Charges, IsFiniteSet(S), NEW T \in SUBSET S
  PROVE  /\ Worth(S) = Worth(T) + Worth(S \ T)
         /\ Worth(S) \in Nat /\ Worth(T) \in Nat /\ Worth(S \ T) \in Nat
<1>1. IsFiniteSet(T) /\ IsFiniteSet(S \ T)
  BY FS_Subset
<1>2. \A c \in S : AmountOf[c] \in Nat /\ AmountOf[c] \in Int
  BY AmountAssumption
<1>3. Worth(S) = Worth(T) + Worth(S \ T)
  BY <1>2, SumSplits DEF Worth
<1>4. \A c \in T : AmountOf[c] \in Nat
  BY <1>2
<1>5. \A c \in S \ T : AmountOf[c] \in Nat
  BY <1>2
<1>6. Worth(S) \in Nat
  BY <1>2, SumsAreNatural DEF Worth
<1>7. Worth(T) \in Nat
  BY <1>1, <1>4, SumsAreNatural DEF Worth
<1>8. Worth(S \ T) \in Nat
  BY <1>1, <1>5, SumsAreNatural DEF Worth
<1> QED BY <1>3, <1>6, <1>7, <1>8

LEMMA WorthOfOne ==
  ASSUME NEW c \in Charges
  PROVE  Worth({c}) = AmountOf[c] /\ IsFiniteSet({c})
<1> DEFINE S == {c}
<1>1. IsFiniteSet(S) /\ c \in S /\ S \ {c} = {} /\ AmountOf[c] \in Int
      /\ \A y \in S : AmountOf[y] \in Int
  <2>1. AmountOf[c] \in Int
    BY AmountAssumption
  <2> QED BY <2>1, FS_Singleton
<1> HIDE DEF S
<1>2. SumFunctionOnSet(AmountOf, S) = AmountOf[c] + SumFunctionOnSet(AmountOf, S \ {c})
  BY <1>1, SumTakesAny
<1>3. SumFunctionOnSet(AmountOf, {}) = 0
  BY FS_EmptySet, SumTakesOne
<1>4. SumFunctionOnSet(AmountOf, S \ {c}) = 0
  BY <1>1, <1>3
<1>5. Worth(S) = AmountOf[c]
  BY <1>1, <1>2, <1>4 DEF Worth
<1> QED BY <1>1, <1>5 DEF S

\* One charge comes to a finite set of charges, or leaves it.
LEMMA WorthOfMore ==
  ASSUME NEW S \in SUBSET Charges, IsFiniteSet(S), NEW c \in Charges, c \notin S
  PROVE  Worth(S \cup {c}) = Worth(S) + AmountOf[c]
<1> DEFINE all == S \cup {c}
<1>1. IsFiniteSet(all) /\ all \in SUBSET Charges /\ S \in SUBSET all /\ all \ S = {c}
  BY FS_AddElement
<1> HIDE DEF all
<1>2. Worth(all) = Worth(S) + Worth(all \ S)
  BY <1>1, WorthAdds
<1>3. Worth(all \ S) = AmountOf[c]
  BY <1>1, WorthOfOne
<1> QED BY <1>2, <1>3 DEF all

LEMMA WorthOfLess ==
  ASSUME NEW S \in SUBSET Charges, IsFiniteSet(S), NEW c \in S
  PROVE  Worth(S) = Worth(S \ {c}) + AmountOf[c] /\ AmountOf[c] <= Worth(S)
<1>1. {c} \in SUBSET S /\ c \in Charges
  OBVIOUS
<1>2. /\ Worth(S) = Worth({c}) + Worth(S \ {c})
      /\ Worth({c}) \in Nat /\ Worth(S \ {c}) \in Nat
  BY <1>1, WorthAdds
<1>3. Worth({c}) = AmountOf[c]
  BY <1>1, WorthOfOne
<1> QED BY <1>2, <1>3

AmountsIn(row, W) == SumFunctionOnSet([w \in W |-> row[w].amount], W)

\* Sums of withdrawals, before and after a step.
LEMMA AmountsOfMore ==
  ASSUME NEW row, NEW W, IsFiniteSet(W), NEW v, v \notin W,
         \A w \in W \cup {v} : row[w].amount \in Int
  PROVE  AmountsIn(row, W \cup {v}) = AmountsIn(row, W) + row[v].amount
<1> DEFINE all == W \cup {v}
           f == [w \in all |-> row[w].amount]
           g == [w \in W |-> row[w].amount]
<1>1. f[v] = row[v].amount /\ f[v] \in Int /\ (\A w \in W : f[w] \in Int) /\ \A w \in W : f[w] = g[w]
  OBVIOUS
<1>2. AmountsIn(row, all) = SumFunctionOnSet(f, all) /\ AmountsIn(row, W) = SumFunctionOnSet(g, W)
  BY DEF AmountsIn
<1> HIDE DEF f, g
<1>3. SumFunctionOnSet(f, W \cup {v}) = SumFunctionOnSet(f, W) + f[v]
  BY <1>1, SumAdds
<1>4. SumFunctionOnSet(f, W) = SumFunctionOnSet(g, W)
  BY <1>1, SumIsOfValues
<1> QED BY <1>1, <1>2, <1>3, <1>4

LEMMA AmountsOfSame ==
  ASSUME NEW row, NEW rowNext, NEW W, IsFiniteSet(W), \A w \in W : rowNext[w].amount = row[w].amount
  PROVE  AmountsIn(rowNext, W) = AmountsIn(row, W)
<1> DEFINE f == [w \in W |-> row[w].amount]
           g == [w \in W |-> rowNext[w].amount]
<1>1. \A w \in W : g[w] = f[w]
  OBVIOUS
<1> HIDE DEF f, g
<1>2. SumFunctionOnSet(g, W) = SumFunctionOnSet(f, W)
  BY <1>1, SumIsOfValues
<1> QED BY <1>2 DEF AmountsIn, f, g

LEMMA AmountsOfLess ==
  ASSUME NEW row, NEW W, IsFiniteSet(W), NEW v \in W, \A w \in W : row[w].amount \in Int
  PROVE  AmountsIn(row, W) = AmountsIn(row, W \ {v}) + row[v].amount
<1> DEFINE rest == W \ {v}
<1>1. /\ IsFiniteSet(rest) /\ v \notin rest /\ rest \cup {v} = W
      /\ \A w \in rest \cup {v} : row[w].amount \in Int
  BY FS_Subset
<1> HIDE DEF rest
<1>2. AmountsIn(row, rest \cup {v}) = AmountsIn(row, rest) + row[v].amount
  BY <1>1, AmountsOfMore
<1>3. AmountsIn(row, W) = AmountsIn(row, rest) + row[v].amount
  BY <1>1, <1>2, Zenon
<1> QED BY <1>3 DEF rest

LEMMA AmountsAreIntegers ==
  ASSUME NEW row, NEW W, IsFiniteSet(W), \A w \in W : row[w].amount \in Int
  PROVE  AmountsIn(row, W) \in Int
<1> DEFINE f == [w \in W |-> row[w].amount]
<1>1. \A w \in W : f[w] \in Int
  OBVIOUS
<1> HIDE DEF f
<1>2. SumFunctionOnSet(f, W) \in Int
  BY <1>1, SumsAreIntegers
<1> QED BY <1>2 DEF AmountsIn, f
-----------------------------------------------------------------------------
(* Steps of the account.                                                 *)

LEMMA AccountInitially == FinanceInit => AccountInv
<1> SUFFICES ASSUME FinanceInit PROVE AccountInv
  OBVIOUS
<1>1. FinanceTypeOK
  BY InitFinanceType
<1>2. LedgerTellsStatus
  BY DEF FinanceInit, LedgerTellsStatus, SettlementTold, WithdrawalTold, Posted
<1>3. /\ Accrued = {} /\ InStatus(WithdrawalStatus \ {"none"}) = {} /\ PendingOnes = {}
      /\ InStatus({"submitted", "approved"}) = {} /\ InStatus({"paid"}) = {} /\ ledger = {}
      /\ NetOf({}) = {} /\ \A b \in Buckets : LegsOf({}, b) = {} /\ account[b] = 0
  BY DEF FinanceInit, Accrued, PendingOnes, InStatus, NetOf, Legged, LegsOf
<1>4. LegsTyped(ledger) /\ AccountIsSmall
  BY <1>3, FS_EmptySet DEF LegsTyped, AccountIsSmall
<1>5. Worth({}) = 0 /\ Total({}) = 0
  BY FS_EmptySet, SumTakesOne, TotalOfFew DEF Worth
<1>6. AmountsOf({}) = 0
  BY FS_EmptySet, SumTakesOne DEF AmountsOf
<1>7. Balanced(account, ledger)
  BY <1>3, <1>5 DEF Balanced
<1>8. Owed
  BY <1>3, <1>5, <1>6 DEF Owed, Buckets
<1> QED BY <1>1, <1>2, <1>4, <1>7, <1>8 DEF AccountInv

\* Sets of charges whose worth the account owes.
LEMMA AccruedOnes ==
  ASSUME AccountInv
  PROVE  /\ account \in [Buckets -> Int]
         /\ \A b \in {"pending", "available", "frozen", "withdrawn"} : account[b] \in Int
         /\ IsFiniteSet(PendingOnes) /\ PendingOnes \in SUBSET Charges
         /\ IsFiniteSet(NetOf(ledger)) /\ NetOf(ledger) \in SUBSET Charges
         /\ \A c \in PendingOnes : ~Legged(ledger, c, "settlement_available", "available")
         /\ \A c \in Charges : settlement[c] \in {"none", "pending", "settled"}
                                  => \A b \in Buckets : ~Legged(ledger, c, "refund", b)
         /\ \A c \in Charges : settlement[c] = "settled" => c \in NetOf(ledger)
<1> USE DEF AccountInv
<1>1. account \in [Buckets -> Int] /\ Buckets = {"pending", "available", "frozen", "withdrawn"}
  BY BalanceAssumption DEF FinanceTypeOK, Buckets
<1>2. \A c, t, b : Legged(ledger, c, t, b) <=> b \in Posted(c, t)
  BY DEF Legged, Posted
<1>3. PendingOnes \subseteq Accrued /\ NetOf(ledger) \subseteq Accrued
  BY <1>2 DEF PendingOnes, Accrued, NetOf, LedgerTellsStatus, SettlementTold
<1>4. IsFiniteSet(PendingOnes) /\ IsFiniteSet(NetOf(ledger))
  BY <1>3, FS_Subset DEF AccountIsSmall
<1>5. PendingOnes \in SUBSET Charges /\ NetOf(ledger) \in SUBSET Charges
  BY DEF PendingOnes, NetOf
<1>6. \A c \in PendingOnes : ~Legged(ledger, c, "settlement_available", "available")
  BY <1>2 DEF PendingOnes, LedgerTellsStatus, SettlementTold
<1>7. \A c \in Charges : settlement[c] \in {"none", "pending", "settled"}
                          => \A b \in Buckets : ~Legged(ledger, c, "refund", b)
  BY <1>2 DEF LedgerTellsStatus, SettlementTold
<1>8. \A c \in Charges : settlement[c] = "settled" => c \in NetOf(ledger)
  <2> SUFFICES ASSUME NEW c \in Charges, settlement[c] = "settled" PROVE c \in NetOf(ledger)
    OBVIOUS
  <2>1. Posted(c, "settlement_available") = {"pending", "available"} /\ Posted(c, "refund") = {}
    BY DEF LedgerTellsStatus, SettlementTold
  <2> QED BY <1>2, <2>1 DEF NetOf
<1> QED BY <1>1, <1>4, <1>5, <1>6, <1>7, <1>8

\* Entries of other types change nothing of what was settled.
LEMMA NetKept ==
  ASSUME NEW L, NEW N, \A l \in N : l.type \notin {"settlement_available", "refund"}
  PROVE  NetOf(L \cup N) = NetOf(L)
<1>1. \A c, b : \A t \in {"settlement_available", "refund"} :
        Legged(L \cup N, c, t, b) <=> Legged(L, c, t, b)
  BY DEF Legged
<1> QED BY <1>1 DEF NetOf

LEMMA CreditStep ==
  ASSUME AccountInv, NEW c \in Charges, CreditCharge(c), FinanceTypeOK', LedgerTellsStatus'
  PROVE  AccountInv'
<1> USE DEF AccountInv
<1>1. /\ settlement[c] = "none" /\ settlement' = [settlement EXCEPT ![c] = "pending"]
      /\ Post(c, "payment_pending", "pending", AmountOf[c]) /\ UNCHANGED withdrawal
      /\ AmountOf[c] \in Int /\ "pending" \in Buckets
  BY AmountAssumption DEF CreditCharge, Buckets
<1>2. Balanced(account', ledger') /\ LegsTyped(ledger')
  BY <1>1, AccruedOnes, PostBalances
<1>3. PendingOnes' = PendingOnes \cup {c} /\ c \notin PendingOnes /\ Accrued' = Accrued \cup {c}
  BY <1>1 DEF PendingOnes, Accrued, FinanceTypeOK
<1>4. Worth(PendingOnes') = Worth(PendingOnes) + AmountOf[c]
  BY <1>3, AccruedOnes, WorthOfMore
<1>5. NetOf(ledger') = NetOf(ledger)
  <2> DEFINE N == {Entry(c, "payment_pending", "pending", AmountOf[c])}
  <2>1. ledger' = ledger \cup N /\ \A l \in N : l.type \notin {"settlement_available", "refund"}
    BY <1>1 DEF Post, Entry
  <2> HIDE DEF N
  <2> QED BY <2>1, NetKept
<1>6. /\ account'["pending"] = account["pending"] + AmountOf[c]
      /\ \A b \in {"available", "frozen", "withdrawn"} : account'[b] = account[b]
  BY <1>1, AccruedOnes DEF Post, Buckets
<1>7. AccountIsSmall'
  BY <1>1, <1>3, FS_AddElement DEF AccountIsSmall, InStatus
<1>8. Owed'
  BY <1>1, <1>4, <1>5, <1>6 DEF Owed, AmountsOf, InStatus
<1> QED BY <1>2, <1>7, <1>8

\* The refund of what is pending always finds its money.
LEMMA PendingIsCovered ==
  ASSUME AccountInv, NEW c \in Charges, settlement[c] = "pending"
  PROVE  CoveredBy(c, "pending") /\ Covered(c)
<1>1. c \in PendingOnes /\ "pending" \in Buckets
  BY DEF PendingOnes, Buckets
<1>2. AmountOf[c] <= Worth(PendingOnes)
  BY <1>1, AccruedOnes, WorthOfLess
<1> QED BY <1>1, <1>2 DEF CoveredBy, Covered, AccountInv, Owed

LEMMA CloseStep ==
  ASSUME AccountInv, NEW c \in Charges, CloseSettlement(c), FinanceTypeOK', LedgerTellsStatus'
  PROVE  AccountInv'
<1> USE DEF AccountInv
<1>1. /\ settlement[c] \in {"pending", "settled"}
      /\ settlement' = [settlement EXCEPT ![c] = "refunded"] /\ UNCHANGED withdrawal
      /\ settlement'[c] = "refunded" /\ \A d \in Charges \ {c} : settlement'[d] = settlement[d]
  BY DEF CloseSettlement, FinanceTypeOK
<1>2. Accrued' = Accrued /\ PendingOnes' = PendingOnes \ {c}
  BY <1>1 DEF Accrued, PendingOnes
<1>3. AccountIsSmall'
  BY <1>1, <1>2 DEF AccountIsSmall, InStatus
<1>4. CASE ~Covered(c)
  <2>1. UNCHANGED <<account, ledger>>
    BY <1>4 DEF CloseSettlement
  <2>2. settlement[c] = "settled"
    BY <1>1, <1>4, PendingIsCovered
  <2>3. PendingOnes' = PendingOnes
    BY <1>2, <2>2 DEF PendingOnes
  <2>4. Owed'
    BY <1>1, <2>1, <2>3 DEF Owed, AmountsOf, InStatus
  <2> QED BY <1>3, <2>1, <2>4
<1>5. CASE Covered(c)
  <2>1. PICK b \in Buckets : CoveredBy(c, b) /\ Post(c, "refund", b, -AmountOf[c])
    BY <1>5 DEF CloseSettlement
  <2>2. -AmountOf[c] \in Int /\ AmountOf[c] \in Int
    BY AmountAssumption
  <2>3. Balanced(account', ledger') /\ LegsTyped(ledger')
    BY <2>1, <2>2, AccruedOnes, PostBalances
  <2>4. /\ account'[b] = account[b] - AmountOf[c]
        /\ \A d \in {"pending", "available", "frozen", "withdrawn"} \ {b} : account'[d] = account[d]
    BY <2>1, <2>2, AccruedOnes DEF Post, Buckets
  <2> DEFINE e == Entry(c, "refund", b, -AmountOf[c])
  <2>5. ledger' = ledger \cup {e} /\ e.ref = c /\ e.type = "refund" /\ e.bucket = b
    BY <2>1 DEF Post, Entry
  <2> HIDE DEF e
  <2>6. CASE b = "pending"
    <3>1. settlement[c] = "pending"
      BY <2>1, <2>6 DEF CoveredBy
    <3>2. c \in PendingOnes
      BY <3>1 DEF PendingOnes
    <3>3. Worth(PendingOnes) = Worth(PendingOnes') + AmountOf[c] /\ Worth(PendingOnes') \in Nat
      <4>1. PendingOnes \ {c} = PendingOnes'
        BY <1>2
      <4>2. Worth(PendingOnes) = Worth(PendingOnes \ {c}) + AmountOf[c]
        BY <3>2, AccruedOnes, WorthOfLess
      <4>3. Worth(PendingOnes \ {c}) \in Nat
        <5>1. {c} \in SUBSET PendingOnes
          BY <3>2
        <5> QED BY <5>1, AccruedOnes, WorthAdds
      <4> QED BY <4>1, <4>2, <4>3
    <3>4. NetOf(ledger') = NetOf(ledger)
      <4>1. \A d : Legged(ledger', d, "settlement_available", "available")
                     <=> Legged(ledger, d, "settlement_available", "available")
        BY <2>5 DEF Legged
      <4>2. \A d : Legged(ledger', d, "refund", "available")
                     <=> Legged(ledger, d, "refund", "available")
        BY <2>5, <2>6 DEF Legged
      <4> QED BY <4>1, <4>2 DEF NetOf
    <3>5. Owed'
      BY <1>1, <2>2, <2>4, <2>6, <3>3, <3>4 DEF Owed, AmountsOf, InStatus
    <3> QED BY <1>3, <2>3, <3>5
  <2>7. CASE b = "available"
    <3>1. settlement[c] = "settled" /\ c \in NetOf(ledger)
      BY <2>1, <2>7, AccruedOnes DEF CoveredBy
    <3>2. PendingOnes' = PendingOnes
      BY <1>2, <3>1 DEF PendingOnes
    <3>3. NetOf(ledger') = NetOf(ledger) \ {c}
      <4>1. \A d : Legged(ledger', d, "settlement_available", "available")
                     <=> Legged(ledger, d, "settlement_available", "available")
        BY <2>5 DEF Legged
      <4>2. \A d : Legged(ledger', d, "refund", "available")
                     <=> Legged(ledger, d, "refund", "available") \/ d = c
        BY <2>5, <2>7 DEF Legged
      <4> QED BY <4>1, <4>2 DEF NetOf
    <3>4. Worth(NetOf(ledger)) = Worth(NetOf(ledger')) + AmountOf[c] /\ Worth(NetOf(ledger')) \in Nat
      <4>1. {c} \in SUBSET NetOf(ledger)
        BY <3>1
      <4>2. Worth(NetOf(ledger)) = Worth(NetOf(ledger) \ {c}) + AmountOf[c]
        BY <3>1, AccruedOnes, WorthOfLess
      <4>3. Worth(NetOf(ledger) \ {c}) \in Nat
        BY <4>1, AccruedOnes, WorthAdds
      <4> QED BY <3>3, <4>2, <4>3
    <3>5. \A d \in {"available", "frozen", "withdrawn"} : account[d] \in Int
      BY AccruedOnes
    <3>6. /\ account'["available"] = account["available"] - AmountOf[c]
          /\ account'["pending"] = account["pending"]
          /\ account'["frozen"] = account["frozen"]
          /\ account'["withdrawn"] = account["withdrawn"]
      BY <2>4, <2>7
    <3>7. account["available"] + account["frozen"] + account["withdrawn"] = Worth(NetOf(ledger))
      BY DEF Owed
    <3>8. account'["available"] + account'["frozen"] + account'["withdrawn"] = Worth(NetOf(ledger'))
      BY <2>2, <3>4, <3>5, <3>6, <3>7
    <3>9. /\ account'["pending"] = Worth(PendingOnes')
          /\ account'["frozen"] = AmountsOf(InStatus({"submitted", "approved"}))'
          /\ account'["withdrawn"] = AmountsOf(InStatus({"paid"}))'
      BY <1>1, <3>2, <3>6 DEF Owed, AmountsOf, InStatus
    <3>10. Owed'
      BY <3>8, <3>9 DEF Owed
    <3> QED BY <1>3, <2>3, <3>10
  <2> QED BY <2>1, <2>6, <2>7 DEF CoveredBy
<1> QED BY <1>4, <1>5

LEMMA SettleStep ==
  ASSUME AccountInv, NEW S \in SUBSET Charges, SettleDue(S), FinanceTypeOK', LedgerTellsStatus'
  PROVE  AccountInv'
<1> USE DEF AccountInv
<1>1. /\ S \subseteq PendingOnes /\ UNCHANGED withdrawal
      /\ settlement' = [c \in Charges |-> IF c \in S THEN "settled" ELSE settlement[c]]
  BY DEF SettleDue, PendingOnes
<1>2. IsFiniteSet(S)
  BY <1>1, AccruedOnes, FS_Subset
<1>3. Balanced(account', ledger') /\ LegsTyped(ledger')
  BY <1>2, AccruedOnes, SettleBalances
<1>4. PendingOnes' = PendingOnes \ S /\ Accrued' = Accrued
  BY <1>1 DEF PendingOnes, Accrued
<1>5. /\ Worth(PendingOnes) = Worth(S) + Worth(PendingOnes')
      /\ Worth(S) \in Nat /\ Worth(PendingOnes') \in Nat
  BY <1>1, <1>4, AccruedOnes, WorthAdds
<1>6. \A c, t, b : Legged(ledger', c, t, b) <=>
        \/ Legged(ledger, c, t, b)
        \/ c \in S /\ t = "settlement_available" /\ b \in {"pending", "available"}
  <2> SUFFICES ASSUME NEW c, NEW t, NEW b
               PROVE  Legged(ledger', c, t, b) <=>
                        \/ Legged(ledger, c, t, b)
                        \/ c \in S /\ t = "settlement_available" /\ b \in {"pending", "available"}
    OBVIOUS
  <2>1. Posted(c, t)' = IF c \in S /\ t = "settlement_available"
                           THEN Posted(c, t) \cup {"pending", "available"} ELSE Posted(c, t)
    BY SettlePosted
  <2>2. Legged(ledger', c, t, b) <=> b \in Posted(c, t)'
    BY DEF Legged, Posted
  <2>3. Legged(ledger, c, t, b) <=> b \in Posted(c, t)
    BY DEF Legged, Posted
  <2> QED BY <2>1, <2>2, <2>3
<1>7. NetOf(ledger') = NetOf(ledger) \cup S /\ NetOf(ledger) \cap S = {}
  <2>1. \A c \in S : /\ ~Legged(ledger, c, "settlement_available", "available")
                     /\ ~Legged(ledger, c, "refund", "available")
    <3>1. "available" \in Buckets
      BY DEF Buckets
    <3>2. \A c \in S : c \in Charges /\ settlement[c] = "pending"
      BY <1>1 DEF PendingOnes
    <3> QED BY <1>1, <3>1, <3>2, AccruedOnes
  <2> QED BY <1>6, <2>1 DEF NetOf
<1>8. Worth(NetOf(ledger')) = Worth(NetOf(ledger)) + Worth(S)
  <2> DEFINE all == NetOf(ledger) \cup S
  <2>1. /\ IsFiniteSet(all) /\ all \in SUBSET Charges /\ NetOf(ledger) \in SUBSET all
        /\ all \ NetOf(ledger) = S
    BY <1>2, <1>7, AccruedOnes, FS_Union
  <2> HIDE DEF all
  <2>2. Worth(all) = Worth(NetOf(ledger)) + Worth(all \ NetOf(ledger))
    BY <2>1, WorthAdds
  <2>3. Worth(all) = Worth(NetOf(ledger)) + Worth(S)
    BY <2>1, <2>2, Zenon
  <2> QED BY <1>7, <2>3 DEF all
<1>9. /\ account'["pending"] = account["pending"] - Worth(S)
      /\ account'["available"] = account["available"] + Worth(S)
      /\ account'["frozen"] = account["frozen"] /\ account'["withdrawn"] = account["withdrawn"]
  BY <1>5, AccruedOnes DEF SettleDue, Buckets
<1>10. \A d \in {"available", "frozen", "withdrawn"} : account[d] \in Int
  BY AccruedOnes
<1>11. AccountIsSmall'
  BY <1>1, <1>4 DEF AccountIsSmall, InStatus
<1>12. Worth(NetOf(ledger)) \in Int
  <2> DEFINE all == NetOf(ledger)
  <2>1. IsFiniteSet(all) /\ all \in SUBSET Charges /\ all \in SUBSET all
    BY AccruedOnes
  <2> HIDE DEF all
  <2>2. Worth(all) \in Nat
    BY <2>1, WorthAdds
  <2> QED BY <2>2 DEF all
<1>13. Owed'
  BY <1>1, <1>5, <1>8, <1>9, <1>10, <1>12 DEF Owed, AmountsOf, InStatus
<1> QED BY <1>3, <1>11, <1>13

\* The withdrawals under way, and those paid.
Under == InStatus({"submitted", "approved"})
Paid  == InStatus({"paid"})

LEMMA WithdrawnOnes ==
  ASSUME AccountInv
  PROVE  /\ IsFiniteSet(Under) /\ IsFiniteSet(Paid)
         /\ \A w \in Withdrawals : withdrawal[w].amount \in Int
         /\ account["frozen"] = AmountsIn(withdrawal, Under)
         /\ account["withdrawn"] = AmountsIn(withdrawal, Paid)
<1> USE DEF AccountInv
<1>1. /\ Under \subseteq InStatus(WithdrawalStatus \ {"none"})
      /\ Paid \subseteq InStatus(WithdrawalStatus \ {"none"})
  BY DEF Under, Paid, InStatus, WithdrawalStatus
<1>2. IsFiniteSet(Under) /\ IsFiniteSet(Paid)
  BY <1>1, FS_Subset DEF AccountIsSmall
<1>3. \A w \in Withdrawals : withdrawal[w].amount \in Int
  BY DEF FinanceTypeOK
<1> QED BY <1>2, <1>3 DEF Owed, AmountsIn, AmountsOf, Under, Paid

\* What a move does to the account.
LEMMA Moved ==
  ASSUME AccountInv, NEW ref, NEW type, type \notin {"settlement_available", "refund"},
         NEW amount \in Int, NEW from \in Buckets, NEW to \in Buckets, from # to,
         Move(ref, type, amount, from, to)
  PROVE  /\ Balanced(account', ledger') /\ LegsTyped(ledger')
         /\ NetOf(ledger') = NetOf(ledger)
         /\ account'[from] = account[from] - amount
         /\ account'[to] = account[to] + amount
         /\ \A b \in Buckets \ {from, to} : account'[b] = account[b]
<1> USE DEF AccountInv
<1>1. account \in [Buckets -> Int]
  BY AccruedOnes
<1>2. Balanced(account', ledger') /\ LegsTyped(ledger')
  BY <1>1, MoveBalances
<1>3. NetOf(ledger') = NetOf(ledger)
  <2> DEFINE N == {Entry(ref, type, from, -amount), Entry(ref, type, to, amount)}
  <2>1. ledger' = ledger \cup N /\ \A l \in N : l.type \notin {"settlement_available", "refund"}
    BY DEF Move, Entry
  <2> HIDE DEF N
  <2> QED BY <2>1, NetKept
<1>4. account' = [account EXCEPT ![from] = @ - amount, ![to] = @ + amount]
  BY DEF Move
<1> QED BY <1>1, <1>2, <1>3, <1>4

\* A withdrawal moves money between the buckets the merchant is owed.
LEMMA WithdrawnAccount ==
  ASSUME AccountInv, FinanceTypeOK', LedgerTellsStatus', UNCHANGED settlement,
         Balanced(account', ledger'), LegsTyped(ledger'), NetOf(ledger') = NetOf(ledger),
         IsFiniteSet(InStatus(WithdrawalStatus \ {"none"})'),
         account'["pending"] = account["pending"],
         account'["frozen"] = AmountsIn(withdrawal', Under'),
         account'["withdrawn"] = AmountsIn(withdrawal', Paid'),
         account'["available"] + account'["frozen"] + account'["withdrawn"]
           = account["available"] + account["frozen"] + account["withdrawn"]
  PROVE  AccountInv'
<1>1. PendingOnes' = PendingOnes /\ Accrued' = Accrued
  BY DEF PendingOnes, Accrued
<1>2. AccountIsSmall'
  BY <1>1 DEF AccountInv, AccountIsSmall
<1>3. Owed'
  BY <1>1 DEF AccountInv, Owed, AmountsIn, AmountsOf, Under, Paid
<1> QED BY <1>2, <1>3 DEF AccountInv

LEMMA SubmitStep ==
  ASSUME AccountInv, NEW w \in Withdrawals, NEW amount \in Requested,
         SubmitWithdrawal(w, amount), FinanceTypeOK', LedgerTellsStatus'
  PROVE  AccountInv'
<1>1. /\ UNCHANGED settlement /\ withdrawal[w].status = "none"
      /\ withdrawal' = [withdrawal EXCEPT
           ![w] = [status |-> "submitted", version |-> 0, amount |-> amount]]
      /\ Move(w, "freeze", amount, "available", "frozen")
      /\ amount \in Int /\ "available" \in Buckets /\ "frozen" \in Buckets
      /\ "pending" \in Buckets /\ "withdrawn" \in Buckets
  BY RequestedAssumption DEF SubmitWithdrawal, Buckets
<1>2. /\ withdrawal'[w].status = "submitted" /\ withdrawal'[w].amount = amount
      /\ \A v \in Withdrawals \ {w} : withdrawal'[v] = withdrawal[v]
  BY <1>1 DEF AccountInv, FinanceTypeOK
<1>3. /\ Balanced(account', ledger') /\ LegsTyped(ledger') /\ NetOf(ledger') = NetOf(ledger)
      /\ account'["available"] = account["available"] - amount
      /\ account'["frozen"] = account["frozen"] + amount
      /\ account'["pending"] = account["pending"] /\ account'["withdrawn"] = account["withdrawn"]
  BY <1>1, Moved
<1>4. /\ Under' = Under \cup {w} /\ w \notin Under
      /\ Paid' = Paid /\ w \notin Paid
      /\ InStatus(WithdrawalStatus \ {"none"})' = InStatus(WithdrawalStatus \ {"none"}) \cup {w}
  BY <1>1, <1>2 DEF Under, Paid, InStatus, WithdrawalStatus
<1>5. AmountsIn(withdrawal', Under') = AmountsIn(withdrawal, Under) + amount
  <2>1. /\ \A v \in Under : withdrawal'[v].amount = withdrawal[v].amount
        /\ \A v \in Under \cup {w} : withdrawal'[v].amount \in Int
    BY <1>1, <1>2, <1>4, WithdrawnOnes DEF Under, InStatus
  <2>2. AmountsIn(withdrawal', Under \cup {w}) = AmountsIn(withdrawal', Under) + withdrawal'[w].amount
    BY <1>4, <2>1, WithdrawnOnes, AmountsOfMore
  <2>3. AmountsIn(withdrawal', Under) = AmountsIn(withdrawal, Under)
    BY <2>1, WithdrawnOnes, AmountsOfSame
  <2> QED BY <1>2, <1>4, <2>2, <2>3
<1>6. AmountsIn(withdrawal', Paid') = AmountsIn(withdrawal, Paid)
  <2>1. \A v \in Paid : withdrawal'[v].amount = withdrawal[v].amount
    BY <1>2, <1>4 DEF Paid, InStatus
  <2> QED BY <1>4, <2>1, WithdrawnOnes, AmountsOfSame
<1>7. IsFiniteSet(InStatus(WithdrawalStatus \ {"none"})')
  BY <1>4, FS_AddElement DEF AccountInv, AccountIsSmall
<1>8. account["available"] \in Int /\ account["frozen"] \in Int /\ account["withdrawn"] \in Int
  BY AccruedOnes
<1>9. account'["frozen"] = AmountsIn(withdrawal', Under')
      /\ account'["withdrawn"] = AmountsIn(withdrawal', Paid')
  BY <1>3, <1>5, <1>6, WithdrawnOnes
<1>10. account'["available"] + account'["frozen"] + account'["withdrawn"]
         = account["available"] + account["frozen"] + account["withdrawn"]
  BY <1>1, <1>3, <1>8
<1> QED BY <1>1, <1>3, <1>7, <1>9, <1>10, WithdrawnAccount

\* A decision changes one status and no amount.
LEMMA OneDecided ==
  ASSUME AccountInv, NEW w \in Withdrawals, NEW from, NEW to, NEW version,
         Decide(w, from, version, to)
  PROVE  /\ withdrawal[w].status = from /\ withdrawal'[w].status = to
         /\ \A v \in Withdrawals : withdrawal'[v].amount = withdrawal[v].amount
         /\ \A v \in Withdrawals \ {w} : withdrawal'[v].status = withdrawal[v].status
         /\ \A W \in SUBSET Withdrawals :
              IsFiniteSet(W) => AmountsIn(withdrawal', W) = AmountsIn(withdrawal, W)
<1>1. /\ withdrawal[w].status = from
      /\ withdrawal' = [withdrawal EXCEPT ![w] = [withdrawal[w] EXCEPT !.status = to, !.version = @ + 1]]
  BY DEF Decide
<1>2. \A v \in Withdrawals : withdrawal[v] \in [status: WithdrawalStatus, version: Nat, amount: Nat]
  BY DEF AccountInv, FinanceTypeOK
<1>3. /\ withdrawal'[w].status = to /\ withdrawal'[w].amount = withdrawal[w].amount
      /\ \A v \in Withdrawals \ {w} : withdrawal'[v] = withdrawal[v]
  BY <1>1, <1>2 DEF AccountInv, FinanceTypeOK
<1>4. \A v \in Withdrawals : withdrawal'[v].amount = withdrawal[v].amount
  BY <1>3
<1>5. ASSUME NEW W \in SUBSET Withdrawals, IsFiniteSet(W)
      PROVE  AmountsIn(withdrawal', W) = AmountsIn(withdrawal, W)
  BY <1>4, <1>5, AmountsOfSame
<1> QED BY <1>1, <1>3, <1>4, <1>5

\* Cancelled or rejected: the money comes back.
LEMMA ReturnStep ==
  ASSUME AccountInv, NEW w \in Withdrawals, NEW version, NEW to \in {"cancelled", "rejected"},
         Decide(w, "submitted", version, to), Unfreeze(w), UNCHANGED settlement,
         FinanceTypeOK', LedgerTellsStatus'
  PROVE  AccountInv'
<1>0. PICK amount \in Int : amount = withdrawal[w].amount
  BY WithdrawnOnes
<1>1. /\ Move(w, "unfreeze", amount, "frozen", "available")
      /\ amount \in Int /\ "available" \in Buckets /\ "frozen" \in Buckets
      /\ "pending" \in Buckets /\ "withdrawn" \in Buckets
  BY <1>0 DEF Unfreeze, Buckets
<1>2. /\ withdrawal[w].status = "submitted" /\ withdrawal'[w].status = to
      /\ \A v \in Withdrawals \ {w} : withdrawal'[v].status = withdrawal[v].status
      /\ \A W \in SUBSET Withdrawals :
           IsFiniteSet(W) => AmountsIn(withdrawal', W) = AmountsIn(withdrawal, W)
  BY OneDecided
<1>3. /\ Under' = Under \ {w} /\ w \in Under /\ Paid' = Paid
      /\ InStatus(WithdrawalStatus \ {"none"})' = InStatus(WithdrawalStatus \ {"none"})
      /\ Under \ {w} \in SUBSET Withdrawals /\ Paid \in SUBSET Withdrawals
  BY <1>2 DEF Under, Paid, InStatus, WithdrawalStatus
<1>4. /\ Balanced(account', ledger') /\ LegsTyped(ledger') /\ NetOf(ledger') = NetOf(ledger)
      /\ account'["frozen"] = account["frozen"] - amount
      /\ account'["available"] = account["available"] + amount
      /\ account'["pending"] = account["pending"] /\ account'["withdrawn"] = account["withdrawn"]
  <2>0. /\ Move(w, "unfreeze", amount, "frozen", "available") /\ amount \in Int
        /\ "frozen" \in Buckets /\ "available" \in Buckets
    BY <1>1
  <2>1. /\ Balanced(account', ledger') /\ LegsTyped(ledger')
        /\ NetOf(ledger') = NetOf(ledger)
        /\ account'["frozen"] = account["frozen"] - amount
        /\ account'["available"] = account["available"] + amount
        /\ \A b \in Buckets \ {"frozen", "available"} : account'[b] = account[b]
    BY <2>0, Moved
  <2>2. {"pending", "withdrawn"} \subseteq Buckets \ {"frozen", "available"}
    BY <1>1
  <2> QED BY <2>1, <2>2
<1>5. AmountsIn(withdrawal, Under) = AmountsIn(withdrawal, Under \ {w}) + amount
      /\ AmountsIn(withdrawal, Under \ {w}) \in Int /\ IsFiniteSet(Under \ {w})
  <2>1. IsFiniteSet(Under \ {w}) /\ \A v \in Under : withdrawal[v].amount \in Int
    BY WithdrawnOnes, FS_Subset DEF Under, InStatus
  <2> QED BY <1>3, <2>1, WithdrawnOnes, AmountsOfLess, AmountsAreIntegers, <1>0
<1>6. AmountsIn(withdrawal', Under') = AmountsIn(withdrawal, Under \ {w})
      /\ AmountsIn(withdrawal', Paid') = AmountsIn(withdrawal, Paid)
  BY <1>2, <1>3, <1>5, WithdrawnOnes
<1>7. account["available"] \in Int /\ account["frozen"] \in Int /\ account["withdrawn"] \in Int
  BY AccruedOnes
<1>8. account'["frozen"] = AmountsIn(withdrawal', Under')
      /\ account'["withdrawn"] = AmountsIn(withdrawal', Paid')
  BY <1>1, <1>4, <1>5, <1>6, WithdrawnOnes
<1>9. account'["available"] + account'["frozen"] + account'["withdrawn"]
        = account["available"] + account["frozen"] + account["withdrawn"]
  BY <1>1, <1>4, <1>7
<1>10. IsFiniteSet(InStatus(WithdrawalStatus \ {"none"})')
  BY <1>3 DEF AccountInv, AccountIsSmall
<1> QED BY <1>4, <1>8, <1>9, <1>10, WithdrawnAccount

\* Approved: nothing moves.
LEMMA ApproveStep ==
  ASSUME AccountInv, NEW w \in Withdrawals, NEW version, ApproveWithdrawal(w, version),
         FinanceTypeOK', LedgerTellsStatus'
  PROVE  AccountInv'
<1>1. /\ Decide(w, "submitted", version, "approved")
      /\ UNCHANGED <<tenantOpen, settlement, due, account, ledger>>
  BY DEF ApproveWithdrawal
<1>2. /\ withdrawal[w].status = "submitted" /\ withdrawal'[w].status = "approved"
      /\ \A v \in Withdrawals \ {w} : withdrawal'[v].status = withdrawal[v].status
      /\ \A W \in SUBSET Withdrawals :
           IsFiniteSet(W) => AmountsIn(withdrawal', W) = AmountsIn(withdrawal, W)
  BY <1>1, OneDecided
<1>3. /\ Under' = Under /\ Paid' = Paid
      /\ InStatus(WithdrawalStatus \ {"none"})' = InStatus(WithdrawalStatus \ {"none"})
      /\ Under \in SUBSET Withdrawals /\ Paid \in SUBSET Withdrawals
  BY <1>2 DEF Under, Paid, InStatus, WithdrawalStatus
<1>4. account'["frozen"] = AmountsIn(withdrawal', Under')
      /\ account'["withdrawn"] = AmountsIn(withdrawal', Paid')
  BY <1>1, <1>2, <1>3, WithdrawnOnes
<1>5. IsFiniteSet(InStatus(WithdrawalStatus \ {"none"})')
  BY <1>3 DEF AccountInv, AccountIsSmall
<1>6. Balanced(account', ledger') /\ LegsTyped(ledger') /\ NetOf(ledger') = NetOf(ledger)
  BY <1>1 DEF AccountInv
<1> QED BY <1>1, <1>4, <1>5, <1>6, WithdrawnAccount

\* Paid: the money leaves.
LEMMA ConfirmStep ==
  ASSUME AccountInv, NEW w \in Withdrawals, NEW version, ConfirmTransfer(w, version),
         FinanceTypeOK', LedgerTellsStatus'
  PROVE  AccountInv'
<1>0. PICK amount \in Int : amount = withdrawal[w].amount
  BY WithdrawnOnes
<1>1. /\ Decide(w, "approved", version, "paid") /\ UNCHANGED settlement
      /\ Move(w, "withdrawal", amount, "frozen", "withdrawn")
      /\ amount \in Int /\ "available" \in Buckets /\ "frozen" \in Buckets
      /\ "pending" \in Buckets /\ "withdrawn" \in Buckets
  BY <1>0 DEF ConfirmTransfer, Buckets
<1>2. /\ withdrawal[w].status = "approved" /\ withdrawal'[w].status = "paid"
      /\ \A v \in Withdrawals \ {w} : withdrawal'[v].status = withdrawal[v].status
      /\ \A W \in SUBSET Withdrawals :
           IsFiniteSet(W) => AmountsIn(withdrawal', W) = AmountsIn(withdrawal, W)
  BY <1>1, OneDecided
<1>3. /\ Under' = Under \ {w} /\ w \in Under /\ Paid' = Paid \cup {w} /\ w \notin Paid
      /\ InStatus(WithdrawalStatus \ {"none"})' = InStatus(WithdrawalStatus \ {"none"})
      /\ Under \ {w} \in SUBSET Withdrawals /\ Paid \cup {w} \in SUBSET Withdrawals
  BY <1>2 DEF Under, Paid, InStatus, WithdrawalStatus
<1>4. /\ Balanced(account', ledger') /\ LegsTyped(ledger') /\ NetOf(ledger') = NetOf(ledger)
      /\ account'["frozen"] = account["frozen"] - amount
      /\ account'["withdrawn"] = account["withdrawn"] + amount
      /\ account'["pending"] = account["pending"] /\ account'["available"] = account["available"]
  <2>0. /\ Move(w, "withdrawal", amount, "frozen", "withdrawn") /\ amount \in Int
        /\ "frozen" \in Buckets /\ "withdrawn" \in Buckets
    BY <1>1
  <2>1. /\ Balanced(account', ledger') /\ LegsTyped(ledger')
        /\ NetOf(ledger') = NetOf(ledger)
        /\ account'["frozen"] = account["frozen"] - amount
        /\ account'["withdrawn"] = account["withdrawn"] + amount
        /\ \A b \in Buckets \ {"frozen", "withdrawn"} : account'[b] = account[b]
    BY <2>0, Moved
  <2>2. {"pending", "available"} \subseteq Buckets \ {"frozen", "withdrawn"}
    BY <1>1
  <2> QED BY <2>1, <2>2
<1>5. AmountsIn(withdrawal, Under) = AmountsIn(withdrawal, Under \ {w}) + amount
      /\ AmountsIn(withdrawal, Under \ {w}) \in Int /\ IsFiniteSet(Under \ {w})
  <2>1. IsFiniteSet(Under \ {w}) /\ \A v \in Under : withdrawal[v].amount \in Int
    BY WithdrawnOnes, FS_Subset DEF Under, InStatus
  <2> QED BY <1>3, <2>1, WithdrawnOnes, AmountsOfLess, AmountsAreIntegers, <1>0
<1>6. AmountsIn(withdrawal, Paid \cup {w}) = AmountsIn(withdrawal, Paid) + amount
      /\ IsFiniteSet(Paid \cup {w})
  <2>1. \A v \in Paid \cup {w} : withdrawal[v].amount \in Int
    BY WithdrawnOnes DEF Paid, InStatus
  <2>2. IsFiniteSet(Paid) /\ IsFiniteSet(Paid \cup {w})
    BY WithdrawnOnes, FS_AddElement
  <2> QED BY <1>0, <1>3, <2>1, <2>2, AmountsOfMore
<1>7. AmountsIn(withdrawal', Under') = AmountsIn(withdrawal, Under \ {w})
      /\ AmountsIn(withdrawal', Paid') = AmountsIn(withdrawal, Paid \cup {w})
  BY <1>2, <1>3, <1>5, <1>6
<1>8. account["available"] \in Int /\ account["frozen"] \in Int /\ account["withdrawn"] \in Int
  BY AccruedOnes
<1>9. account'["frozen"] = AmountsIn(withdrawal', Under')
      /\ account'["withdrawn"] = AmountsIn(withdrawal', Paid')
  BY <1>1, <1>4, <1>5, <1>6, <1>7, WithdrawnOnes
<1>10. account'["available"] + account'["frozen"] + account'["withdrawn"]
         = account["available"] + account["frozen"] + account["withdrawn"]
  BY <1>1, <1>4, <1>8
<1>11. IsFiniteSet(InStatus(WithdrawalStatus \ {"none"})')
  BY <1>3 DEF AccountInv, AccountIsSmall
<1> QED BY <1>1, <1>4, <1>9, <1>10, <1>11, WithdrawnAccount

\* A step that touches neither settlements nor money.
LEMMA QuietStep ==
  ASSUME AccountInv, UNCHANGED <<settlement, account, ledger, withdrawal>>, FinanceTypeOK'
  PROVE  AccountInv'
<1>1. LedgerTellsStatus'
  BY DEF AccountInv, LedgerTellsStatus, SettlementTold, WithdrawalTold, Posted
<1>2. AccountIsSmall' /\ Owed'
  BY DEF AccountInv, AccountIsSmall, Accrued, InStatus, Owed, PendingOnes, AmountsOf
<1> QED BY <1>1, <1>2 DEF AccountInv

LEMMA AccountStep == AccountInv /\ [FinanceNext]_financeVars => AccountInv'
<1> SUFFICES ASSUME AccountInv, [FinanceNext]_financeVars PROVE AccountInv'
  OBVIOUS
<1>1. FinanceTypeOK' /\ LedgerTellsStatus'
  BY NextFinanceType, NextTold DEF AccountInv
<1>2. ASSUME NEW w \in Withdrawals, Withdrawing(w) PROVE AccountInv'
  <2>1. ASSUME NEW amount \in Requested, SubmitWithdrawal(w, amount) PROVE AccountInv'
    BY <1>1, <2>1, SubmitStep
  <2>2. ASSUME NEW version \in 0..2, CancelWithdrawal(w, version) PROVE AccountInv'
    BY <1>1, <2>2, ReturnStep DEF CancelWithdrawal
  <2>3. ASSUME NEW version \in 0..2, ApproveWithdrawal(w, version) PROVE AccountInv'
    BY <1>1, <2>3, ApproveStep
  <2>4. ASSUME NEW version \in 0..2, RejectWithdrawal(w, version) PROVE AccountInv'
    BY <1>1, <2>4, ReturnStep DEF RejectWithdrawal
  <2>5. ASSUME NEW version \in 0..2, ConfirmTransfer(w, version) PROVE AccountInv'
    BY <1>1, <2>5, ConfirmStep
  <2> QED BY <1>2, <2>1, <2>2, <2>3, <2>4, <2>5 DEF Withdrawing
<1>3. ASSUME NEW c \in Charges, CreditCharge(c) \/ CloseSettlement(c) PROVE AccountInv'
  BY <1>1, <1>3, CreditStep, CloseStep
<1>4. ASSUME NEW S \in SUBSET Charges, SettleDue(S) PROVE AccountInv'
  BY <1>1, <1>4, SettleStep
<1>5. CASE ChangeTenant \/ \E c \in Charges : BecomeDue(c)
  BY <1>1, <1>5, QuietStep DEF ChangeTenant, BecomeDue
<1>6. CASE UNCHANGED financeVars
  BY <1>1, <1>6, QuietStep DEF financeVars
<1> QED BY <1>2, <1>3, <1>4, <1>5, <1>6 DEF FinanceNext, Managing

LEMMA AccountInvariant == FinanceSpec => []AccountInv
BY AccountInitially, AccountStep, PTL DEF FinanceSpec

\* Each bucket of the account is the sum of its ledger entries and is what the
\* merchant is owed or was paid: settlements pending, withdrawals under way,
\* withdrawals paid, and what was settled less the refunds debited after it
\* (FinanceService, apply_merchant_balance_ledger_entry).  It holds however many
\* charges and withdrawals there are, and whatever their amounts.
THEOREM AccountExplained == FinanceSpec => []AccountIsExplained
<1>1. AccountInv => AccountIsExplained
  BY ExplainedByParts DEF AccountInv
<1> QED BY <1>1, AccountInvariant, PTL

\* The account stays explained while refunds are requested, resumed and reported.
THEOREM AccountExplainedWithRefunds == Spec => []AccountIsExplained
BY ImplementsFinance, AccountExplained, PTL

\* Only the refund of a pending settlement makes it refunded, and it is covered.
LEMMA PendingRefundStep ==
  AccountInv /\ [FinanceNext]_financeVars =>
    [\A c \in Charges :
       settlement[c] = "pending" /\ settlement'[c] = "refunded"
         => account'["pending"] = account["pending"] - AmountOf[c]]_financeVars
<1> SUFFICES ASSUME AccountInv, [FinanceNext]_financeVars, NEW c \in Charges,
                    settlement[c] = "pending", settlement'[c] = "refunded"
             PROVE  account'["pending"] = account["pending"] - AmountOf[c]
  OBVIOUS
<1>1. CloseSettlement(c)
  <2>1. CASE \E d \in Charges : CreditCharge(d)
    BY <2>1 DEF CreditCharge, AccountInv, FinanceTypeOK
  <2>2. CASE \E d \in Charges : CloseSettlement(d)
    <3>1. PICK d \in Charges : CloseSettlement(d)
      BY <2>2
    <3>2. settlement' = [settlement EXCEPT ![d] = "refunded"]
      BY <3>1 DEF CloseSettlement
    <3>3. d = c
      BY <3>2 DEF AccountInv, FinanceTypeOK
    <3> QED BY <3>1, <3>3
  <2>3. CASE Managing
    BY <2>3, ManagingKeepsRefunded DEF AccountInv
  <2>4. CASE UNCHANGED financeVars
    BY <2>4 DEF financeVars
  <2> QED BY <2>1, <2>2, <2>3, <2>4 DEF FinanceNext
<1>2. Covered(c)
  BY PendingIsCovered
<1>3. PICK b \in Buckets : CoveredBy(c, b) /\ Post(c, "refund", b, -AmountOf[c])
  BY <1>1, <1>2 DEF CloseSettlement
<1>4. b = "pending"
  BY <1>3 DEF CoveredBy
<1>5. account["pending"] \in Int /\ AmountOf[c] \in Int /\ account \in [Buckets -> Int]
  BY AccruedOnes, AmountAssumption
<1> QED BY <1>3, <1>4, <1>5 DEF Post

\* A refund of a pending settlement always finds its money in the pending bucket:
\* chooseMerchantRefundBucket leaves only refunds after settlement to manual
\* reconciliation.
THEOREM PendingRefundsCovered == FinanceSpec => PendingRefundIsCovered
<1>1. AccountInv /\ [FinanceNext]_financeVars =>
        [\A c \in Charges :
           settlement[c] = "pending" /\ settlement'[c] = "refunded"
             => account'["pending"] = account["pending"] - AmountOf[c]]_financeVars
  BY PendingRefundStep
<1> QED BY <1>1, AccountInvariant, PTL DEF FinanceSpec, PendingRefundIsCovered

\* The same while refunds are requested, resumed and reported.
THEOREM PendingRefundsCoveredWithRefunds == Spec => PendingRefundIsCovered
BY ImplementsFinance, PendingRefundsCovered, PTL

-----------------------------------------------------------------------------
(* What the database demands.                                            *)

\* Only charges have entries of refunds, and whatever was submitted was frozen.
LegsAreExact ==
  /\ \A l \in ledger : l.type = "refund" => l.ref \in Charges
  /\ \A w \in Withdrawals : withdrawal[w].status # "none" =>
       /\ Entry(w, "freeze", "available", -withdrawal[w].amount) \in ledger
       /\ Entry(w, "freeze", "frozen", withdrawal[w].amount) \in ledger

RulesInv == AccountInv /\ LegsAreExact

\* The new entries are the legs posted, each once.
LEMMA PostedEntry ==
  ASSUME NEW ref, NEW type, NEW bucket, NEW delta, Post(ref, type, bucket, delta)
  PROVE  /\ ledger' = ledger \cup {Entry(ref, type, bucket, delta)}
         /\ NewEntries = {Entry(ref, type, bucket, delta)}
         /\ EachLegOnce
<1> DEFINE e == Entry(ref, type, bucket, delta)
<1>1. e.ref = ref /\ e.type = type /\ e.bucket = bucket
  BY DEF Entry
<1>2. ledger' = ledger \cup {e}
  BY DEF Post
<1> HIDE DEF e
<1>3. \A k \in ledger : ~(k.ref = ref /\ k.type = type /\ k.bucket = bucket)
  BY DEF Post, Unposted
<1>4. e \notin ledger
  BY <1>1, <1>3
<1>5. NewEntries = {e}
  BY <1>2, <1>4 DEF NewEntries
<1>6. EachLegOnce
  BY <1>1, <1>2, <1>3, <1>5 DEF EachLegOnce
<1> QED BY <1>2, <1>5, <1>6 DEF e

LEMMA MovedEntries ==
  ASSUME NEW ref, NEW type, NEW amount, NEW from, NEW to, from # to,
         Move(ref, type, amount, from, to)
  PROVE  /\ ledger' = ledger \cup {Entry(ref, type, from, -amount), Entry(ref, type, to, amount)}
         /\ NewEntries = {Entry(ref, type, from, -amount), Entry(ref, type, to, amount)}
         /\ EachLegOnce
<1> DEFINE d == Entry(ref, type, from, -amount)
           e == Entry(ref, type, to, amount)
<1>1. /\ d.ref = ref /\ d.type = type /\ d.bucket = from
      /\ e.ref = ref /\ e.type = type /\ e.bucket = to
  BY DEF Entry
<1>2. ledger' = ledger \cup {d, e}
  BY DEF Move
<1> HIDE DEF d, e
<1>3. /\ \A k \in ledger : ~(k.ref = ref /\ k.type = type /\ k.bucket = from)
      /\ \A k \in ledger : ~(k.ref = ref /\ k.type = type /\ k.bucket = to)
  BY DEF Move, Unposted
<1>4. d \notin ledger /\ e \notin ledger
  BY <1>1, <1>3
<1>5. NewEntries = {d, e}
  BY <1>2, <1>4 DEF NewEntries
<1>6. EachLegOnce
  BY <1>1, <1>2, <1>3, <1>5 DEF EachLegOnce
<1> QED BY <1>2, <1>5, <1>6 DEF d, e

LEMMA SettledEntries ==
  ASSUME NEW S \in SUBSET Charges, SettleDue(S)
  PROVE  /\ ledger \subseteq ledger'
         /\ \A l \in NewEntries : /\ l.ref \in S /\ l.type = "settlement_available"
                                  /\ \/ l.bucket = "pending" /\ l.delta = -AmountOf[l.ref]
                                     \/ l.bucket = "available" /\ l.delta = AmountOf[l.ref]
         /\ \A c \in S : /\ Entry(c, "settlement_available", "pending", -AmountOf[c]) \in ledger'
                         /\ Entry(c, "settlement_available", "available", AmountOf[c]) \in ledger'
         /\ EachLegOnce
<1> DEFINE d(c) == Entry(c, "settlement_available", "pending", -AmountOf[c])
           e(c) == Entry(c, "settlement_available", "available", AmountOf[c])
           N == {d(c) : c \in S} \cup {e(c) : c \in S}
<1>1. \A c : /\ d(c).ref = c /\ d(c).type = "settlement_available"
             /\ d(c).bucket = "pending" /\ d(c).delta = -AmountOf[c]
             /\ e(c).ref = c /\ e(c).type = "settlement_available"
             /\ e(c).bucket = "available" /\ e(c).delta = AmountOf[c]
  BY DEF Entry
<1>2. ledger' = ledger \cup N
  BY DEF SettleDue
<1>3. \A l \in N : \E c \in S : l = d(c) \/ l = e(c)
  OBVIOUS
<1>4. \A c \in S : d(c) \in N /\ e(c) \in N
  OBVIOUS
<1>5. \A c \in S, k \in ledger :
        ~(k.ref = c /\ k.type = "settlement_available" /\ k.bucket \in {"pending", "available"})
  BY DEF SettleDue, Unposted
<1> HIDE DEF d, e, N
<1>6. \A l \in N : /\ l.ref \in S /\ l.type = "settlement_available"
                   /\ \/ l.bucket = "pending" /\ l.delta = -AmountOf[l.ref] /\ l = d(l.ref)
                      \/ l.bucket = "available" /\ l.delta = AmountOf[l.ref] /\ l = e(l.ref)
  BY <1>1, <1>3
<1>7. NewEntries \subseteq N
  BY <1>2 DEF NewEntries
<1>8. EachLegOnce
  <2> SUFFICES ASSUME NEW l \in N, NEW k \in ledger \cup N, k # l,
                      k.ref = l.ref, k.type = l.type, k.bucket = l.bucket
               PROVE  FALSE
    BY <1>2, <1>7 DEF EachLegOnce
  <2>1. CASE k \in ledger
    BY <1>5, <1>6, <2>1
  <2>2. CASE k \in N
    BY <1>6, <2>2
  <2> QED BY <2>1, <2>2
<1>9. \A c \in S : d(c) \in ledger' /\ e(c) \in ledger'
  BY <1>2, <1>4
<1>10. \A l \in NewEntries :
         /\ l.ref \in S /\ l.type = "settlement_available"
         /\ \/ l.bucket = "pending" /\ l.delta = -AmountOf[l.ref]
            \/ l.bucket = "available" /\ l.delta = AmountOf[l.ref]
  BY <1>6, <1>7
<1> QED BY <1>2, <1>8, <1>9, <1>10 DEF d, e

\* A bucket moves by its new entries, because it is the sum of all before and after.
LEMMA BucketsFollow ==
  ASSUME AccountInv, AccountInv', ledger \subseteq ledger'
  PROVE  BalancesFollowEntries
<1> SUFFICES ASSUME NEW b \in Buckets
             PROVE  account'[b] = account[b] + MovedInto(b) /\ account'[b] \in 0..MaxBalance
  BY DEF BalancesFollowEntries
<1> DEFINE L == LegsOf(ledger, b)
           N == {l \in NewEntries : l.bucket = b}
<1>1. LegsTyped(ledger) /\ LegsTyped(ledger')
  BY DEF AccountInv
<1>2. /\ LegsOf(ledger', b) = L \cup N /\ L \cap N = {}
      /\ L \subseteq ledger /\ N \subseteq ledger'
  BY DEF LegsOf, NewEntries
<1>3. IsFiniteSet(L) /\ IsFiniteSet(N)
  BY <1>1, <1>2, FS_Subset DEF LegsTyped
<1>4. \A l \in L \cup N : l.delta \in Int
  BY <1>1, <1>2 DEF LegsTyped
<1>5. account[b] = Total(L) /\ account'[b] = Total(L \cup N)
  BY <1>2 DEF AccountInv, Balanced
<1>6. MovedInto(b) = Total(N)
  BY DEF MovedInto
<1> HIDE DEF L, N
<1>7. Total(L \cup N) = Total(L) + Total(N)
  BY <1>2, <1>3, <1>4, TotalAdds
<1>8. account'[b] \in 0..MaxBalance
  BY DEF AccountInv, FinanceTypeOK
<1> QED BY <1>5, <1>6, <1>7, <1>8

\* What FinanceAdmits asks of a step, part by part.
LEMMA AdmitsByParts ==
  ASSUME AccountInv, AccountInv', ledger \subseteq ledger', EachLegOnce,
         \A l \in NewEntries : EntryIsBacked(l),
         \A c \in Charges : settlement'[c] # settlement[c] =>
           SettlementTransition(c) /\ SettlementBalances(c),
         \A w \in Withdrawals : withdrawal'[w] # withdrawal[w] =>
           WithdrawalTransition(w) /\ WithdrawalBalances(w)
  PROVE  FinanceAdmits
BY BucketsFollow DEF FinanceAdmits, LedgerAdmits

LEMMA QuietAdmits ==
  ASSUME AccountInv, AccountInv', UNCHANGED <<settlement, account, ledger, withdrawal>>
  PROVE  FinanceAdmits
<1>1. NewEntries = {} /\ EachLegOnce
  BY DEF NewEntries, EachLegOnce
<1> QED BY <1>1, AdmitsByParts

LEMMA CreditAdmits ==
  ASSUME AccountInv, AccountInv', NEW c \in Charges, CreditCharge(c), order'[c] = "paid"
  PROVE  FinanceAdmits
<1> DEFINE e == Entry(c, "payment_pending", "pending", AmountOf[c])
<1>1. /\ settlement[c] = "none" /\ settlement' = [settlement EXCEPT ![c] = "pending"]
      /\ settlement'[c] = "pending" /\ \A d \in Charges \ {c} : settlement'[d] = settlement[d]
      /\ UNCHANGED withdrawal
  BY DEF CreditCharge, AccountInv, FinanceTypeOK
<1>2. ledger' = ledger \cup {e} /\ NewEntries = {e} /\ EachLegOnce
  BY PostedEntry DEF CreditCharge
<1>3. EntryIsBacked(e)
  BY DEF EntryIsBacked, Entry
<1>4. SettlementTransition(c) /\ SettlementBalances(c)
  BY <1>1 DEF SettlementTransition, SettlementBalances
<1> HIDE DEF e
<1>5. \A l \in NewEntries : EntryIsBacked(l)
  BY <1>2, <1>3
<1>6. \A d \in Charges : settlement'[d] # settlement[d] =>
        SettlementTransition(d) /\ SettlementBalances(d)
  BY <1>1, <1>4
<1> QED BY <1>1, <1>2, <1>5, <1>6, AdmitsByParts

LEMMA CloseAdmits ==
  ASSUME AccountInv, AccountInv', NEW c \in Charges, CloseSettlement(c), HasRefundFact(c),
         Covered(c) => \E f \in Refunds : RefundOf[f] = c /\ refund'[f] = "succeeded"
  PROVE  FinanceAdmits
<1>1. /\ settlement[c] \in {"pending", "settled"}
      /\ settlement'[c] = "refunded" /\ \A d \in Charges \ {c} : settlement'[d] = settlement[d]
      /\ UNCHANGED withdrawal
  BY DEF CloseSettlement, AccountInv, FinanceTypeOK
<1>2. SettlementTransition(c) /\ SettlementBalances(c)
  BY <1>1 DEF SettlementTransition, SettlementBalances
<1>3. \A d \in Charges : settlement'[d] # settlement[d] =>
        SettlementTransition(d) /\ SettlementBalances(d)
  BY <1>1, <1>2
<1>4. CASE Covered(c)
  <2>1. PICK b \in Buckets : Post(c, "refund", b, -AmountOf[c])
    BY <1>4 DEF CloseSettlement
  <2> DEFINE e == Entry(c, "refund", b, -AmountOf[c])
  <2>2. ledger' = ledger \cup {e} /\ NewEntries = {e} /\ EachLegOnce
    BY <2>1, PostedEntry
  <2>3. e.ref = c /\ e.type = "refund" /\ e.delta = -AmountOf[c]
    BY DEF Entry
  <2> HIDE DEF e
  <2>4. DebitIsOfARefund(e)
    BY <1>4, <2>3 DEF DebitIsOfARefund
  <2>5. EntryIsBacked(e)
    BY <2>3, <2>4 DEF EntryIsBacked
  <2>6. \A l \in NewEntries : EntryIsBacked(l)
    BY <2>2, <2>5
  <2> QED BY <1>1, <1>3, <2>2, <2>6, AdmitsByParts
<1>5. CASE ~Covered(c)
  <2>1. UNCHANGED <<account, ledger>>
    BY <1>5 DEF CloseSettlement
  <2>2. NewEntries = {} /\ EachLegOnce
    BY <2>1 DEF NewEntries, EachLegOnce
  <2> QED BY <1>1, <1>3, <2>1, <2>2, AdmitsByParts
<1> QED BY <1>4, <1>5

LEMMA SettleAdmits ==
  ASSUME AccountInv, AccountInv', NEW S \in SUBSET Charges, SettleDue(S)
  PROVE  FinanceAdmits
<1>1. /\ \A c \in S : c \in due /\ settlement[c] = "pending"
      /\ \A c \in Charges : settlement'[c] = IF c \in S THEN "settled" ELSE settlement[c]
      /\ UNCHANGED withdrawal
  BY DEF SettleDue
<1>2. /\ ledger \subseteq ledger' /\ EachLegOnce
      /\ \A l \in NewEntries : /\ l.ref \in S /\ l.type = "settlement_available"
                               /\ \/ l.bucket = "pending" /\ l.delta = -AmountOf[l.ref]
                                  \/ l.bucket = "available" /\ l.delta = AmountOf[l.ref]
      /\ \A c \in S : /\ Entry(c, "settlement_available", "pending", -AmountOf[c]) \in ledger'
                      /\ Entry(c, "settlement_available", "available", AmountOf[c]) \in ledger'
  BY SettledEntries
<1>3. \A l \in NewEntries : EntryIsBacked(l)
  BY <1>1, <1>2 DEF EntryIsBacked, Legs
<1>4. \A c \in S : SettlementTransition(c) /\ SettlementBalances(c)
  BY <1>1, <1>2 DEF SettlementTransition, SettlementBalances, HasLegs, Legs
<1>5. \A c \in Charges : settlement'[c] # settlement[c] =>
        SettlementTransition(c) /\ SettlementBalances(c)
  BY <1>1, <1>4
<1> QED BY <1>1, <1>2, <1>3, <1>5, AdmitsByParts

\* What a decision leaves of the rows of withdrawals.
LEMMA DecidedRows ==
  ASSUME AccountInv, NEW w \in Withdrawals, NEW from, NEW to, NEW version,
         Decide(w, from, version, to)
  PROVE  /\ withdrawal[w].status = from /\ withdrawal'[w].status = to
         /\ withdrawal'[w].amount = withdrawal[w].amount
         /\ \A v \in Withdrawals \ {w} : withdrawal'[v] = withdrawal[v]
<1>1. /\ withdrawal[w].status = from
      /\ withdrawal' = [withdrawal EXCEPT ![w] = [withdrawal[w] EXCEPT !.status = to, !.version = @ + 1]]
  BY DEF Decide
<1>2. withdrawal[w] \in [status: WithdrawalStatus, version: Nat, amount: Nat]
  BY DEF AccountInv, FinanceTypeOK
<1> QED BY <1>1, <1>2 DEF AccountInv, FinanceTypeOK

LEMMA SubmitAdmits ==
  ASSUME AccountInv, AccountInv', NEW w \in Withdrawals, NEW amount \in Requested,
         SubmitWithdrawal(w, amount)
  PROVE  FinanceAdmits
<1> DEFINE d == Entry(w, "freeze", "available", -amount)
           e == Entry(w, "freeze", "frozen", amount)
<1>1. /\ withdrawal[w].status = "none" /\ UNCHANGED settlement
      /\ withdrawal'[w].status = "submitted" /\ withdrawal'[w].amount = amount
      /\ \A v \in Withdrawals \ {w} : withdrawal'[v] = withdrawal[v]
  BY DEF SubmitWithdrawal, AccountInv, FinanceTypeOK
<1>2. ledger' = ledger \cup {d, e} /\ NewEntries = {d, e} /\ EachLegOnce
  BY MovedEntries DEF SubmitWithdrawal
<1>3. /\ d.ref = w /\ d.type = "freeze" /\ d.bucket = "available" /\ d.delta = -amount
      /\ e.ref = w /\ e.type = "freeze" /\ e.bucket = "frozen" /\ e.delta = amount
  BY DEF Entry
<1>4. WithdrawalTransition(w) /\ WithdrawalBalances(w)
  BY <1>1, <1>2 DEF WithdrawalTransition, Explained, WithdrawalBalances, HasLegs, Legs
<1> HIDE DEF d, e
<1>5. EntryIsBacked(d) /\ EntryIsBacked(e)
  BY <1>1, <1>3 DEF EntryIsBacked, Legs
<1>6. \A l \in NewEntries : EntryIsBacked(l)
  BY <1>2, <1>5
<1>7. \A v \in Withdrawals : withdrawal'[v] # withdrawal[v] =>
        WithdrawalTransition(v) /\ WithdrawalBalances(v)
  BY <1>1, <1>4
<1> QED BY <1>1, <1>2, <1>6, <1>7, AdmitsByParts

\* The withdrawal that is decided was frozen.
LEMMA DecidedAdmits ==
  ASSUME RulesInv, AccountInv', UNCHANGED settlement, ledger \subseteq ledger', EachLegOnce,
         \A l \in NewEntries : EntryIsBacked(l),
         NEW w \in Withdrawals, NEW from, NEW to, NEW version, Decide(w, from, version, to),
         from \in {"submitted", "approved"}, Explained(from, to),
         to \in {"rejected", "cancelled"} =>
           HasLegs(w, "unfreeze", Legs("frozen", "available", withdrawal[w].amount)),
         to = "paid" =>
           HasLegs(w, "withdrawal", Legs("frozen", "withdrawn", withdrawal[w].amount))
  PROVE  FinanceAdmits
<1> USE DEF RulesInv
<1>1. /\ withdrawal[w].status = from /\ withdrawal'[w].status = to
      /\ withdrawal'[w].amount = withdrawal[w].amount
      /\ \A v \in Withdrawals \ {w} : withdrawal'[v] = withdrawal[v]
  BY DecidedRows
<1>2. HasLegs(w, "freeze", Legs("available", "frozen", withdrawal[w].amount))
  BY <1>1 DEF LegsAreExact, HasLegs, Legs
<1>3. WithdrawalBalances(w)
  BY <1>1, <1>2 DEF WithdrawalBalances
<1>4. WithdrawalTransition(w)
  BY <1>1 DEF WithdrawalTransition
<1>5. \A v \in Withdrawals : withdrawal'[v] # withdrawal[v] =>
        WithdrawalTransition(v) /\ WithdrawalBalances(v)
  BY <1>1, <1>3, <1>4
<1> QED BY <1>5, AdmitsByParts

LEMMA WithdrawAdmits ==
  ASSUME RulesInv, AccountInv', NEW w \in Withdrawals, Withdrawing(w)
  PROVE  FinanceAdmits
<1> USE DEF RulesInv
<1>0. PICK amount \in Int : amount = withdrawal[w].amount
  BY WithdrawnOnes
<1>1. ASSUME NEW asked \in Requested, SubmitWithdrawal(w, asked) PROVE FinanceAdmits
  BY <1>1, SubmitAdmits
<1>2. ASSUME NEW version \in 0..2, NEW to \in {"cancelled", "rejected"},
             Decide(w, "submitted", version, to), Unfreeze(w), UNCHANGED settlement
      PROVE  FinanceAdmits
  <2> DEFINE d == Entry(w, "unfreeze", "frozen", -amount)
             e == Entry(w, "unfreeze", "available", amount)
  <2>1. Move(w, "unfreeze", amount, "frozen", "available")
    BY <1>0, <1>2 DEF Unfreeze
  <2>2. ledger' = ledger \cup {d, e} /\ NewEntries = {d, e} /\ EachLegOnce
    BY <2>1, MovedEntries
  <2>3. /\ d.ref = w /\ d.type = "unfreeze" /\ d.bucket = "frozen" /\ d.delta = -amount
        /\ e.ref = w /\ e.type = "unfreeze" /\ e.bucket = "available" /\ e.delta = amount
    BY DEF Entry
  <2>4. HasLegs(w, "unfreeze", Legs("frozen", "available", withdrawal[w].amount))
    BY <1>0, <2>2 DEF HasLegs, Legs
  <2> HIDE DEF d, e
  <2>5. withdrawal[w].status = "submitted"
    BY <1>2 DEF Decide
  <2>6. EntryIsBacked(d) /\ EntryIsBacked(e)
    BY <1>0, <2>3, <2>5 DEF EntryIsBacked, Legs
  <2>7. \A l \in NewEntries : EntryIsBacked(l)
    BY <2>2, <2>6
  <2>8. Explained("submitted", to) /\ to # "paid"
    BY DEF Explained
  <2> QED BY <1>2, <2>2, <2>4, <2>7, <2>8, DecidedAdmits
<1>3. ASSUME NEW version \in 0..2, ApproveWithdrawal(w, version) PROVE FinanceAdmits
  <2>1. /\ Decide(w, "submitted", version, "approved")
        /\ UNCHANGED <<tenantOpen, settlement, due, account, ledger>>
    BY <1>3 DEF ApproveWithdrawal
  <2>2. NewEntries = {} /\ EachLegOnce
    BY <2>1 DEF NewEntries, EachLegOnce
  <2>3. Explained("submitted", "approved")
    BY DEF Explained
  <2> QED BY <2>1, <2>2, <2>3, DecidedAdmits
<1>4. ASSUME NEW version \in 0..2, ConfirmTransfer(w, version) PROVE FinanceAdmits
  <2> DEFINE d == Entry(w, "withdrawal", "frozen", -amount)
             e == Entry(w, "withdrawal", "withdrawn", amount)
  <2>1. /\ Move(w, "withdrawal", amount, "frozen", "withdrawn")
        /\ Decide(w, "approved", version, "paid") /\ UNCHANGED settlement
    BY <1>0, <1>4 DEF ConfirmTransfer
  <2>2. ledger' = ledger \cup {d, e} /\ NewEntries = {d, e} /\ EachLegOnce
    BY <2>1, MovedEntries
  <2>3. /\ d.ref = w /\ d.type = "withdrawal" /\ d.bucket = "frozen" /\ d.delta = -amount
        /\ e.ref = w /\ e.type = "withdrawal" /\ e.bucket = "withdrawn" /\ e.delta = amount
    BY DEF Entry
  <2>4. HasLegs(w, "withdrawal", Legs("frozen", "withdrawn", withdrawal[w].amount))
    BY <1>0, <2>2 DEF HasLegs, Legs
  <2> HIDE DEF d, e
  <2>5. withdrawal[w].status = "approved"
    BY <2>1 DEF Decide
  <2>6. EntryIsBacked(d) /\ EntryIsBacked(e)
    BY <1>0, <2>3, <2>5 DEF EntryIsBacked, Legs
  <2>7. \A l \in NewEntries : EntryIsBacked(l)
    BY <2>2, <2>6
  <2>8. Explained("approved", "paid") /\ "paid" \notin {"rejected", "cancelled"}
    BY DEF Explained
  <2> QED BY <2>1, <2>2, <2>4, <2>7, <2>8, DecidedAdmits
<1>5. ASSUME NEW version \in 0..2, CancelWithdrawal(w, version) PROVE FinanceAdmits
  BY <1>2, <1>5 DEF CancelWithdrawal
<1>6. ASSUME NEW version \in 0..2, RejectWithdrawal(w, version) PROVE FinanceAdmits
  BY <1>2, <1>6 DEF RejectWithdrawal
<1> QED BY <1>1, <1>3, <1>4, <1>5, <1>6 DEF Withdrawing

LEMMA ManagingAdmits ==
  ASSUME RulesInv, AccountInv', Managing
  PROVE  FinanceAdmits
<1> USE DEF RulesInv
<1>1. CASE ChangeTenant \/ \E c \in Charges : BecomeDue(c)
  BY <1>1, QuietAdmits DEF ChangeTenant, BecomeDue
<1>2. CASE \E S \in SUBSET Charges : SettleDue(S)
  BY <1>2, SettleAdmits
<1>3. CASE \E w \in Withdrawals : Withdrawing(w)
  BY <1>3, WithdrawAdmits
<1> QED BY <1>1, <1>2, <1>3 DEF Managing

\* The legs stay as they are, and every step adds its own.
LEMMA LegsStayExact == RulesInv /\ [FinanceNext]_financeVars => LegsAreExact'
<1> SUFFICES ASSUME RulesInv, [FinanceNext]_financeVars PROVE LegsAreExact'
  OBVIOUS
<1> USE DEF RulesInv
<1>1. ASSUME NEW N, ledger' = ledger \cup N, \A l \in N : l.type = "refund" => l.ref \in Charges,
             UNCHANGED withdrawal
      PROVE  LegsAreExact'
  BY <1>1 DEF LegsAreExact
<1>2. ASSUME NEW c \in Charges, CreditCharge(c) PROVE LegsAreExact'
  <2> DEFINE N == {Entry(c, "payment_pending", "pending", AmountOf[c])}
  <2>1. ledger' = ledger \cup N /\ UNCHANGED withdrawal
    BY <1>2, PostedEntry DEF CreditCharge
  <2>2. \A l \in N : l.type # "refund"
    BY DEF Entry
  <2> HIDE DEF N
  <2> QED BY <1>1, <2>1, <2>2
<1>3. ASSUME NEW c \in Charges, CloseSettlement(c) PROVE LegsAreExact'
  <2>1. CASE Covered(c)
    <3>1. PICK b \in Buckets : Post(c, "refund", b, -AmountOf[c])
      BY <1>3, <2>1 DEF CloseSettlement
    <3>2. ledger' = ledger \cup {Entry(c, "refund", b, -AmountOf[c])}
      BY <3>1, PostedEntry
    <3>3. \A l \in {Entry(c, "refund", b, -AmountOf[c])} : l.type = "refund" => l.ref \in Charges
      BY DEF Entry
    <3> QED BY <1>1, <1>3, <3>2, <3>3 DEF CloseSettlement
  <2>2. CASE ~Covered(c)
    BY <1>3, <2>2 DEF CloseSettlement, LegsAreExact
  <2> QED BY <2>1, <2>2
<1>4. ASSUME NEW S \in SUBSET Charges, SettleDue(S) PROVE LegsAreExact'
  <2>1. \A l \in NewEntries : l.type = "settlement_available"
    BY <1>4, SettledEntries
  <2>2. ledger \subseteq ledger'
    BY <1>4, SettledEntries
  <2>3. ledger' = ledger \cup NewEntries
    BY <2>2 DEF NewEntries
  <2> QED BY <1>1, <1>4, <2>1, <2>3 DEF SettleDue
<1>5. ASSUME NEW w \in Withdrawals, NEW from, NEW to, NEW version, Decide(w, from, version, to),
             from # "none", ledger \subseteq ledger',
             \A l \in ledger' \ ledger : l.type # "refund"
      PROVE  LegsAreExact'
  <2>1. /\ withdrawal[w].status = from /\ withdrawal'[w].status = to
        /\ withdrawal'[w].amount = withdrawal[w].amount
        /\ \A v \in Withdrawals \ {w} : withdrawal'[v] = withdrawal[v]
    BY <1>5, DecidedRows
  <2>2. \A v \in Withdrawals : /\ withdrawal'[v].amount = withdrawal[v].amount
                               /\ withdrawal'[v].status # "none" => withdrawal[v].status # "none"
    BY <1>5, <2>1
  <2> QED BY <1>5, <2>2 DEF LegsAreExact
<1>6. ASSUME NEW w \in Withdrawals, Withdrawing(w) PROVE LegsAreExact'
  <2>0. PICK amount \in Int : amount = withdrawal[w].amount
    BY WithdrawnOnes
  <2>1. ASSUME NEW asked \in Requested, SubmitWithdrawal(w, asked) PROVE LegsAreExact'
    <3>1. ledger' = ledger \cup {Entry(w, "freeze", "available", -asked), Entry(w, "freeze", "frozen", asked)}
      BY <2>1, MovedEntries DEF SubmitWithdrawal
    <3>2. /\ withdrawal'[w].amount = asked
          /\ \A v \in Withdrawals \ {w} : withdrawal'[v] = withdrawal[v]
      BY <2>1 DEF SubmitWithdrawal, AccountInv, FinanceTypeOK
    <3>3. \A l \in ledger' : l.type = "refund" => l.ref \in Charges
      BY <3>1 DEF Entry, LegsAreExact
    <3>4. /\ Entry(w, "freeze", "available", -withdrawal'[w].amount) \in ledger'
          /\ Entry(w, "freeze", "frozen", withdrawal'[w].amount) \in ledger'
      BY <3>1, <3>2
    <3>5. \A v \in Withdrawals \ {w} : withdrawal'[v].status # "none" =>
            /\ Entry(v, "freeze", "available", -withdrawal'[v].amount) \in ledger'
            /\ Entry(v, "freeze", "frozen", withdrawal'[v].amount) \in ledger'
      BY <3>1, <3>2 DEF LegsAreExact
    <3> QED BY <3>3, <3>4, <3>5 DEF LegsAreExact
  <2>2. ASSUME NEW version \in 0..2, NEW to, Decide(w, "submitted", version, to), Unfreeze(w)
        PROVE  LegsAreExact'
    <3>1. Move(w, "unfreeze", amount, "frozen", "available")
      BY <2>0, <2>2 DEF Unfreeze
    <3>2. ledger' = ledger \cup {Entry(w, "unfreeze", "frozen", -amount), Entry(w, "unfreeze", "available", amount)}
      BY <3>1, MovedEntries
    <3>3. ledger \subseteq ledger' /\ \A l \in ledger' \ ledger : l.type # "refund"
      BY <3>2 DEF Entry
    <3> QED BY <1>5, <2>2, <3>3
  <2>3. ASSUME NEW version \in 0..2, ApproveWithdrawal(w, version) PROVE LegsAreExact'
    BY <1>5, <2>3 DEF ApproveWithdrawal
  <2>4. ASSUME NEW version \in 0..2, ConfirmTransfer(w, version) PROVE LegsAreExact'
    <3>1. Move(w, "withdrawal", amount, "frozen", "withdrawn") /\ Decide(w, "approved", version, "paid")
      BY <2>0, <2>4 DEF ConfirmTransfer
    <3>2. ledger' = ledger \cup {Entry(w, "withdrawal", "frozen", -amount), Entry(w, "withdrawal", "withdrawn", amount)}
      BY <3>1, MovedEntries
    <3>3. ledger \subseteq ledger' /\ \A l \in ledger' \ ledger : l.type # "refund"
      BY <3>2 DEF Entry
    <3> QED BY <1>5, <3>1, <3>3
  <2> QED BY <1>6, <2>1, <2>2, <2>3, <2>4 DEF Withdrawing, CancelWithdrawal, RejectWithdrawal
<1>7. CASE UNCHANGED <<ledger, withdrawal>>
  BY <1>7 DEF LegsAreExact
<1> QED BY <1>2, <1>3, <1>4, <1>6, <1>7
        DEF FinanceNext, Managing, ChangeTenant, BecomeDue, financeVars

\* Everything the rules rest on.
RulesRest == RefundTypeOK /\ RefundConsistent /\ RulesInv

LEMMA RulesInvariant == Spec => []RulesRest
<1>1. FinanceInit => RulesInv
  BY AccountInitially DEF RulesInv, LegsAreExact, FinanceInit
<1>2. RulesInv /\ [FinanceNext]_financeVars => RulesInv'
  BY AccountStep, LegsStayExact DEF RulesInv
<1>3. FinanceSpec => []RulesInv
  BY <1>1, <1>2, PTL DEF FinanceSpec
<1>4. Spec => []RulesInv
  BY <1>3, ImplementsFinance, PTL
<1> QED BY <1>4, RefundTypeCorrect, RefundsConsistent, PTL DEF RulesRest
-----------------------------------------------------------------------------
(* The rows of refunds, orders and points.                               *)

\* A step that changes no row of a refund.
LEMMA RowsKept ==
  ASSUME UNCHANGED <<refund, flagged, bound>>
  PROVE  RefundsAdmit
BY DEF RefundsAdmit, RowChanged

LEMMA GoodsKept ==
  ASSUME RefundTypeOK', UNCHANGED <<order, reserved, released>>
  PROVE  GoodsAdmit
BY DEF GoodsAdmit, PointEntryIsBacked, RefundTypeOK

\* What consistency says of the rows after a step.
LEMMA RowsConsistent ==
  ASSUME RefundTypeOK', RefundConsistent', NEW f \in Refunds
  PROVE  OneActive(f) /\ EffectsOfRefund(f)
<1>1. OneActive(f)
  BY DEF RefundConsistent, OneRefundPerOrder, OneActive
<1>2. RefundOf[f] \in Orders
  BY RefundOfAssumption
<1>3. refund'[f] \in {"succeeded", "manual_reconciliation"} => order'[RefundOf[f]] = "refunded"
  BY <1>2 DEF RefundConsistent, OneRefundPerOrder, Completed
<1>4. EffectsOfRefund(f)
  BY <1>2, <1>3 DEF RefundConsistent, RefundReversesOrder, EffectsOfRefund
<1> QED BY <1>1, <1>4

\* One refund changes: the others are as they were.
LEMMA OneRowChanges ==
  ASSUME RefundTypeOK', RefundConsistent', NEW f \in Refunds,
         \A g \in Refunds \ {f} : /\ refund'[g] = refund[g]
                                  /\ g \in bound' <=> g \in bound
                                  /\ g \in flagged' <=> g \in flagged,
         RowChanged(f) => RefundTransition(f) /\ RowIsWhole(f) /\ ScopeHolds(f)
  PROVE  RefundsAdmit
<1>1. \A g \in Refunds : OneActive(g) /\ EffectsOfRefund(g)
  BY RowsConsistent
<1>2. \A g \in Refunds \ {f} : ~RowChanged(g)
  BY DEF RowChanged
<1> QED BY <1>1, <1>2 DEF RefundsAdmit

Admitted == RefundsAdmit /\ GoodsAdmit /\ FinanceAdmits

LEMMA RestParts ==
  ASSUME RulesRest
  PROVE  AccountInv /\ LegsAreExact /\ RefundTypeOK /\ RefundConsistent /\ RulesInv
BY DEF RulesRest, RulesInv

LEMMA NextRestParts ==
  ASSUME RulesRest'
  PROVE  AccountInv' /\ RefundTypeOK' /\ RefundConsistent' /\ RulesInv'
BY DEF RulesRest, RulesInv

LEMMA UntouchedAdmits ==
  ASSUME RulesRest, RulesRest', UNCHANGED <<order, reserved, released, refund, flagged, bound>>,
         FinanceAdmits
  PROVE  Admitted
BY NextRestParts, RowsKept, GoodsKept DEF Admitted

LEMMA FinanceUntouched ==
  ASSUME RulesRest, RulesRest', UNCHANGED financeVars
  PROVE  FinanceAdmits
BY RestParts, NextRestParts, QuietAdmits DEF financeVars

LEMMA CompleteAdmits ==
  ASSUME RulesRest, RulesRest', NEW f \in Refunds, Complete(f)
  PROVE  Admitted
<1> DEFINE o == RefundOf[f]
           covered == ~(o \in Charges /\ ~Covered(o))
<1>0. /\ AccountInv /\ LegsAreExact /\ RefundTypeOK /\ RefundConsistent
      /\ AccountInv' /\ RefundTypeOK' /\ RefundConsistent'
  BY RestParts, NextRestParts
<1>1. o \in Orders
  BY RefundOfAssumption
<1>2. /\ refund[f] = "processing" /\ order[o] = "paid"
      /\ refund' = [refund EXCEPT ![f] = IF o \in Charges /\ ~Covered(o)
                                           THEN "manual_reconciliation" ELSE "succeeded"]
      /\ order' = [order EXCEPT ![o] = "refunded"]
      /\ flagged' = flagged \ {f} /\ bound' = bound \cup {f}
      /\ UNCHANGED <<reserved, released>>
  BY DEF Complete
<1>3. /\ refund'[f] = IF covered THEN "succeeded" ELSE "manual_reconciliation"
      /\ \A g \in Refunds \ {f} : /\ refund'[g] = refund[g]
                                  /\ g \in bound' <=> g \in bound
                                  /\ g \in flagged' <=> g \in flagged
      /\ order'[o] = "refunded" /\ \A p \in Orders \ {o} : order'[p] = order[p]
  BY <1>0, <1>1, <1>2 DEF RefundTypeOK
<1>4. HasRefundFact(o)
  BY <1>3 DEF HasRefundFact
<1>5. IF o \in Charges THEN CloseSettlement(o) ELSE UNCHANGED financeVars
  BY DEF Complete
<1> HIDE DEF o
<1>6. FinanceAdmits
  <2>1. CASE o \in Charges
    <3>1. Covered(o) => \E g \in Refunds : RefundOf[g] = o /\ refund'[g] = "succeeded"
      BY <1>3 DEF o
    <3> QED BY <1>0, <1>4, <1>5, <2>1, <3>1, CloseAdmits
  <2>2. CASE o \notin Charges
    BY <1>5, <2>2, FinanceUntouched
  <2> QED BY <2>1, <2>2
<1>7. GoodsAdmit
  <2>1. \A p \in Orders : order'[p] # order[p] => OrderTransition(p)
    BY <1>1, <1>2, <1>3, <1>4 DEF OrderTransition
  <2>2. \A g \in Refunds : PointEntryIsBacked(g)
    BY <1>2 DEF PointEntryIsBacked
  <2>3. wallet' >= 0
    BY <1>0 DEF RefundTypeOK
  <2> QED BY <2>1, <2>2, <2>3 DEF GoodsAdmit
<1>8. RefundTransition(f) /\ RowIsWhole(f)
  <2>1. RefundTransition(f)
    BY <1>2, <1>3 DEF RefundTransition
  <2>2. refund'[f] \in {"succeeded", "manual_reconciliation"} /\ f \in bound' /\ f \notin flagged'
    BY <1>2, <1>3
  <2>3. RowIsWhole(f)
    BY <2>2 DEF RowIsWhole
  <2> QED BY <2>1, <2>3
<1>9. ScopeHolds(f)
  <2> DEFINE debited == \E l \in ledger' : l.ref = o /\ l.type = "refund"
  <2>1. CASE o \notin Charges
    <3>1. ~debited /\ refund'[f] = "succeeded"
      BY <1>0, <1>3, <1>5, <2>1 DEF LegsAreExact, financeVars
    <3> QED BY <2>1, <3>1 DEF ScopeHolds, o
  <2>2. CASE o \in Charges /\ Covered(o)
    <3>1. PICK b \in Buckets : Post(o, "refund", b, -AmountOf[o])
      BY <1>5, <2>2 DEF CloseSettlement
    <3>2. Entry(o, "refund", b, -AmountOf[o]) \in ledger'
      BY <3>1 DEF Post
    <3>3. debited /\ refund'[f] = "succeeded"
      BY <1>3, <2>2, <3>2 DEF Entry
    <3> QED BY <2>2, <3>3 DEF ScopeHolds, o
  <2>3. CASE o \in Charges /\ ~Covered(o)
    <3>1. settlement[o] \in {"pending", "settled"} /\ UNCHANGED ledger
      BY <1>5, <2>3 DEF CloseSettlement
    <3>2. \A b \in Buckets : ~Legged(ledger, o, "refund", b)
      BY <1>0, <2>3, <3>1, AccruedOnes
    <3>3. \A l \in ledger : l.bucket \in Buckets
      BY <1>0 DEF AccountInv, FinanceTypeOK
    <3>4. ~debited /\ refund'[f] = "manual_reconciliation"
      BY <1>3, <2>3, <3>1, <3>2, <3>3 DEF Legged
    <3> QED BY <2>3, <3>4 DEF ScopeHolds, o
  <2> QED BY <2>1, <2>2, <2>3
<1>10. RefundsAdmit
  BY <1>0, <1>3, <1>8, <1>9, OneRowChanges
<1> QED BY <1>6, <1>7, <1>10 DEF Admitted

LEMMA FailAdmits ==
  ASSUME RulesRest, RulesRest', NEW f \in Refunds, Fail(f)
  PROVE  Admitted
<1>0. RefundTypeOK /\ RefundTypeOK' /\ RefundConsistent /\ RefundConsistent'
  BY RestParts, NextRestParts
<1>1. /\ refund[f] = "processing" /\ refund'[f] = "failed"
      /\ \A g \in Refunds \ {f} : refund'[g] = refund[g]
      /\ flagged' = flagged \ {f} /\ UNCHANGED <<bound, order, reserved>>
      /\ released' \subseteq released \cup {f}
      /\ UNCHANGED financeVars
  BY <1>0 DEF Fail, RefundTypeOK
<1>2. RefundTransition(f) /\ ScopeHolds(f)
  BY <1>1 DEF RefundTransition, ScopeHolds
<1>3. RowIsWhole(f)
  BY <1>1 DEF RowIsWhole
<1>4. RefundsAdmit
  BY <1>0, <1>1, <1>2, <1>3, OneRowChanges
<1>5. f \in released' => RefundOf[f] \in Topups
  BY <1>0 DEF RefundConsistent, RefundReversesOrder
<1>6. GoodsAdmit
  BY <1>0, <1>1, <1>5 DEF GoodsAdmit, PointEntryIsBacked, RefundTypeOK
<1> QED BY <1>1, <1>4, <1>6, FinanceUntouched DEF Admitted

\* Taking the provider's id, or the mark of an unknown outcome, by itself.
LEMMA MarkAdmits ==
  ASSUME RulesRest, RulesRest', NEW f \in Refunds,
         UNCHANGED <<orderVars, refund, financeVars>>,
         \/ UNCHANGED flagged /\ bound' = bound \cup {f} /\ refund[f] = "processing"
         \/ UNCHANGED bound /\ flagged' = flagged \cup {f} /\ refund[f] = "processing"
         \/ UNCHANGED <<flagged, bound>>
  PROVE  Admitted
<1>0. RefundTypeOK' /\ RefundConsistent'
  BY NextRestParts
<1>1. UNCHANGED <<order, reserved, released>>
  BY DEF orderVars
<1>2. RowChanged(f) => RefundTransition(f) /\ RowIsWhole(f) /\ ScopeHolds(f)
  BY DEF RowChanged, RefundTransition, RowIsWhole, ScopeHolds
<1>3. RefundsAdmit
  BY <1>0, <1>2, OneRowChanges
<1> QED BY <1>0, <1>1, <1>3, GoodsKept, FinanceUntouched DEF Admitted

LEMMA PrepareAdmits ==
  ASSUME RulesRest, RulesRest', NEW r \in Requests, NEW f \in Refunds, PrepareRefund(r, f)
  PROVE  Admitted
<1>0. /\ RefundTypeOK /\ RefundConsistent /\ RefundTypeOK' /\ RefundConsistent'
  BY RestParts, NextRestParts
<1>1. /\ command[f] = "none" /\ order[RefundOf[f]] = "paid"
      /\ refund'[f] = "processing" /\ \A g \in Refunds \ {f} : refund'[g] = refund[g]
      /\ UNCHANGED <<order, released, flagged, bound>> /\ UNCHANGED financeVars
  BY <1>0 DEF PrepareRefund, RefundTypeOK
<1>2. refund[f] = "none"
  BY <1>0, <1>1 DEF RefundConsistent, RefundIsRecorded
<1>3. RefundTransition(f) /\ ScopeHolds(f) /\ RowIsWhole(f)
  BY <1>1, <1>2 DEF RefundTransition, ScopeHolds, RowIsWhole
<1>4. RefundsAdmit
  BY <1>0, <1>1, <1>3, OneRowChanges
<1>5. /\ f \in reserved' => RefundOf[f] \in Topups
      /\ reserved' \subseteq reserved \cup {f}
  BY <1>0 DEF RefundConsistent, RefundReversesOrder, PrepareRefund, Reserve
<1>6. GoodsAdmit
  BY <1>0, <1>1, <1>5 DEF GoodsAdmit, PointEntryIsBacked, RefundTypeOK
<1> QED BY <1>1, <1>4, <1>6, FinanceUntouched DEF Admitted

LEMMA PayAdmits ==
  ASSUME RulesRest, RulesRest', NEW o \in Orders, Pay(o)
  PROVE  Admitted
<1>0. RefundTypeOK /\ RefundTypeOK' /\ AccountInv /\ AccountInv'
  BY RestParts, NextRestParts
<1>1. /\ order[o] = "pending_payment" /\ order'[o] = "paid"
      /\ \A p \in Orders \ {o} : order'[p] = order[p]
      /\ IF o \in Charges THEN CreditCharge(o) ELSE UNCHANGED financeVars
      /\ UNCHANGED <<reserved, released, refund, flagged, bound>>
  BY <1>0 DEF Pay, RefundTypeOK, refundVars
<1>2. FinanceAdmits
  BY <1>0, <1>1, CreditAdmits, FinanceUntouched
<1>3. GoodsAdmit
  BY <1>0, <1>1 DEF GoodsAdmit, OrderTransition, PointEntryIsBacked, RefundTypeOK
<1> QED BY <1>1, <1>2, <1>3, RowsKept DEF Admitted

\* What a request and a webhook do to their refund.
LEMMA OutcomeAdmits ==
  ASSUME RulesRest, RulesRest', NEW f \in Refunds,
         Complete(f) \/ Fail(f) \/ RecordPending(f) \/ MarkAmbiguous(f) \/ LeaveAlone(f)
  PROVE  Admitted
<1>1. CASE RecordPending(f)
  BY <1>1, MarkAdmits DEF RecordPending
<1>2. CASE MarkAmbiguous(f)
  BY <1>2, MarkAdmits DEF MarkAmbiguous
<1>3. CASE LeaveAlone(f)
  BY <1>3, MarkAdmits DEF LeaveAlone, refundVars
<1> QED BY <1>1, <1>2, <1>3, CompleteAdmits, FailAdmits

LEMMA EveryWriteAdmitted ==
  RulesRest /\ RulesRest' /\ Next => Admitted
<1> SUFFICES ASSUME RulesRest, RulesRest', Next PROVE Admitted
  OBVIOUS
<1>0. RefundTypeOK /\ RefundConsistent
  BY RestParts
<1>1. ASSUME NEW o \in Orders, Pay(o) PROVE Admitted
  BY <1>1, PayAdmits
<1>2. ASSUME UNCHANGED <<order, reserved, released, refund, flagged, bound>>, UNCHANGED financeVars
      PROVE  Admitted
  BY <1>2, UntouchedAdmits, FinanceUntouched
<1>3. ASSUME NEW o \in Orders, MatureCommission(o) PROVE Admitted
  BY <1>2, <1>3 DEF MatureCommission, refundVars
<1>4. CASE SpendPoints
  BY <1>2, <1>4 DEF SpendPoints, refundVars
<1>5. CASE ManageFinance
  BY <1>5, RestParts, NextRestParts, ManagingAdmits, UntouchedAdmits
     DEF ManageFinance, orderVars, refundVars
<1>6. ASSUME NEW r \in Requests, NEW f \in Refunds, PrepareRefund(r, f) PROVE Admitted
  BY <1>6, PrepareAdmits
<1>7. ASSUME NEW r \in Requests, NEW f \in Refunds, ResumeRefund(r, f) PROVE Admitted
  BY <1>2, <1>7 DEF ResumeRefund, orderVars, refundVars
<1>8. ASSUME NEW r \in Requests, NEW reply \in Reply, CallProvider(r, reply) PROVE Admitted
  BY <1>2, <1>8 DEF CallProvider, orderVars, refundVars
<1>9. ASSUME NEW r \in Requests, FinalizeRequest(r) PROVE Admitted
  <2>1. request[r].pc # "idle"
    BY <1>9 DEF FinalizeRequest, Reply
  <2>2. PICK f \in Refunds : f = request[r].refund
    BY <1>0, <2>1, RequestHasRefund
  <2>3. Complete(f) \/ Fail(f) \/ RecordPending(f) \/ MarkAmbiguous(f) \/ LeaveAlone(f)
    BY <1>9, <2>2 DEF FinalizeRequest
  <2> QED BY <2>3, OutcomeAdmits
<1>10. ASSUME NEW r \in Requests, AbandonRequest(r) PROVE Admitted
  BY <1>2, <1>10 DEF AbandonRequest, orderVars, refundVars
<1>11. ASSUME NEW f \in Refunds, NEW status, Decided(f, status) PROVE Admitted
  BY <1>2, <1>11 DEF Decided, orderVars, refundVars
<1>12. ASSUME NEW f \in Refunds, Announce(f) PROVE Admitted
  BY <1>2, <1>12 DEF Announce, orderVars, refundVars
<1>13. ASSUME NEW h \in Handlers, NEW e \in Event, ReceivePending(h, e) PROVE Admitted
  <2>1. e.refund \in Refunds
    BY DEF Event
  <2> QED BY <1>13, <2>1, MarkAdmits DEF ReceivePending, Bind
<1>14. ASSUME NEW h \in Handlers, NEW e \in Event, ReceiveOutcome(h, e) PROVE Admitted
  <2>1. e.refund \in Refunds
    BY DEF Event
  <2> QED BY <1>14, <2>1, MarkAdmits DEF ReceiveOutcome, Bind
<1>15. ASSUME NEW h \in Handlers, ApplyOutcome(h) PROVE Admitted
  <2>1. handler[h].pc # "idle"
    BY <1>15 DEF ApplyOutcome
  <2>2. PICK f \in Refunds : f = handler[h].event.refund
    BY <1>0, <2>1, HandlerHasEvent
  <2>3. Complete(f) \/ Fail(f) \/ LeaveAlone(f)
    BY <1>15, <2>2 DEF ApplyOutcome
  <2> QED BY <2>3, OutcomeAdmits
<1>16. ASSUME NEW h \in Handlers, MarkProcessed(h) \/ StopHandler(h) PROVE Admitted
  BY <1>2, <1>16 DEF MarkProcessed, StopHandler, orderVars, refundVars
<1> QED
  BY <1>1, <1>3, <1>4, <1>5, <1>6, <1>7, <1>8, <1>9, <1>10, <1>11, <1>12, <1>13, <1>14, <1>15, <1>16
  DEF Next, Receive

\* Every transaction of payments, refunds, webhooks, settlements and withdrawals writes
\* what the triggers and constraints of the tables demand, whatever ran between the
\* transactions: a refund the provider made is never rolled back for breaking a rule
\* (RefundService and FinanceService against migrations 0013, 0014, 0020 and 0028).
THEOREM EveryWriteIsAdmitted == Spec => WritesAreAdmitted
<1>1. RulesRest /\ RulesRest' /\ [Next]_vars => [RefundsAdmit /\ GoodsAdmit /\ FinanceAdmits]_vars
  BY EveryWriteAdmitted DEF Admitted
<1> QED BY <1>1, RulesInvariant, PTL DEF Spec, WritesAreAdmitted

-----------------------------------------------------------------------------
(* Invitations.                                                          *)

BindingRow(b, c) ==
  /\ b.inviter \in Members \ {c}
  /\ b.step \in {"locked", "checked"}

\* A binding under way is of a customer who is bound to nobody yet; once the trigger
\* has looked, the customer buys nothing and is not its inviter's own.
BindingsStand ==
  \A c \in Members : binding[c] # NoBinding =>
    /\ BindingRow(binding[c], c)
    /\ inviter[c] = Nobody
    /\ binding[c].step = "checked" => ~Bought(c) /\ inviter[binding[c].inviter] # c

\* Commissions belong to orders that were paid, and to those who had invited the buyer.
CommissionsFit ==
  \A o \in Purchases : commissions[o].status # "none" =>
    /\ purchase[o] \in {"paid", "refunded"}
    /\ commissions[o].to \in Members
    /\ commissions[o].to = inviter[BuyerOf[o]]

Commissioned == {o \in Purchases : commissions[o].status # "none"}

EarningsAdd ==
  \A c \in Members :
    earnings[c] = [pending |-> Earned(c, "pending"), available |-> Earned(c, "available")]

\* Each step keeps these.
ReferralInv ==
  /\ ReferralTypeOK
  /\ BindingsStand
  /\ NobodyInvitesBack
  /\ CommissionsFit
  /\ IsFiniteSet(Commissioned)
  /\ EarningsAdd

LEMMA ReferralInitially == ReferralInit => ReferralInv
<1> SUFFICES ASSUME ReferralInit PROVE ReferralInv
  OBVIOUS
<1> USE DEF ReferralInit
<1>1. ReferralTypeOK
  BY NobodyAssumption DEF ReferralTypeOK, NoBinding, NoCommission
<1>2. BindingsStand /\ NobodyInvitesBack /\ CommissionsFit
  BY DEF BindingsStand, NobodyInvitesBack, CommissionsFit, NoCommission
<1>3. Commissioned = {} /\ \A c \in Members : \A b \in {"pending", "available"} : CommissionsOf(c, b) = {}
  BY DEF Commissioned, CommissionsOf, NoCommission
<1>4. IsFiniteSet({}) /\ \A f : SumFunctionOnSet(f, {}) = 0
  BY FS_EmptySet, SumTakesOne
<1>5. \A c \in Members : Earned(c, "pending") = 0 /\ Earned(c, "available") = 0
  BY <1>3, <1>4 DEF Earned
<1>6. EarningsAdd
  BY <1>5 DEF EarningsAdd
<1> QED BY <1>1, <1>2, <1>3, <1>4, <1>6 DEF ReferralInv

\* Whom the trigger lets pass is not invited back.
LEMMA ChainGoesUp ==
  ASSUME ReferralTypeOK, NEW i \in Members, NEW c \in Members, c \notin InviterChain(i)
  PROVE  inviter[i] # c
<1>1. PICK S \in SUBSET Members :
        i \in S /\ (\A y \in S : inviter[y] \in S \cup {Nobody}) /\ c \notin S
  BY DEF InviterChain
<1> QED BY <1>1, NobodyAssumption

\* Steps that make and earn no commission.
LEMMA EarningsKept ==
  ASSUME ReferralInv, UNCHANGED <<commissions, earnings>>
  PROVE  IsFiniteSet(Commissioned)' /\ EarningsAdd'
<1>1. Commissioned' = Commissioned
  BY DEF Commissioned
<1>2. ASSUME NEW c \in Members, NEW b PROVE Earned(c, b)' = Earned(c, b)
  BY DEF Earned, CommissionsOf
<1>3. \A c \in Members : Earned(c, "pending")' = Earned(c, "pending")
                         /\ Earned(c, "available")' = Earned(c, "available")
  BY <1>2
<1> QED BY <1>1, <1>3 DEF ReferralInv, EarningsAdd

LEMMA BindingSteps ==
  ASSUME ReferralInv, NEW c \in Members,
         \/ \E i \in Members : BeginBinding(c, i)
         \/ CheckBinding(c) \/ CommitBinding(c) \/ AbortBinding(c)
  PROVE  ReferralInv' /\ BoundBeforeBuying
<1> USE DEF ReferralInv
<1>0. UNCHANGED <<rate, inviteCode, purchase, commissions, earnings, entries>>
  BY DEF BeginBinding, CheckBinding, CommitBinding, AbortBinding
<1>1. IsFiniteSet(Commissioned)' /\ EarningsAdd'
  BY <1>0, EarningsKept
<1>2. \A d \in Members : Bought(d)' <=> Bought(d)
  BY <1>0 DEF Bought
<1>3. ASSUME NEW i \in Members, BeginBinding(c, i) PROVE ReferralInv' /\ BoundBeforeBuying
  <2>1. /\ i # c /\ inviter[c] = Nobody /\ UNCHANGED inviter /\ boundLater' \subseteq Purchases
        /\ binding' = [binding EXCEPT ![c] = [step |-> "locked", inviter |-> i]]
    BY <1>3 DEF BeginBinding, ReferralTypeOK
  <2>2. ReferralTypeOK'
    BY <1>0, <2>1 DEF ReferralTypeOK
  <2>3. BindingsStand'
    <3> SUFFICES ASSUME NEW d \in Members, binding'[d] # NoBinding
                 PROVE  /\ BindingRow(binding'[d], d) /\ inviter'[d] = Nobody
                        /\ binding'[d].step = "checked" => ~Bought(d)' /\ inviter'[binding'[d].inviter] # d
      BY DEF BindingsStand
    <3>1. CASE d = c
      BY <2>1, <3>1 DEF BindingRow, ReferralTypeOK
    <3>2. CASE d # c
      BY <1>2, <2>1, <3>2 DEF BindingsStand, ReferralTypeOK
    <3> QED BY <3>1, <3>2
  <2>4. NobodyInvitesBack' /\ CommissionsFit' /\ BoundBeforeBuying
    BY <1>0, <2>1 DEF NobodyInvitesBack, CommissionsFit, BoundBeforeBuying
  <2> QED BY <1>1, <2>2, <2>3, <2>4
<1>4. CASE AbortBinding(c)
  <2>1. UNCHANGED <<inviter, boundLater>> /\ binding' = [binding EXCEPT ![c] = NoBinding]
    BY <1>4 DEF AbortBinding
  <2>2. ReferralTypeOK'
    BY <1>0, <2>1 DEF ReferralTypeOK, NoBinding
  <2>3. BindingsStand'
    BY <1>2, <2>1 DEF BindingsStand, ReferralTypeOK
  <2>4. NobodyInvitesBack' /\ CommissionsFit' /\ BoundBeforeBuying
    BY <1>0, <2>1 DEF NobodyInvitesBack, CommissionsFit, BoundBeforeBuying
  <2> QED BY <1>1, <2>2, <2>3, <2>4
<1>5. CASE CheckBinding(c)
  <2> DEFINE i == binding[c].inviter
  <2>1. binding[c] # NoBinding /\ i \in Members \ {c} /\ inviter[c] = Nobody
    BY <1>5 DEF CheckBinding, BindingsStand, BindingRow, NoBinding
  <2>2. UNCHANGED <<inviter, boundLater>>
    BY <1>5 DEF CheckBinding
  <2>3. \/ binding' = [binding EXCEPT ![c] = NoBinding]
        \/ /\ binding' = [binding EXCEPT ![c] = [step |-> "checked", inviter |-> i]]
           /\ ~Bought(c) /\ inviter[i] # c
    <3>1. CASE Bought(c) \/ c \in InviterChain(i)
      BY <1>5, <3>1 DEF CheckBinding
    <3>2. CASE ~(Bought(c) \/ c \in InviterChain(i))
      <4>1. inviter[i] # c
        BY <2>1, <3>2, ChainGoesUp
      <4>2. binding' = [binding EXCEPT ![c].step = "checked"]
        BY <1>5, <3>2 DEF CheckBinding
      <4>3. binding[c] \in [step: {"none", "locked", "checked"}, inviter: Members \cup {Nobody}]
        BY DEF ReferralTypeOK
      <4>4. [binding[c] EXCEPT !.step = "checked"] = [step |-> "checked", inviter |-> i]
        BY <4>3
      <4>5. binding' = [binding EXCEPT ![c] = [binding[c] EXCEPT !.step = "checked"]]
        BY <4>2
      <4> QED BY <3>2, <4>1, <4>4, <4>5
    <3> QED BY <3>1, <3>2
  <2>4. ReferralTypeOK'
    BY <1>0, <2>1, <2>2, <2>3 DEF ReferralTypeOK, NoBinding
  <2>5. BindingsStand'
    <3> SUFFICES ASSUME NEW d \in Members, binding'[d] # NoBinding
                 PROVE  /\ BindingRow(binding'[d], d) /\ inviter'[d] = Nobody
                        /\ binding'[d].step = "checked" => ~Bought(d)' /\ inviter'[binding'[d].inviter] # d
      BY DEF BindingsStand
    <3>1. CASE d = c
      BY <1>2, <2>1, <2>2, <2>3, <3>1 DEF BindingRow, ReferralTypeOK
    <3>2. CASE d # c
      BY <1>2, <2>2, <2>3, <3>2 DEF BindingsStand, ReferralTypeOK
    <3> QED BY <3>1, <3>2
  <2>6. NobodyInvitesBack' /\ CommissionsFit' /\ BoundBeforeBuying
    BY <1>0, <2>2 DEF NobodyInvitesBack, CommissionsFit, BoundBeforeBuying
  <2> QED BY <1>1, <2>4, <2>5, <2>6
<1>6. CASE CommitBinding(c)
  <2> DEFINE i == binding[c].inviter
  <2>1. /\ i \in Members \ {c} /\ inviter[c] = Nobody /\ ~Bought(c) /\ inviter[i] # c
        /\ binding[i] = NoBinding
    BY <1>6 DEF CommitBinding, BindingsStand, BindingRow, NoBinding
  <2>2. /\ binding' = [binding EXCEPT ![c] = NoBinding] /\ UNCHANGED boundLater
        /\ inviter' = [inviter EXCEPT ![c] = i]
    BY <1>6 DEF CommitBinding
  <2> HIDE DEF i
  <2>3. ReferralTypeOK'
    BY <1>0, <2>1, <2>2 DEF ReferralTypeOK, NoBinding
  <2>4. BindingsStand'
    <3> SUFFICES ASSUME NEW d \in Members, binding'[d] # NoBinding
                 PROVE  /\ BindingRow(binding'[d], d) /\ inviter'[d] = Nobody
                        /\ binding'[d].step = "checked" => ~Bought(d)' /\ inviter'[binding'[d].inviter] # d
      BY DEF BindingsStand
    <3>1. d # c /\ d # i /\ binding'[d] = binding[d] /\ binding[d] # NoBinding /\ inviter'[d] = inviter[d]
      BY <2>1, <2>2 DEF ReferralTypeOK
    <3>2. /\ BindingRow(binding[d], d) /\ inviter[d] = Nobody
          /\ binding[d].step = "checked" => ~Bought(d) /\ inviter[binding[d].inviter] # d
      BY <3>1 DEF BindingsStand
    <3>3. binding[d].inviter \in Members
      BY <3>2 DEF BindingRow
    <3>4. inviter'[binding[d].inviter] \in {i, inviter[binding[d].inviter]}
      BY <2>2, <3>3 DEF ReferralTypeOK
    <3> QED BY <1>2, <3>1, <3>2, <3>4
  <2>5. NobodyInvitesBack'
    <3> SUFFICES ASSUME NEW d \in Members, inviter'[d] # Nobody PROVE inviter'[inviter'[d]] # d
      BY DEF NobodyInvitesBack
    <3>1. CASE d = c
      BY <2>1, <2>2, <3>1 DEF ReferralTypeOK
    <3>2. CASE d # c
      <4>1. inviter'[d] = inviter[d] /\ inviter[d] \in Members /\ inviter[inviter[d]] # d
        BY <2>2, <3>2 DEF ReferralTypeOK, NobodyInvitesBack
      <4>2. CASE inviter[d] = c
        BY <2>1, <2>2, <4>1, <4>2 DEF ReferralTypeOK
      <4>3. CASE inviter[d] # c
        BY <2>2, <4>1, <4>3 DEF ReferralTypeOK
      <4> QED BY <4>2, <4>3
    <3> QED BY <3>1, <3>2
  <2>6. CommissionsFit'
    BY <1>0, <2>1, <2>2, NobodyAssumption, PurchaseAssumption DEF CommissionsFit, ReferralTypeOK
  <2>7. BoundBeforeBuying
    BY <2>1, <2>2 DEF BoundBeforeBuying, ReferralTypeOK
  <2> QED BY <1>1, <2>3, <2>4, <2>5, <2>6, <2>7
<1> QED BY <1>3, <1>4, <1>5, <1>6

-----------------------------------------------------------------------------
(* What invitations earn.                                                *)

CommissionRow == [status: {"none", "pending", "available", "reversed"},
                  to: Members \cup {Nobody}, minor: Nat, from: {"none", "pending", "available"}]

InBucket(row, c, b) == IF row.to = c /\ row.status = b THEN row.minor ELSE 0

\* What one row earns, before and after a step that changes it alone.
LEMMA EarnedMoves ==
  ASSUME ReferralInv, NEW o \in Purchases, NEW row \in CommissionRow,
         commissions' = [commissions EXCEPT ![o] = row],
         NEW c \in Members, NEW b \in {"pending", "available"}
  PROVE  /\ Earned(c, b)' = Earned(c, b) - InBucket(commissions[o], c, b) + InBucket(row, c, b)
         /\ Earned(c, b) \in Int
<1> DEFINE f == [p \in Purchases |-> commissions[p].minor]
           g == [p \in Purchases |-> commissions'[p].minor]
           S == CommissionsOf(c, b)
           T == CommissionsOf(c, b)'
<1>1. /\ commissions \in [Purchases -> CommissionRow] /\ commissions' \in [Purchases -> CommissionRow]
      /\ commissions'[o] = row /\ \A p \in Purchases \ {o} : commissions'[p] = commissions[p]
  BY DEF ReferralInv, ReferralTypeOK, CommissionRow
<1>2. S \subseteq Commissioned /\ S \subseteq Purchases /\ T \subseteq Purchases /\ S \ {o} = T \ {o}
  BY <1>1 DEF CommissionsOf, Commissioned
<1>3. IsFiniteSet(S)
  BY <1>2, FS_Subset DEF ReferralInv
<1>4. IsFiniteSet(T)
  <2>1. IsFiniteSet(S \cup {o})
    BY <1>3, FS_AddElement
  <2>2. T \subseteq S \cup {o}
    BY <1>2
  <2> QED BY <2>1, <2>2, FS_Subset
<1>5. /\ \A p \in S : f[p] \in Int
      /\ \A p \in T : g[p] \in Int
      /\ \A p \in S \ {o} : f[p] = g[p]
      /\ f[o] = commissions[o].minor /\ g[o] = row.minor
      /\ commissions[o].minor \in Int /\ row.minor \in Int
  BY <1>1, <1>2 DEF CommissionRow
<1>6. /\ Earned(c, b) = SumFunctionOnSet(f, S)
      /\ Earned(c, b)' = SumFunctionOnSet(g, T)
  BY DEF Earned
<1>7. /\ o \in S <=> (commissions[o].to = c /\ commissions[o].status = b)
      /\ o \in T <=> (row.to = c /\ row.status = b)
  BY <1>1 DEF CommissionsOf
<1> HIDE DEF f, g, S, T
<1>8. /\ SumFunctionOnSet(f, S) = SumFunctionOnSet(f, S \ {o}) + (IF o \in S THEN f[o] ELSE 0)
      /\ SumFunctionOnSet(f, S \ {o}) \in Int /\ IsFiniteSet(S \ {o})
  BY <1>3, <1>5, SumWithout
<1>9. SumFunctionOnSet(g, T) = SumFunctionOnSet(g, T \ {o}) + (IF o \in T THEN g[o] ELSE 0)
  BY <1>4, <1>5, SumWithout
<1>10. SumFunctionOnSet(g, T \ {o}) = SumFunctionOnSet(f, S \ {o})
  <2>1. SumFunctionOnSet(f, S \ {o}) = SumFunctionOnSet(g, S \ {o})
    BY <1>5, <1>8, SumIsOfValues
  <2> QED BY <1>2, <2>1
<1>11. InBucket(commissions[o], c, b) = IF o \in S THEN f[o] ELSE 0
  BY <1>5, <1>7 DEF InBucket
<1>12. InBucket(row, c, b) = IF o \in T THEN g[o] ELSE 0
  BY <1>5, <1>7 DEF InBucket
<1> QED BY <1>5, <1>6, <1>8, <1>9, <1>10, <1>11, <1>12

\* What entries add to a bucket.
LEMMA EffectOfOne ==
  ASSUME NEW minor \in Nat, NEW type, NEW b
  PROVE  Effect(minor, {type}, b) = IF Bucket(type) # b THEN 0
                                    ELSE IF type \in Debits THEN -minor ELSE minor
<1> DEFINE S == {type}
           f == [t \in S |-> IF Bucket(t) # b THEN 0 ELSE IF t \in Debits THEN -minor ELSE minor]
<1>1. Effect(minor, {type}, b) = SumFunctionOnSet(f, S)
  BY DEF Effect
<1>2. /\ type \in S /\ S \ {type} = {}
      /\ f[type] = IF Bucket(type) # b THEN 0 ELSE IF type \in Debits THEN -minor ELSE minor
      /\ \A t \in S : f[t] \in Int
  OBVIOUS
<1>3. IsFiniteSet(S)
  BY FS_Singleton
<1> HIDE DEF f, S
<1>4. SumFunctionOnSet(f, S) = SumFunctionOnSet(f, S \ {type}) + f[type]
  BY <1>2, <1>3, SumWithout
<1>5. SumFunctionOnSet(f, S \ {type}) = 0
  <2>1. SumFunctionOnSet(f, {}) = 0
    BY FS_EmptySet, SumTakesOne
  <2> QED BY <1>2, <2>1
<1>6. f[type] \in Int
  BY <1>2
<1> QED BY <1>1, <1>2, <1>4, <1>5, <1>6

LEMMA EffectOfMaturing ==
  ASSUME NEW minor \in Nat
  PROVE  LET types == {"settlement_pending_debit", "settlement_available_credit"} IN
           Effect(minor, types, "pending") = -minor /\ Effect(minor, types, "available") = minor
<1> DEFINE S == {"settlement_pending_debit", "settlement_available_credit"}
           f(b) == [t \in S |-> IF Bucket(t) # b THEN 0 ELSE IF t \in Debits THEN -minor ELSE minor]
<1>1. \A b : Effect(minor, S, b) = SumFunctionOnSet(f(b), S)
  BY DEF Effect
<1>2. ASSUME NEW b \in {"pending", "available"}
      PROVE  SumFunctionOnSet(f(b), S)
               = f(b)["settlement_pending_debit"] + f(b)["settlement_available_credit"]
  <2> DEFINE h == f(b)
             T == S \ {"settlement_pending_debit"}
  <2>1. /\ T = {"settlement_available_credit"} /\ T \ {"settlement_available_credit"} = {}
        /\ "settlement_pending_debit" \in S /\ "settlement_available_credit" \in T
        /\ h["settlement_pending_debit"] \in Int /\ h["settlement_available_credit"] \in Int
        /\ \A t \in S : h[t] \in Int
        /\ \A t \in T : h[t] \in Int
    OBVIOUS
  <2>2. IsFiniteSet(S) /\ IsFiniteSet(T)
    <3>0. IsFiniteSet({"settlement_available_credit"})
      BY FS_Singleton
    <3>1. IsFiniteSet(T)
      BY <2>1, <3>0, Zenon
    <3>2. IsFiniteSet(T \cup {"settlement_pending_debit"})
      BY <3>1, FS_AddElement
    <3>3. T \cup {"settlement_pending_debit"} = S
      BY <2>1
    <3> QED BY <3>1, <3>2, <3>3
  <2>5. SumFunctionOnSet(h, {}) = 0
    BY FS_EmptySet, SumTakesOne
  <2> HIDE DEF h, S
  <2>3. SumFunctionOnSet(h, S) = SumFunctionOnSet(h, S \ {"settlement_pending_debit"})
                                   + h["settlement_pending_debit"]
    BY <2>1, <2>2, SumWithout
  <2>6. S \ {"settlement_pending_debit"} = T
    OBVIOUS
  <2> HIDE DEF T
  <2>4. SumFunctionOnSet(h, T) = SumFunctionOnSet(h, T \ {"settlement_available_credit"})
                                   + h["settlement_available_credit"]
    BY <2>1, <2>2, SumWithout
  <2>7. SumFunctionOnSet(h, T \ {"settlement_available_credit"}) = 0
    BY <2>1, <2>5
  <2>8. SumFunctionOnSet(h, S) = h["settlement_pending_debit"] + h["settlement_available_credit"]
    <3>1. SumFunctionOnSet(h, S) = SumFunctionOnSet(h, T) + h["settlement_pending_debit"]
      BY <2>3, <2>6, Zenon
    <3>2. SumFunctionOnSet(h, T) = 0 + h["settlement_available_credit"]
      BY <2>4, <2>7, Zenon
    <3>3. h["settlement_pending_debit"] \in Int /\ h["settlement_available_credit"] \in Int
      BY <2>1
    <3> QED BY <3>1, <3>2, <3>3
  <2> QED BY <2>8 DEF h
<1>3. /\ f("pending")["settlement_pending_debit"] = -minor
      /\ f("pending")["settlement_available_credit"] = 0
      /\ f("available")["settlement_pending_debit"] = 0
      /\ f("available")["settlement_available_credit"] = minor
  BY DEF Bucket, Debits
<1> HIDE DEF f
<1>4. Effect(minor, S, "pending") = -minor /\ Effect(minor, S, "available") = minor
  BY <1>1, <1>2, <1>3
<1> QED BY <1>4

\* One commission and the account that it is entered in change together.
LEMMA CommissionStep ==
  ASSUME ReferralInv, NEW o \in Purchases, NEW row \in CommissionRow, NEW to \in Members,
         commissions' = [commissions EXCEPT ![o] = row],
         NEW types, NEW minor \in Nat, Enter(o, to, minor, types),
         commissions[o].status \in {"pending", "available"} => commissions[o].to = to,
         row.status \in {"pending", "available"} => row.to = to,
         row.status # "none",
         Effect(minor, types, "pending")
           = InBucket(row, to, "pending") - InBucket(commissions[o], to, "pending"),
         Effect(minor, types, "available")
           = InBucket(row, to, "available") - InBucket(commissions[o], to, "available")
  PROVE  /\ commissions' \in [Purchases -> CommissionRow]
         /\ earnings' \in [Members -> [pending: Nat, available: Nat]]
         /\ IsFiniteSet(Commissioned)' /\ EarningsAdd'
<1> DEFINE Shift(c, b) == InBucket(row, c, b) - InBucket(commissions[o], c, b)
           after == [pending   |-> earnings[to].pending + Effect(minor, types, "pending"),
                     available |-> earnings[to].available + Effect(minor, types, "available")]
<1>1. /\ commissions \in [Purchases -> CommissionRow]
      /\ earnings \in [Members -> [pending: Nat, available: Nat]]
  BY DEF ReferralInv, ReferralTypeOK, CommissionRow
<1>2. commissions' \in [Purchases -> CommissionRow]
  BY <1>1
<1>3. IsFiniteSet(Commissioned)'
  <2>1. IsFiniteSet(Commissioned \cup {o})
    BY FS_AddElement DEF ReferralInv
  <2>2. Commissioned' \subseteq Commissioned \cup {o}
    BY <1>1 DEF Commissioned
  <2> QED BY <2>1, <2>2, FS_Subset
<1>4. \A c \in Members : \A b \in {"pending", "available"} :
        /\ InBucket(row, c, b) \in Int /\ InBucket(commissions[o], c, b) \in Int
        /\ c # to => InBucket(row, c, b) = 0 /\ InBucket(commissions[o], c, b) = 0
  BY <1>1 DEF InBucket, CommissionRow
<1>5. earnings' = [earnings EXCEPT ![to] = after] /\ after.pending >= 0 /\ after.available >= 0
  BY DEF Enter
<1>6. after = [pending   |-> earnings[to].pending + Shift(to, "pending"),
               available |-> earnings[to].available + Shift(to, "available")]
  OBVIOUS
<1> HIDE DEF after
<1>7. after \in [pending: Nat, available: Nat]
  BY <1>1, <1>4, <1>5, <1>6
<1>8. earnings' \in [Members -> [pending: Nat, available: Nat]]
  BY <1>1, <1>5, <1>7
<1>9. \A c \in Members : \A b \in {"pending", "available"} :
        Earned(c, b)' = Earned(c, b) + Shift(c, b) /\ Earned(c, b) \in Int
  <2> SUFFICES ASSUME NEW c \in Members, NEW b \in {"pending", "available"}
               PROVE  Earned(c, b)' = Earned(c, b) + Shift(c, b) /\ Earned(c, b) \in Int
    OBVIOUS
  <2>1. /\ Earned(c, b)' = Earned(c, b) - InBucket(commissions[o], c, b) + InBucket(row, c, b)
        /\ Earned(c, b) \in Int
    BY EarnedMoves
  <2> QED BY <1>4, <2>1
<1>10. EarningsAdd'
  <2> SUFFICES ASSUME NEW c \in Members
               PROVE  earnings'[c] = [pending |-> Earned(c, "pending")', available |-> Earned(c, "available")']
    BY DEF EarningsAdd
  <2>1. earnings[c] = [pending |-> Earned(c, "pending"), available |-> Earned(c, "available")]
    BY DEF ReferralInv, EarningsAdd
  <2>2. earnings[c].pending = Earned(c, "pending") /\ earnings[c].available = Earned(c, "available")
    BY <2>1
  <2>3. CASE c = to
    <3>1. earnings'[c] = after
      BY <1>1, <1>5, <2>3
    <3> QED BY <1>6, <1>9, <2>2, <2>3, <3>1
  <2>4. CASE c # to
    <3>1. earnings'[c] = earnings[c]
      BY <1>1, <1>5, <2>4
    <3>2. Shift(c, "pending") = 0 /\ Shift(c, "available") = 0
      BY <1>4, <2>4
    <3> HIDE DEF Shift
    <3> QED BY <1>9, <2>1, <3>1, <3>2
  <2> QED BY <2>3, <2>4
<1> QED BY <1>2, <1>3, <1>8, <1>10

EntryTypes == {"commission_pending", "settlement_pending_debit", "settlement_available_credit",
               "reversal_pending_debit", "reversal_available_debit"}

\* Orders that are paid and refunded; who has bought stays one who has.
LEMMA PurchaseSteps ==
  ASSUME ReferralInv, NEW o \in Purchases,
         UNCHANGED <<rate, inviteCode, inviter, binding>>, boundLater' \subseteq Purchases,
         NEW state \in {"open", "paying", "paid", "refunded"},
         purchase' = [purchase EXCEPT ![o] = state],
         entries' \subseteq Purchases \X EntryTypes,
         commissions' \in [Purchases -> CommissionRow],
         earnings' \in [Members -> [pending: Nat, available: Nat]],
         IsFiniteSet(Commissioned)', EarningsAdd', CommissionsFit',
         \/ state \in {"open", "paying"} /\ purchase[o] \in {"open", "paying"}
         \/ state = "paid" /\ binding[BuyerOf[o]] = NoBinding
         \/ state = "refunded" /\ purchase[o] \in {"paid", "refunded"}
         \/ state = purchase[o]
  PROVE  ReferralInv' /\ BoundBeforeBuying
<1> USE DEF ReferralInv
<1>1. ReferralTypeOK'
  BY DEF ReferralTypeOK, CommissionRow, EntryTypes
<1>2. \A d \in Members : binding[d] # NoBinding /\ ~Bought(d) => ~Bought(d)'
  BY PurchaseAssumption DEF Bought, ReferralTypeOK
<1>3. BindingsStand'
  BY <1>2 DEF BindingsStand
<1>4. NobodyInvitesBack' /\ BoundBeforeBuying
  BY DEF NobodyInvitesBack, BoundBeforeBuying
<1> QED BY <1>1, <1>3, <1>4

LEMMA PayingSteps ==
  ASSUME ReferralInv, NEW o \in Purchases, BeginPayment(o) \/ AbortPayment(o)
  PROVE  ReferralInv' /\ BoundBeforeBuying
<1>0. UNCHANGED <<rate, inviteCode, inviter, binding, commissions, earnings, entries>>
  BY DEF BeginPayment, AbortPayment
<1>1. IsFiniteSet(Commissioned)' /\ EarningsAdd'
  BY <1>0, EarningsKept
<1>2. PICK state \in {"open", "paying"} : purchase' = [purchase EXCEPT ![o] = state]
  BY DEF BeginPayment, AbortPayment
<1>3. purchase[o] \in {"open", "paying"} /\ boundLater' \subseteq Purchases
  BY DEF BeginPayment, AbortPayment, ReferralInv, ReferralTypeOK
<1>4. CommissionsFit'
  BY <1>0, <1>2, <1>3 DEF CommissionsFit, ReferralInv, ReferralTypeOK
<1>5. /\ entries' \subseteq Purchases \X EntryTypes
      /\ commissions' \in [Purchases -> CommissionRow]
      /\ earnings' \in [Members -> [pending: Nat, available: Nat]]
  BY <1>0 DEF ReferralInv, ReferralTypeOK, CommissionRow, EntryTypes
<1> QED BY <1>0, <1>1, <1>2, <1>3, <1>4, <1>5, PurchaseSteps

\* The commission that is made with a payment.
LEMMA MinorIsNatural ==
  ASSUME ReferralTypeOK, NEW o \in Purchases PROVE Minor(o) \in Nat
<1>1. WorthOf[o] \in Nat /\ rate.bps \in Nat
  <2>1. rate.bps \in Rates \cup {0}
    BY DEF ReferralTypeOK
  <2>2. \A r \in Rates : r \in Nat
    BY SMTT(60), RatesAssumption
  <2>3. WorthOf[o] \in Nat
    BY PurchaseAssumption
  <2> QED BY <2>1, <2>2, <2>3
<1>2. \A n, m \in Nat : n * m \in Nat
  OBVIOUS
<1>3. \A n \in Nat : n \div 10000 \in Nat
  OBVIOUS
<1> QED BY <1>1, <1>2, <1>3 DEF Minor

LEMMA PaidStep ==
  ASSUME ReferralInv, NEW o \in Purchases, CommitPayment(o)
  PROVE  ReferralInv' /\ BoundBeforeBuying
<1>0. /\ purchase[o] = "paying" /\ binding[BuyerOf[o]] = NoBinding
      /\ purchase' = [purchase EXCEPT ![o] = "paid"]
      /\ RecordPaidOrderCommission(o)
      /\ UNCHANGED <<rate, inviteCode, inviter, binding, boundLater>>
  BY DEF CommitPayment
<1>1. commissions[o].status = "none" /\ boundLater' \subseteq Purchases
  BY <1>0 DEF ReferralInv, CommissionsFit, ReferralTypeOK
<1>2. CASE UNCHANGED <<commissions, earnings, entries>>
  <2>1. IsFiniteSet(Commissioned)' /\ EarningsAdd'
    BY <1>2, EarningsKept
  <2>2. CommissionsFit'
    BY <1>0, <1>1, <1>2 DEF CommissionsFit, ReferralInv, ReferralTypeOK
  <2>3. /\ entries' \subseteq Purchases \X EntryTypes
        /\ commissions' \in [Purchases -> CommissionRow]
        /\ earnings' \in [Members -> [pending: Nat, available: Nat]]
    BY <1>2 DEF ReferralInv, ReferralTypeOK, CommissionRow, EntryTypes
  <2> QED BY <1>0, <1>1, <2>1, <2>2, <2>3, PurchaseSteps
<1>3. CASE ~UNCHANGED <<commissions, earnings, entries>>
  <2> DEFINE to == inviter[BuyerOf[o]]
             row == [status |-> "pending", to |-> to, minor |-> Minor(o), from |-> "none"]
  <2>1. /\ to # Nobody /\ commissions' = [commissions EXCEPT ![o] = row]
        /\ Enter(o, to, Minor(o), {"commission_pending"})
    BY <1>0, <1>3 DEF RecordPaidOrderCommission
  <2>2. to \in Members /\ Minor(o) \in Nat
    BY <2>1, PurchaseAssumption, MinorIsNatural DEF ReferralInv, ReferralTypeOK
  <2>3. row \in CommissionRow
    BY <2>2 DEF CommissionRow
  <2>4. /\ Effect(Minor(o), {"commission_pending"}, "pending") = Minor(o)
        /\ Effect(Minor(o), {"commission_pending"}, "available") = 0
    <3> DEFINE m == Minor(o)
    <3>1. m \in Nat
      BY <2>2
    <3> HIDE DEF m
    <3>2. /\ Effect(m, {"commission_pending"}, "pending") = m
          /\ Effect(m, {"commission_pending"}, "available") = 0
      BY <3>1, EffectOfOne DEF Bucket, Debits
    <3> QED BY <3>2 DEF m
  <2>5. /\ row.status = "pending" /\ row.to = to /\ row.minor = Minor(o)
    OBVIOUS
  <2> HIDE DEF row, to
  <2>6. /\ InBucket(row, to, "pending") = Minor(o) /\ InBucket(row, to, "available") = 0
        /\ InBucket(commissions[o], to, "pending") = 0 /\ InBucket(commissions[o], to, "available") = 0
    BY <1>1, <2>5 DEF InBucket
  <2>7. /\ commissions' \in [Purchases -> CommissionRow]
        /\ earnings' \in [Members -> [pending: Nat, available: Nat]]
        /\ IsFiniteSet(Commissioned)' /\ EarningsAdd'
    <3> DEFINE types == {"commission_pending"}
               m == Minor(o)
    <3>1. /\ commissions[o].status \in {"pending", "available"} => commissions[o].to = to
          /\ row.status \in {"pending", "available"} => row.to = to
          /\ row.status # "none"
          /\ Effect(m, types, "pending")
               = InBucket(row, to, "pending") - InBucket(commissions[o], to, "pending")
          /\ Effect(m, types, "available")
               = InBucket(row, to, "available") - InBucket(commissions[o], to, "available")
          /\ m \in Nat /\ Enter(o, to, m, types)
      BY <1>1, <2>1, <2>2, <2>4, <2>5, <2>6
    <3> HIDE DEF types, m
    <3>2. PICK s \in Members : s = to
      BY <2>2
    <3> QED BY <2>1, <2>3, <3>1, <3>2, CommissionStep
  <2>8. CommissionsFit'
    BY <1>0, <2>1, <2>2, <2>5 DEF CommissionsFit, ReferralInv, ReferralTypeOK, to
  <2>9. entries' \subseteq Purchases \X EntryTypes
    BY <2>1 DEF Enter, ReferralInv, ReferralTypeOK, EntryTypes
  <2> QED BY <1>0, <1>1, <2>7, <2>8, <2>9, PurchaseSteps
<1> QED BY <1>2, <1>3

LEMMA MaturingStep ==
  ASSUME ReferralInv, NEW o \in Purchases, SettleCommission(o)
  PROVE  ReferralInv' /\ BoundBeforeBuying
<1> DEFINE old == commissions[o]
           row == [old EXCEPT !.status = "available"]
           types == {"settlement_pending_debit", "settlement_available_credit"}
<1>1. /\ old.status = "pending" /\ commissions' = [commissions EXCEPT ![o] = row]
      /\ Enter(o, old.to, old.minor, types)
      /\ UNCHANGED <<rate, inviteCode, inviter, binding, purchase, boundLater>>
  BY DEF SettleCommission
<1>2. /\ old \in CommissionRow /\ old.to \in Members /\ old.minor \in Nat
      /\ purchase[o] \in {"paid", "refunded"} /\ old.to = inviter[BuyerOf[o]]
  BY <1>1 DEF ReferralInv, ReferralTypeOK, CommissionRow, CommissionsFit
<1>3. row \in CommissionRow /\ row.status = "available" /\ row.to = old.to /\ row.minor = old.minor
  BY <1>2 DEF CommissionRow
<1>4. entries' \subseteq Purchases \X EntryTypes
  BY <1>1 DEF Enter, ReferralInv, ReferralTypeOK, EntryTypes
<1>5. Effect(old.minor, types, "pending") = -old.minor /\ Effect(old.minor, types, "available") = old.minor
  <2>1. PICK m \in Nat : m = old.minor
    BY <1>2
  <2>2. Effect(m, types, "pending") = -m /\ Effect(m, types, "available") = m
    BY EffectOfMaturing
  <2> QED BY <2>1, <2>2
<1>6. commissions[o] = old
  OBVIOUS
<1> HIDE DEF old, row, types
<1>7. /\ InBucket(row, old.to, "pending") = 0 /\ InBucket(row, old.to, "available") = old.minor
      /\ InBucket(old, old.to, "pending") = old.minor /\ InBucket(old, old.to, "available") = 0
  BY <1>1, <1>3 DEF InBucket
<1>8. /\ commissions' \in [Purchases -> CommissionRow]
      /\ earnings' \in [Members -> [pending: Nat, available: Nat]]
      /\ IsFiniteSet(Commissioned)' /\ EarningsAdd'
  <2>1. PICK to \in Members, m \in Nat : to = old.to /\ m = old.minor
    BY <1>2
  <2>2. /\ commissions[o].status \in {"pending", "available"} => commissions[o].to = to
        /\ row.status \in {"pending", "available"} => row.to = to
        /\ row.status # "none"
        /\ Effect(m, types, "pending")
             = InBucket(row, to, "pending") - InBucket(commissions[o], to, "pending")
        /\ Effect(m, types, "available")
             = InBucket(row, to, "available") - InBucket(commissions[o], to, "available")
        /\ Enter(o, to, m, types)
    BY <1>1, <1>3, <1>5, <1>6, <1>7, <2>1
  <2> QED BY <1>1, <1>3, <2>2, CommissionStep
<1>9. CommissionsFit'
  BY <1>1, <1>2, <1>3 DEF CommissionsFit, ReferralInv, ReferralTypeOK
<1>10. PICK state \in {"open", "paying", "paid", "refunded"} : state = purchase[o]
  BY DEF ReferralInv, ReferralTypeOK
<1>11. purchase' = [purchase EXCEPT ![o] = state] /\ boundLater' \subseteq Purchases
  BY <1>1, <1>10 DEF ReferralInv, ReferralTypeOK
<1> QED BY <1>1, <1>4, <1>8, <1>9, <1>10, <1>11, PurchaseSteps

LEMMA ReversedStep ==
  ASSUME ReferralInv, NEW o \in Purchases, RefundPurchase(o)
  PROVE  ReferralInv' /\ BoundBeforeBuying
<1>0. /\ purchase[o] = "paid" /\ purchase' = [purchase EXCEPT ![o] = "refunded"]
      /\ ReverseReferralCommission(o)
      /\ UNCHANGED <<rate, inviteCode, inviter, binding, boundLater>>
      /\ boundLater' \subseteq Purchases
  BY DEF RefundPurchase, ReferralInv, ReferralTypeOK
<1>1. CASE commissions[o].status \notin {"pending", "available"}
  <2>0. UNCHANGED <<commissions, earnings, entries>>
    BY <1>0, <1>1 DEF ReverseReferralCommission
  <2>1. IsFiniteSet(Commissioned)' /\ EarningsAdd'
    BY <2>0, EarningsKept
  <2>2. CommissionsFit'
    BY <1>0, <2>0 DEF CommissionsFit, ReferralInv, ReferralTypeOK
  <2>3. /\ entries' \subseteq Purchases \X EntryTypes
        /\ commissions' \in [Purchases -> CommissionRow]
        /\ earnings' \in [Members -> [pending: Nat, available: Nat]]
    BY <2>0 DEF ReferralInv, ReferralTypeOK, CommissionRow, EntryTypes
  <2> QED BY <1>0, <2>1, <2>2, <2>3, PurchaseSteps
<1>2. CASE commissions[o].status \in {"pending", "available"}
  <2> DEFINE old == commissions[o]
             row == [old EXCEPT !.status = "reversed", !.from = old.status]
             type == IF old.status = "pending" THEN "reversal_pending_debit"
                     ELSE "reversal_available_debit"
             types == {type}
  <2>1. /\ commissions' = [commissions EXCEPT ![o] = row]
        /\ Enter(o, old.to, old.minor, types)
    BY <1>0, <1>2 DEF ReverseReferralCommission
  <2>2. /\ old \in CommissionRow /\ old.to \in Members /\ old.minor \in Nat
        /\ old.to = inviter[BuyerOf[o]] /\ old.status \in {"pending", "available"}
    BY <1>2 DEF ReferralInv, ReferralTypeOK, CommissionRow, CommissionsFit
  <2>3. row \in CommissionRow /\ row.status = "reversed" /\ row.to = old.to
    BY <2>2 DEF CommissionRow
  <2>4. entries' \subseteq Purchases \X EntryTypes
    BY <2>1 DEF Enter, ReferralInv, ReferralTypeOK, EntryTypes
  <2>5. /\ Effect(old.minor, types, "pending") = IF old.status = "pending" THEN -old.minor ELSE 0
        /\ Effect(old.minor, types, "available") = IF old.status = "available" THEN -old.minor ELSE 0
    <3>1. PICK m \in Nat : m = old.minor
      BY <2>2
    <3>2. PICK t : t = type
      OBVIOUS
    <3>3. \A b : Effect(m, {t}, b) = IF Bucket(t) # b THEN 0 ELSE IF t \in Debits THEN -m ELSE m
      BY EffectOfOne
    <3>4. /\ t \in Debits
          /\ Bucket(t) = old.status
      BY <2>2, <3>2 DEF Bucket, Debits
    <3>5. types = {t}
      BY <3>2
    <3> HIDE DEF types, type, old
    <3>6. /\ Effect(m, types, "pending") = IF old.status = "pending" THEN -m ELSE 0
          /\ Effect(m, types, "available") = IF old.status = "available" THEN -m ELSE 0
      BY <3>3, <3>4, <3>5
    <3> QED BY <3>1, <3>6
  <2>6. commissions[o] = old
    OBVIOUS
  <2> HIDE DEF old, row, types
  <2>7. /\ InBucket(row, old.to, "pending") = 0 /\ InBucket(row, old.to, "available") = 0
        /\ InBucket(old, old.to, "pending") = IF old.status = "pending" THEN old.minor ELSE 0
        /\ InBucket(old, old.to, "available") = IF old.status = "available" THEN old.minor ELSE 0
    BY <2>3 DEF InBucket
  <2>8. /\ commissions' \in [Purchases -> CommissionRow]
        /\ earnings' \in [Members -> [pending: Nat, available: Nat]]
        /\ IsFiniteSet(Commissioned)' /\ EarningsAdd'
    <3>1. PICK to \in Members, m \in Nat : to = old.to /\ m = old.minor
      BY <2>2
    <3>2. /\ commissions[o].status \in {"pending", "available"} => commissions[o].to = to
          /\ row.status \in {"pending", "available"} => row.to = to
          /\ row.status # "none"
          /\ Effect(m, types, "pending")
               = InBucket(row, to, "pending") - InBucket(commissions[o], to, "pending")
          /\ Effect(m, types, "available")
               = InBucket(row, to, "available") - InBucket(commissions[o], to, "available")
          /\ Enter(o, to, m, types)
      BY <2>1, <2>2, <2>3, <2>5, <2>6, <2>7, <3>1
    <3> QED BY <2>1, <2>3, <3>2, CommissionStep
  <2>9. CommissionsFit'
    BY <1>0, <2>1, <2>2, <2>3 DEF CommissionsFit, ReferralInv, ReferralTypeOK
  <2> QED BY <1>0, <2>4, <2>8, <2>9, PurchaseSteps
<1> QED BY <1>1, <1>2

LEMMA ReferralSteps ==
  ASSUME ReferralInv, [ReferralNext]_referralVars
  PROVE  ReferralInv' /\ (ReferralNext => BoundBeforeBuying)
<1>1. CASE UNCHANGED referralVars
  <2>1. IsFiniteSet(Commissioned)' /\ EarningsAdd'
    BY <1>1, EarningsKept DEF referralVars
  <2>2. ReferralTypeOK' /\ BindingsStand' /\ NobodyInvitesBack' /\ CommissionsFit' /\ BoundBeforeBuying
    BY <1>1 DEF referralVars, ReferralInv, ReferralTypeOK, BindingsStand, Bought, NobodyInvitesBack,
       CommissionsFit, BoundBeforeBuying
  <2> QED BY <2>1, <2>2 DEF ReferralInv
<1>2. ASSUME NEW bps \in Rates \cup {0}, UpsertTenantConfig(bps) PROVE ReferralInv' /\ BoundBeforeBuying
  <2>0. /\ UNCHANGED <<inviteCode, inviter, binding, purchase, boundLater, commissions, earnings, entries>>
        /\ rate' = [bps |-> bps, version |-> rate.version + 1] /\ rate.version \in Nat
    BY <1>2 DEF UpsertTenantConfig, ReferralInv, ReferralTypeOK
  <2>1. IsFiniteSet(Commissioned)' /\ EarningsAdd'
    BY <2>0, EarningsKept
  <2>2. ReferralTypeOK'
    BY <2>0 DEF ReferralInv, ReferralTypeOK
  <2>3. BindingsStand' /\ NobodyInvitesBack' /\ CommissionsFit' /\ BoundBeforeBuying
    BY <2>0 DEF ReferralInv, BindingsStand, Bought, NobodyInvitesBack, CommissionsFit, BoundBeforeBuying
  <2> QED BY <2>1, <2>2, <2>3 DEF ReferralInv
<1>3. ASSUME NEW c \in Members, CreateInviteCode(c) PROVE ReferralInv' /\ BoundBeforeBuying
  <2>0. /\ UNCHANGED <<rate, inviter, binding, purchase, boundLater, commissions, earnings, entries>>
        /\ inviteCode' = inviteCode \cup {c}
    BY <1>3 DEF CreateInviteCode
  <2>1. IsFiniteSet(Commissioned)' /\ EarningsAdd'
    BY <2>0, EarningsKept
  <2>2. ReferralTypeOK'
    BY <2>0 DEF ReferralInv, ReferralTypeOK
  <2>3. BindingsStand' /\ NobodyInvitesBack' /\ CommissionsFit' /\ BoundBeforeBuying
    BY <2>0 DEF ReferralInv, BindingsStand, Bought, NobodyInvitesBack, CommissionsFit, BoundBeforeBuying
  <2> QED BY <2>1, <2>2, <2>3 DEF ReferralInv
<1>4. CASE ReferralNext
  <2>1. CASE \E bps \in Rates \cup {0} : UpsertTenantConfig(bps)
    BY <1>2, <2>1
  <2>2. ASSUME NEW c \in Members,
               \/ CreateInviteCode(c) \/ CheckBinding(c) \/ CommitBinding(c) \/ AbortBinding(c)
               \/ \E i \in Members : BeginBinding(c, i)
        PROVE  ReferralInv' /\ BoundBeforeBuying
    BY <1>3, <2>2, BindingSteps
  <2>3. ASSUME NEW o \in Purchases,
               \/ BeginPayment(o) \/ AbortPayment(o) \/ CommitPayment(o) \/ SettleCommission(o)
               \/ RefundPurchase(o)
        PROVE  ReferralInv' /\ BoundBeforeBuying
    BY <2>3, PayingSteps, PaidStep, MaturingStep, ReversedStep
  <2> QED BY <1>4, <2>1, <2>2, <2>3 DEF ReferralNext
<1> QED BY <1>1, <1>4

\* Nobody is bound to a customer whom they invited, however two bindings run beside
\* each other; nobody is bound who had bought; and each account is what the
\* commissions of those that its owner invited add up to, whatever matures or is
\* reversed in between.
THEOREM InvitationsStayFair == ReferralSpec => InvitationsAreFair
<1>1. ReferralInv => EarningsAreCommissions
  BY DEF ReferralInv, EarningsAreCommissions, CommissionsFit, EarningsAdd
<1>2. ReferralInv /\ [ReferralNext]_referralVars => ReferralInv'
  BY ReferralSteps
<1>3. ReferralInv' => NobodyInvitesBack' /\ EarningsAreCommissions'
  <2>1. ReferralInv' => NobodyInvitesBack'
    BY DEF ReferralInv
  <2> QED BY <1>1, <2>1, PTL
<1>4. ReferralInv /\ [ReferralNext]_referralVars
        => [NobodyInvitesBack' /\ EarningsAreCommissions' /\ BoundBeforeBuying]_referralVars
  BY <1>2, <1>3, ReferralSteps
<1> QED BY ReferralInitially, <1>2, <1>4, PTL DEF ReferralSpec, InvitationsAreFair

=============================================================================
