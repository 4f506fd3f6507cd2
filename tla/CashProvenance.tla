---------------------------- MODULE CashProvenance ----------------------------
(*************************************************************************)
(* Where the money behind a customer's points goes: NativeStoreService   *)
(* and PointUnlockService, with the functions of migration 0038 that     *)
(* their writes trigger, and RevenueShareService.                        *)
(*                                                                       *)
(* Points come in lots, bought ("paid") or given ("bonus"), and are      *)
(* spent first in, first out.  A paid point that unlocks a title is a    *)
(* revenue event, worth its share of the cash its purchase brought.  A   *)
(* refund takes back points first, and revenue only when the cash was    *)
(* already consumed. All of it is integer arithmetic, rounded down.      *)
(*************************************************************************)
EXTENDS Integers, Sequences, FiniteSets, Functions

CONSTANTS
  MaxPurchases,   (* Native store purchases, named 1, 2, ... in the order in
                     which they are recorded.                                *)
  TopUps,        (* Top-up orders paid through a payment adapter.            *)
  Titles,         (* What points unlock.                                      *)
  Gross,          (* gross_minor of every purchase and charge.                *)
  Net,            (* Their net_minor, Unknown if nobody ever states it.       *)
  PaidPoints,     (* points_snapshot.                                         *)
  BonusPoints,    (* bonus_snapshot.                                          *)
  Price,          (* points_amount of every title.                            *)
  StoreRefunds,   (* What the store has refunded of a purchase, step by step. *)
  Shares,         (* Revenue share policies: headquarters and creator bps.    *)
  NoShare,        (* No policy.                                               *)
  LastMonth,      (* Months are 0 .. LastMonth.                               *)
  MaxReserves,    (* Bound on the refunds tried of a charge.                  *)
  MaxTerms        (* Bound on the changes of the basis and of the policy.     *)

StorePurchases == 1 .. MaxPurchases
Sources   == StorePurchases \cup TopUps
Months    == 0 .. LastMonth
Unknown   == -1   (* net_minor is null. *)

ASSUME AmountsAssumption ==
  /\ MaxPurchases \in Nat /\ LastMonth \in Nat /\ TopUps \cap Nat = {}
  /\ \A s \in Sources : /\ Gross[s] \in Nat /\ Net[s] \in {Unknown} \cup 0 .. Gross[s]
                        /\ PaidPoints[s] \in Nat \ {0} /\ BonusPoints[s] \in Nat
  /\ \A x \in Shares : x.hq \in Nat /\ x.creator \in Nat /\ x.hq + x.creator <= 10000
  /\ \A p \in StorePurchases : StoreRefunds[p] \in Seq(0 .. Gross[p])
  /\ \A t \in Titles : Price[t] \in Nat
  /\ NoShare \notin Shares

VARIABLES
  refundStep,  (* How far the store's refund of each purchase has got.   *)
  receipt,     (* native_store_transactions: status, observed_at (a step of
                  the refund), refunded_points.                              *)
  charge,      (* A charge and its refunds: "none", "paid", "reserved", "refunded". *)
  reserves,    (* Refunds of each charge so far.                                    *)
  pointWallet, (* point_accounts.balance, point_cash_lots, point_cash_uses,
                  native_refund_debts.                                       *)
  unlocked,    (* entitlements of the titles.                            *)
  cash,        (* content_cash_sources: refunded_minor and net_minor.    *)
  revenues,    (* content_revenue_events.                                *)
  book,        (* content_revenue_ledger.                                *)
  basis,       (* content_revenue_basis.                                 *)
  share,       (* content_revenue_share_policies, if active.             *)
  terms,       (* How often the basis or the policy was changed.         *)
  month,       (* The month.                                             *)
  closed       (* content_revenue_closures.                              *)

storeVars == <<refundStep, receipt>>
revenueVars == <<revenues, book>>
termVars == <<basis, share, terms, month, closed>>
cashVars == <<storeVars, charge, reserves, pointWallet, unlocked, cash, revenueVars, termVars>>

CashInit ==
  /\ refundStep = [p \in StorePurchases |-> 0]
  /\ receipt = [p \in StorePurchases |-> [status |-> "none", observed |-> 0, refundedPoints |-> 0]]
  /\ charge = [c \in TopUps |-> "none"]
  /\ reserves = [c \in TopUps |-> 0]
  /\ pointWallet = [balance |-> 0, lots |-> <<>>, uses |-> {},
               debt |-> [p \in StorePurchases |-> [paid |-> 0, bonus |-> 0]]]
  /\ unlocked = {}
  /\ cash = [s \in Sources |-> [refunded |-> 0, net |-> Unknown]]
  /\ revenues = {}
  /\ book = {}
  /\ basis = "none"
  /\ share = NoShare
  /\ terms = 0
  /\ month = 0
  /\ closed = {}

-----------------------------------------------------------------------------
(* Lots.                                                                 *)

Lot(s, paid, n) == [source |-> s, paid |-> paid, start |-> 0, points |-> n, remaining |-> n]

\* A top-up entry of the point ledger: its paid lot and its bonus lot.
Credit(w, s) ==
  [w EXCEPT !.balance = @ + PaidPoints[s] + BonusPoints[s],
            !.lots = @ \o <<Lot(s, TRUE, PaidPoints[s])>>
                       \o (IF BonusPoints[s] > 0 THEN <<Lot(s, FALSE, BonusPoints[s])>> ELSE <<>>)]

Least(a, b)    == IF a < b THEN a ELSE b
Greatest(a, b) == IF a > b THEN a ELSE b
Remaining(lots, I) == SumFunctionOnSet([i \in I |-> lots[i].remaining], I)

\* How many of n points come from lot i, when lots of a lower rank go first
\* and lots of one rank go in the order of their creation.
Draw(lots, rank, n) ==
  [i \in DOMAIN lots |->
     LET before == {j \in DOMAIN lots : rank[j] < rank[i] \/ (rank[j] = rank[i] /\ j < i)}
     IN Least(lots[i].remaining, Greatest(0, n - Remaining(lots, before)))]

Position(lot) == lot.start + lot.points - lot.remaining

\* record_point_cash for a debit of n points.
Debit(w, debit, rank, n) ==
  LET draw == Draw(w.lots, rank, n) IN
  [w EXCEPT !.balance = @ - n,
            !.lots = [i \in DOMAIN w.lots |-> [w.lots[i] EXCEPT !.remaining = @ - draw[i]]],
            !.uses = @ \cup {[debit |-> debit, source |-> w.lots[i].source, paid |-> w.lots[i].paid,
                              start |-> Position(w.lots[i]), points |-> draw[i]] :
                             i \in {j \in DOMAIN w.lots : draw[j] > 0}}]

InOrder(lots) == [i \in DOMAIN lots |-> 0]

\* The points of a store refund come from the purchase itself, then from others.
OwnFirst(lots, p, paid) ==
  [i \in DOMAIN lots |-> IF lots[i].source = p THEN IF lots[i].paid = paid THEN 0 ELSE 2 ELSE 1]

\* settleNativeRefundDebt: what the balance allows, debt by debt.
SettleOne(w, p) ==
  LET owed   == w.debt[p]
      amount == Least(w.balance, owed.paid + owed.bonus)
      paid   == Least(amount, owed.paid)
      debit  == <<"reclaim", p, owed.paid + owed.bonus>>
      first  == Debit(w, debit, OwnFirst(w.lots, p, TRUE), paid)
      second == Debit(first, debit, OwnFirst(w.lots, p, FALSE), amount - paid)
  IN [second EXCEPT !.debt[p] = [paid |-> owed.paid - paid, bonus |-> owed.bonus - (amount - paid)]]

SettleDebts(w) ==
  LET settled[p \in 0 .. MaxPurchases] == IF p = 0 THEN w ELSE SettleOne(settled[p - 1], p)
  IN settled[MaxPurchases]

Owes(w) == \E p \in StorePurchases : w.debt[p].paid + w.debt[p].bonus > 0

-----------------------------------------------------------------------------
(* Revenue.                                                              *)

\* What a range of points is worth of an amount.
CashValue(amount, e) ==
  (amount * (e.start + e.points)) \div PaidPoints[e.source]
    - (amount * e.start) \div PaidPoints[e.source]

EventKey(e)   == <<e.title, e.source, e.start>>
EventsOf(E, s) == {e \in E : e.source = s}
Recognized(E, s) ==
  LET own == EventsOf(E, s) IN SumFunctionOnSet([e \in own |-> CashValue(Gross[s], e)], own)

\* The consumed cash of source s that a refund of r takes back.
RefundedConsumption(E, s, r) == Greatest(0, Recognized(E, s) - (Gross[s] - r))

BasisOf(e)         == IF e.basis = "none" THEN basis ELSE e.basis
ShareOf(e, accept) == IF e.share = NoShare /\ accept THEN share ELSE e.share

\* The first half of post_cash_event: the entry of an event that can be valued.
\* c are the cash sources as they are by then.
CashEntry(e, accept, c) ==
  LET amount == IF BasisOf(e) = "gross" THEN Gross[e.source] ELSE c[e.source].net
      s      == ShareOf(e, accept)
      total  == CashValue(amount, e)
  IN IF e.state = "posted" \/ BasisOf(e) = "none" \/ s = NoShare \/ amount = Unknown THEN {}
     ELSE {[event |-> EventKey(e), upto |-> 0, gross |-> total, hq |-> (total * s.hq) \div 10000,
            creator |-> (total * s.creator) \div 10000,
            month |-> IF e.month \in closed THEN month ELSE e.month, status |-> "pending"]}

EntriesOf(B, e) == {b \in B : b.event = EventKey(e)}
Original(B, e)  == CHOOSE b \in EntriesOf(B, e) : b.upto = 0

\* What some entries come to, and the parts of headquarters and the creator.
GrossOf(B)   == SumFunctionOnSet([b \in B |-> b.gross], B)
HqOf(B)      == SumFunctionOnSet([b \in B |-> b.hq], B)
CreatorOf(B) == SumFunctionOnSet([b \in B |-> b.creator], B)

TakenBack(E, B, e, c) ==
  IF EntriesOf(B, e) = {} \/ Recognized(E, e.source) = 0 THEN 0
  ELSE (Original(B, e).gross * RefundedConsumption(E, e.source, c[e.source].refunded))
         \div Recognized(E, e.source)

\* Mutant: each party's part is rounded by itself.
ReversalByParts(E, B, e, c) ==
  LET total  == TakenBack(E, B, e, c)
      o      == Original(B, e)
      hq     == IF o.gross = 0 THEN 0 ELSE (o.hq * total) \div o.gross
      creator == IF o.gross = 0 THEN 0 ELSE (o.creator * total) \div o.gross
      before == EntriesOf(B, e) \ {o}
  IN IF total <= e.refunded THEN {}
     ELSE {[event |-> EventKey(e), upto |-> total, gross |-> e.refunded - total,
            hq |-> -hq - HqOf(before),
            creator |-> -creator - CreatorOf(before),
            month |-> month, status |-> "pending"]}

\* The second half: the entry for what more is taken back of a posted event.
Reversal(E, B, e, c) ==
  LET total  == TakenBack(E, B, e, c)
      o      == Original(B, e)
      hq     == IF o.gross = 0 THEN 0 ELSE (o.hq * total) \div o.gross
      creator == IF o.gross = o.hq THEN 0 ELSE (o.creator * (total - hq)) \div (o.gross - o.hq)
      before == EntriesOf(B, e) \ {o}
  IN IF total <= e.refunded THEN {}
     ELSE {[event |-> EventKey(e), upto |-> total, gross |-> e.refunded - total,
            hq |-> -hq - HqOf(before),
            creator |-> -creator - CreatorOf(before),
            month |-> month, status |-> "pending"]}

\* post_cash_event of some events.  They do not depend on one another's entries.
PostCashEvents(r, which, accept, c) ==
  LET entry(e)    == CashEntry(e, accept, c)
      first       == r.book \cup UNION {entry(e) : e \in which}
      reversal(e) == Reversal(r.events, first, e, c)
      valued(e)   == IF entry(e) = {} THEN e
                     ELSE [e EXCEPT !.state = "posted", !.basis = BasisOf(e), !.share = ShareOf(e, accept)]
      posted(e)   == [valued(e) EXCEPT !.refunded = Greatest(@, TakenBack(r.events, first, e, c))]
  IN [events |-> (r.events \ which) \cup {posted(e) : e \in which},
      book   |-> first \cup UNION {reversal(e) : e \in which}]

Revenue == [events |-> revenues, book |-> book]
Keep(r) == revenues' = r.events /\ book' = r.book

\* sync_cash_source: a source is never refunded less than it was, and its net
\* amount stays what it was first known to be.
SyncCash(s, refunded, net) ==
  LET c == [cash EXCEPT ![s].refunded = Greatest(@, refunded), ![s].net = IF @ = Unknown THEN net ELSE @]
  IN cash' = c /\ Keep(PostCashEvents(Revenue, EventsOf(revenues, s), FALSE, c))

-----------------------------------------------------------------------------
(* The native store.                                                     *)

\* The store refunds more of a purchase.
RefundAtStore(p) ==
  /\ refundStep[p] < Len(StoreRefunds[p])
  /\ refundStep' = [refundStep EXCEPT ![p] = @ + 1]
  /\ UNCHANGED <<receipt, charge, reserves, pointWallet, unlocked, cash, revenueVars, termVars>>

RefundedAt(p, at) == IF at = 0 THEN 0 ELSE StoreRefunds[p][at]
StatusAt(p, at)   == IF RefundedAt(p, at) = Gross[p] THEN "refunded" ELSE "active"
CeilDiv(a, b)     == (a + b - 1) \div b

\* The points that a refund of r takes back of a purchase.
Reclaimed(p, status, r) ==
  IF status = "refunded" THEN PaidPoints[p] + BonusPoints[p]
  ELSE IF Gross[p] = 0 THEN 0 ELSE CeilDiv((PaidPoints[p] + BonusPoints[p]) * r, Gross[p])

PaidPart(p, points) == CeilDiv(points * PaidPoints[p], PaidPoints[p] + BonusPoints[p])

\* apply: what the store said of the purchase when its refund was at step at,
\* which may come late, again, or before anything else.
Apply(p, at, net) ==
  LET status   == StatusAt(p, at)
      was      == receipt[p]
      credited == \E i \in DOMAIN pointWallet.lots : pointWallet.lots[i].source = p
      topped   == IF ~credited /\ status = "active" THEN Credit(pointWallet, p) ELSE pointWallet
      points   == Reclaimed(p, status, RefundedAt(p, at))
      more     == points - was.refundedPoints
      paid     == PaidPart(p, points) - PaidPart(p, was.refundedPoints)
      owing    == IF more > 0 THEN [topped EXCEPT !.debt[p] = [paid  |-> @.paid + paid,
                                                              bonus |-> @.bonus + more - paid]]
                              ELSE topped
      delivered == credited \/ status = "active"
  IN
  /\ at <= refundStep[p]
  /\ \A q \in StorePurchases : q < p => receipt[q].status # "none"
  /\ was.status # "refunded"
  /\ was.observed <= at
  /\ receipt' = [receipt EXCEPT ![p] =
       [status |-> status, observed |-> at,
        refundedPoints |-> IF delivered /\ more > 0 THEN points ELSE @.refundedPoints]]
  /\ pointWallet' = IF delivered THEN SettleDebts(owing) ELSE pointWallet
  /\ SyncCash(p, RefundedAt(p, at), IF RefundedAt(p, at) = 0 THEN net ELSE Unknown)
  /\ UNCHANGED <<refundStep, charge, reserves, unlocked, termVars>>

-----------------------------------------------------------------------------
(* Top-up orders: what PaymentCore and RefundCore do to the wallet.      *)

PayTopup(c) ==
  /\ charge[c] = "none"
  /\ charge' = [charge EXCEPT ![c] = "paid"]
  /\ pointWallet' = SettleDebts(Credit(pointWallet, c))
  /\ SyncCash(c, 0, Unknown)
  /\ UNCHANGED <<storeVars, reserves, unlocked, termVars>>

\* reserveTopupPoints.
ReservePoints(c) ==
  LET n == PaidPoints[c] + BonusPoints[c] IN
  /\ charge[c] = "paid"
  /\ reserves[c] < MaxReserves
  /\ pointWallet.balance >= n
  /\ charge' = [charge EXCEPT ![c] = "reserved"]
  /\ reserves' = [reserves EXCEPT ![c] = @ + 1]
  /\ pointWallet' = Debit(pointWallet, <<"reserve", c, reserves[c] + 1>>, InOrder(pointWallet.lots), n)
  /\ UNCHANGED <<storeVars, unlocked, cash, revenueVars, termVars>>

\* The uses that a release gives back, in some order.
Returned(c) == {u \in pointWallet.uses : u.debit = <<"reserve", c, reserves[c]>>}

\* The refund failed: its points come back with the ranges they had.
ReleasePoints(c) ==
  /\ charge[c] = "reserved"
  /\ charge' = [charge EXCEPT ![c] = "paid"]
  /\ \E order \in [1 .. Cardinality(Returned(c)) -> Returned(c)] :
       /\ \A u \in Returned(c) : \E i \in DOMAIN order : order[i] = u
       /\ pointWallet' = [pointWallet EXCEPT
            !.balance = @ + PaidPoints[c] + BonusPoints[c],
            !.lots = @ \o [i \in DOMAIN order |->
                             [source |-> order[i].source, paid |-> order[i].paid, start |-> order[i].start,
                              points |-> order[i].points, remaining |-> order[i].points]]]
  /\ UNCHANGED <<storeVars, reserves, unlocked, cash, revenueVars, termVars>>

RefundSucceeds(c) ==
  /\ charge[c] = "reserved"
  /\ charge' = [charge EXCEPT ![c] = "refunded"]
  /\ SyncCash(c, Gross[c], Unknown)
  /\ UNCHANGED <<storeVars, reserves, pointWallet, unlocked, termVars>>

-----------------------------------------------------------------------------
(* Points are spent.                                                     *)

\* The event of what an unlock took from a lot, with the terms of the day.
RevenueEvent(t, lot, n) ==
  [title |-> t, source |-> lot.source, start |-> Position(lot), points |-> n,
   basis |-> basis, share |-> share, state |-> "unvalued", month |-> month, refunded |-> 0]

\* The event of a lot that was drawn on, if it is a paid one, and what posting
\* it does to the events of its source.
SellPoints(r, t, lot, n) ==
  LET E == r.events \cup {RevenueEvent(t, lot, n)} IN
  IF n = 0 \/ ~lot.paid THEN r
  ELSE PostCashEvents([events |-> E, book |-> r.book], EventsOf(E, lot.source), FALSE, cash)

\* The same for what was drawn from all lots, one after the other.
Sold(t, lots, draw) ==
  LET sold[i \in 0 .. Len(lots)] ==
        IF i = 0 THEN Revenue ELSE SellPoints(sold[i - 1], t, lots[i], draw[i])
  IN sold[Len(lots)]

\* unlock.  A customer who owns the title is not charged; one who cannot repay
\* what store refunds took back is refused, and nothing is settled.
Unlock(t) ==
  LET w == SettleDebts(pointWallet) IN
  /\ t \notin unlocked
  /\ ~Owes(w)
  /\ w.balance >= Price[t]
  /\ unlocked' = unlocked \cup {t}
  /\ pointWallet' = Debit(w, <<"unlock", t, 0>>, InOrder(w.lots), Price[t])
  /\ Keep(Sold(t, w.lots, Draw(w.lots, InOrder(w.lots), Price[t])))
  /\ UNCHANGED <<storeVars, charge, reserves, cash, termVars>>

-----------------------------------------------------------------------------
(* Headquarters.                                                         *)

ConfigureBasis ==
  /\ terms < MaxTerms
  /\ terms' = terms + 1
  /\ basis' \in {"gross", "net"} \ {basis}
  /\ UNCHANGED <<storeVars, charge, reserves, pointWallet, unlocked, cash, revenueVars,
                 share, month, closed>>

\* upsertPolicy.
UpsertPolicy ==
  /\ terms < MaxTerms
  /\ terms' = terms + 1
  /\ share' \in (Shares \cup {NoShare}) \ {share}
  /\ UNCHANGED <<storeVars, charge, reserves, pointWallet, unlocked, cash, revenueVars,
                 basis, month, closed>>

Known(s) == IF s \in StorePurchases THEN receipt[s].status # "none" ELSE charge[s] # "none"

\* attachNetStatement.
AttachNetStatement(s) ==
  /\ Known(s)
  /\ cash[s].net = Unknown /\ Net[s] # Unknown
  /\ cash' = [cash EXCEPT ![s].net = Net[s]]
  /\ UNCHANGED <<storeVars, charge, reserves, pointWallet, unlocked, revenueVars, termVars>>

Unvalued == {e \in revenues : e.state = "unvalued"}

\* reconcile.
Reconcile ==
  /\ Unvalued # {}
  /\ Keep(PostCashEvents(Revenue, Unvalued, TRUE, cash))
  /\ UNCHANGED <<storeVars, charge, reserves, pointWallet, unlocked, cash, termVars>>

\* settleMonth, for a month that is over.
SettleMonth(m) ==
  /\ m < month
  /\ m \notin closed
  /\ \A e \in Unvalued : e.month > m
  /\ closed' = closed \cup {m}
  /\ book' = {IF b.month = m THEN [b EXCEPT !.status = "settled"] ELSE b : b \in book}
  /\ UNCHANGED <<storeVars, charge, reserves, pointWallet, unlocked, cash, revenues, basis, share, terms, month>>

NextMonth ==
  /\ month < LastMonth
  /\ month' = month + 1
  /\ UNCHANGED <<storeVars, charge, reserves, pointWallet, unlocked, cash, revenueVars,
                 basis, share, terms, closed>>

-----------------------------------------------------------------------------

CashNext ==
  \/ \E p \in StorePurchases : \/ RefundAtStore(p)
                          \/ \E at \in 0 .. Len(StoreRefunds[p]), net \in {Unknown, Net[p]} : Apply(p, at, net)
  \/ \E c \in TopUps : PayTopup(c) \/ ReservePoints(c) \/ ReleasePoints(c) \/ RefundSucceeds(c)
  \/ \E t \in Titles : Unlock(t)
  \/ ConfigureBasis \/ UpsertPolicy \/ Reconcile \/ NextMonth
  \/ \E s \in Sources : AttachNetStatement(s)
  \/ \E m \in Months : SettleMonth(m)

CashSpec == CashInit /\ [][CashNext]_cashVars

-----------------------------------------------------------------------------
(* Properties.                                                           *)

Given(u) == u.debit[1] = "reserve" /\ \/ charge[u.debit[2]] = "paid"
                                      \/ u.debit[3] < reserves[u.debit[2]]

\* Every point of a purchase is in one place: in a lot, or in the one debit
\* that took it, however often refunds reserved and released it; and the
\* balance is what is left in the lots.
EveryPointIsTraced ==
  LET lots  == pointWallet.lots
      Has(x, from, s, paid, k) == x.source = s /\ x.paid = paid /\ from <= k /\ k < x.start + x.points
      Places(s, paid, k) ==
          Cardinality({i \in DOMAIN lots : Has(lots[i], Position(lots[i]), s, paid, k)})
        + Cardinality({u \in pointWallet.uses : ~Given(u) /\ Has(u, u.start, s, paid, k)})
      Bought(s) == \E i \in DOMAIN lots : lots[i].source = s
  IN /\ pointWallet.balance = Remaining(lots, DOMAIN lots)
     /\ \A s \in {x \in Sources : Bought(x)} :
          /\ \A k \in 0 .. PaidPoints[s] - 1 : Places(s, TRUE, k) = 1
          /\ \A k \in 0 .. BonusPoints[s] - 1 : Places(s, FALSE, k) = 1

\* "Refunds remove unconsumed cash first.  Only the excess claws back content
\* revenue": what the parties keep of a source is at most what the customer
\* did not get back of it, but for a minor unit per further event, and what
\* was taken from them is at most the consumed cash that was refunded.
OnlyTheExcessIsClawedBack ==
  \A s \in Sources :
    LET own     == {e \in EventsOf(revenues, s) : e.state = "posted" /\ e.basis = "gross"}
        keys    == {EventKey(e) : e \in own}
        kept    == GrossOf({b \in book : b.event \in keys})
        clawed  == SumFunctionOnSet([e \in own |-> e.refunded], own)
    IN /\ kept <= Gross[s] - cash[s].refunded + Greatest(0, Cardinality(own) - 1)
       /\ clawed <= RefundedConsumption(revenues, s, cash[s].refunded)

\* content_revenue_ledger_amount_check: an entry gives to every party or takes
\* from every party, so no refund is refused over a rounding, and no party is
\* ever taken more than it was given.
NoPartyIsOvercharged ==
  /\ \A b \in book :
       LET tenant == b.gross - b.hq - b.creator IN
       IF b.upto = 0 THEN b.gross >= 0 /\ b.hq >= 0 /\ b.creator >= 0 /\ tenant >= 0
                     ELSE b.gross <= 0 /\ b.hq <= 0 /\ b.creator <= 0 /\ tenant <= 0
  /\ \A e \in revenues :
       LET B == EntriesOf(book, e) IN
       HqOf(B) >= 0 /\ CreatorOf(B) >= 0 /\ GrossOf(B) - HqOf(B) - CreatorOf(B) >= 0

\* A closed month stays closed: nothing waits in it to be settled, and nothing
\* that happened up to it is still to be valued.
ClosedMonthsAreSettled ==
  /\ \A b \in book : b.month \in closed <=> b.status = "settled"
  /\ \A e \in revenues : e.month \in closed => e.state = "posted"

\* Together: a refund takes from nobody more than it gives back, and never out
\* of a month that was settled.
RefundsAreFair == OnlyTheExcessIsClawedBack /\ NoPartyIsOvercharged /\ ClosedMonthsAreSettled

\* Together: where every point came from, and what refunds of it take from whom.
PointsAreAccountedFor == EveryPointIsTraced /\ RefundsAreFair
=============================================================================
