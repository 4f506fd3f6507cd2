------------------------------- MODULE Rights -------------------------------
(*************************************************************************)
(* What one customer may watch at one merchant, and what for: the rights *)
(* (entitlements) that orders, points, rewarded advertisements and store *)
(* subscriptions give to a drama, to one of its episodes and to a        *)
(* membership; their end by refund, term, store or erasure.              *)
(*                                                                       *)
(* An order is paid here by one charge of the provider, whose webhook is *)
(* delivered until it is answered; PaymentCore has the rest of paying.   *)
(* A webhook whose transaction fails is rolled back whole and is the     *)
(* absence of a step.  Drama and episode have a price and a point price  *)
(* throughout, and the drama itself stays published: only the merchant's *)
(* publication of it changes.  Points are those of CashProvenance, and   *)
(* always suffice.                                                       *)
(*************************************************************************)
EXTENDS FiniteSets

CONSTANTS
  RightOrders,  (* Orders the customer may make.                         *)
  ProductOf,    (* The product of each.                                  *)
  AdChallenges  (* Rewarded advertisements the customer may ask for.     *)

Titles   == {"drama", "episode"}
Products == Titles \cup {"membership"}

ASSUME ProductAssumption == ProductOf \in [RightOrders -> Products]

\* Where a right comes from: an order's item, the one point unlock of a title,
\* a rewarded advertisement for the episode, a subscription of the store.
Sources ==
  ({"order"} \X RightOrders) \cup ({"points"} \X Titles) \cup ({"ad"} \X AdChallenges)
    \cup {<<"store", "membership">>}

ProductBy(s) ==
  CASE s[1] = "order" -> ProductOf[s[2]]
    [] s[1] = "ad"    -> "episode"
    [] OTHER          -> s[2]

VARIABLES
  rightOrder,   (* orders: status.                                              *)
  charged,      (* Orders whose money the provider has captured.                *)
  overdue,      (* Orders past expires_at.                                      *)
  inbox,        (* What became of the charge's success event.                   *)
  failed,       (* Orders of which a delivery ended in an error.                *)
  reward,       (* rewarded_episode_unlocks; "late" is pending past expires_at. *)
  store,        (* native_store_transactions: the subscription's status.        *)
  right,        (* entitlements, per source.                                    *)
  publication,  (* The merchant's publication of the platform's drama.          *)
  erased        (* Whether the account was erased.                              *)

orderingVars == <<rightOrder, charged, overdue, inbox, failed>>
rightsVars   == <<orderingVars, reward, store, right, publication, erased>>

RightsTypeOK ==
  /\ rightOrder \in [RightOrders -> {"none", "pending_payment", "paid", "expired", "refunded"}]
  /\ charged \subseteq RightOrders /\ overdue \subseteq RightOrders /\ failed \subseteq RightOrders
  /\ inbox \in [RightOrders -> {"none", "booked", "rejected", "escalated"}]
  /\ reward \in [AdChallenges -> {"none", "pending", "late", "granted", "expired"}]
  /\ store \in {"none", "active", "inactive", "refunded"}
  /\ right \in [Sources -> {"none", "held", "lapsed", "revoked", "erased"}]
  /\ publication \in {"published", "unpublished"}
  /\ erased \in BOOLEAN

RightsInit ==
  /\ rightOrder = [o \in RightOrders |-> "none"]
  /\ charged = {} /\ overdue = {} /\ failed = {}
  /\ inbox = [o \in RightOrders |-> "none"]
  /\ reward = [c \in AdChallenges |-> "none"]
  /\ store = "none"
  /\ right = [s \in Sources |-> "none"]
  /\ publication = "published"
  /\ erased = FALSE

-----------------------------------------------------------------------------
(* What the rows say.                                                    *)

\* revoked_at is null; a right that lapsed is one whose expires_at has passed.
Unrevoked(s) == right[s] \in {"held", "lapsed"}

HoldsRight(p) == \E s \in Sources : ProductBy(s) = p /\ right[s] = "held"

\* entitlements_active_product_unique_idx: another row of the product, revoked
\* by nobody and not the store's, lapsed or not.
Taken(p) == \E s \in Sources : s[1] # "store" /\ ProductBy(s) = p /\ Unrevoked(s)

\* lockExistingOwnership.
Owned(t) == HoldsRight("membership") \/ HoldsRight("drama") \/ (t = "episode" /\ HoldsRight("episode"))

\* resolveInTransaction, of the priced episode: a merchant's customers keep what
\* they bought for good when it unpublishes the drama, members do not.
Full ==
  \/ HoldsRight("drama") \/ HoldsRight("episode")
  \/ publication = "published" /\ HoldsRight("membership")

\* loadQuote and lockSellableTarget: of titles, those the merchant distributes.
Offered(p) == p \in Titles => publication = "published"

-----------------------------------------------------------------------------
(* Orders.                                                               *)

\* createOrder and its quote, which ask what is sold and not what is owned.
CreateOrder(o) ==
  /\ rightOrder[o] = "none" /\ ~erased
  /\ Offered(ProductOf[o])
  /\ rightOrder' = [rightOrder EXCEPT ![o] = "pending_payment"]
  /\ UNCHANGED <<charged, overdue, inbox, failed, reward, store, right, publication, erased>>

DeadlinePasses(o) ==
  /\ rightOrder[o] = "pending_payment"
  /\ overdue' = overdue \cup {o}
  /\ UNCHANGED <<rightOrder, charged, inbox, failed, reward, store, right, publication, erased>>

\* expirePendingOrders, when the customer looks at the orders.
ExpirePendingOrder(o) ==
  /\ rightOrder[o] = "pending_payment" /\ o \in overdue
  /\ rightOrder' = [rightOrder EXCEPT ![o] = "expired"]
  /\ UNCHANGED <<charged, overdue, inbox, failed, reward, store, right, publication, erased>>

\* The customer pays in the provider's checkout, which closes with the order.
ProviderCharges(o) ==
  /\ rightOrder[o] = "pending_payment" /\ o \notin overdue
  /\ charged' = charged \cup {o}
  /\ UNCHANGED <<rightOrder, overdue, inbox, failed, reward, store, right, publication, erased>>

\* Mutant: the right is inserted as rewarded rights are, "do nothing" if the
\* product is taken.
InsertsUnlessTaken(o) ==
  right' = IF Taken(ProductOf[o]) THEN right ELSE [right EXCEPT ![<<"order", o>>] = "held"]

\* fulfillOrder's insert is idempotent by its order item only: the index on the
\* product raises, and the whole transaction with it.
InsertsRight(o) ==
  /\ ~Taken(ProductOf[o])
  /\ right' = [right EXCEPT ![<<"order", o>>] = "held"]

Unanswered(o) == o \in charged /\ inbox[o] = "none"

\* handleWebhook, of a charge whose order is open.
BookCharge(o) ==
  /\ Unanswered(o) /\ rightOrder[o] = "pending_payment" /\ o \notin overdue
  /\ InsertsRight(o)
  /\ rightOrder' = [rightOrder EXCEPT ![o] = "paid"]
  /\ inbox' = [inbox EXCEPT ![o] = "booked"]
  /\ UNCHANGED <<charged, overdue, failed, reward, store, publication, erased>>

\* The same, when the insert raises: nothing is left of the transaction, and the
\* provider will deliver the event again.
DeliveryFails(o) ==
  /\ Unanswered(o) /\ rightOrder[o] = "pending_payment" /\ o \notin overdue
  /\ Taken(ProductOf[o])
  /\ failed' = failed \cup {o}
  /\ UNCHANGED <<rightOrder, charged, overdue, inbox, reward, store, right, publication, erased>>

\* Of an order past its deadline, which the event itself closes.
CloseOverdue(o) ==
  /\ Unanswered(o) /\ rightOrder[o] = "pending_payment" /\ o \in overdue
  /\ rightOrder' = [rightOrder EXCEPT ![o] = "expired"]
  /\ inbox' = [inbox EXCEPT ![o] = "rejected"]
  /\ UNCHANGED <<charged, overdue, failed, reward, store, right, publication, erased>>

\* Of an order that was closed before.
EscalateCharge(o) ==
  /\ Unanswered(o) /\ rightOrder[o] = "expired"
  /\ inbox' = [inbox EXCEPT ![o] = "escalated"]
  /\ UNCHANGED <<rightOrder, charged, overdue, failed, reward, store, right, publication, erased>>

DeliverSuccess(o) ==
  BookCharge(o) \/ DeliveryFails(o) \/ CloseOverdue(o) \/ EscalateCharge(o)

\* finalizeSuccess of RefundService.
RefundOrder(o) ==
  /\ rightOrder[o] = "paid"
  /\ rightOrder' = [rightOrder EXCEPT ![o] = "refunded"]
  /\ right' = [right EXCEPT ![<<"order", o>>] =
       IF @ \in {"held", "lapsed"} THEN "revoked" ELSE @]
  /\ UNCHANGED <<charged, overdue, inbox, failed, reward, store, publication, erased>>

-----------------------------------------------------------------------------
(* Points, advertisements, subscriptions of the store.                   *)

\* unlock: a title is unlocked once, whatever became of the right since.
UnlockWithPoints(t) ==
  LET s == <<"points", t>> IN
  /\ ~erased /\ Offered(t)
  /\ ~Owned(t) /\ ~Taken(t)
  /\ right[s] = "none"
  /\ right' = [right EXCEPT ![s] = "held"]
  /\ UNCHANGED <<orderingVars, reward, store, publication, erased>>

\* createChallenge: challenges past their time are expired first, and one that
\* is still pending is answered again.
CreateChallenge(c) ==
  /\ ~erased /\ Offered("episode") /\ ~Full
  /\ reward[c] = "none"
  /\ \A d \in AdChallenges : reward[d] # "pending"
  /\ reward' = [d \in AdChallenges |-> IF d = c THEN "pending"
                                     ELSE IF reward[d] = "late" THEN "expired" ELSE reward[d]]
  /\ UNCHANGED <<orderingVars, store, right, publication, erased>>

ChallengePasses(c) ==
  /\ reward[c] = "pending"
  /\ reward' = [reward EXCEPT ![c] = "late"]
  /\ UNCHANGED <<orderingVars, store, right, publication, erased>>

\* status: the customer asks for a challenge that is past its time.
ExpireChallenge(c) ==
  /\ reward[c] = "late"
  /\ reward' = [reward EXCEPT ![c] = "expired"]
  /\ UNCHANGED <<orderingVars, store, right, publication, erased>>

\* grantVerifiedReward: the network's callback, whoever the customer is by now.
\* A repeated one changes nothing, and a late one is rolled back.
GrantVerifiedReward(c) ==
  /\ reward[c] = "pending"
  /\ reward' = [reward EXCEPT ![c] = "granted"]
  /\ right' = IF Taken("episode") THEN right ELSE [right EXCEPT ![<<"ad", c>>] = "held"]
  /\ UNCHANGED <<orderingVars, store, publication, erased>>

\* Mutant: the store's state ends memberships whoever sold them.
EndsMemberships == {s \in Sources : ProductBy(s) = "membership" /\ Unrevoked(s)}

\* The rights that a store's purchase ends when it is not active.
StoreEnds == {s \in Sources : s[1] = "store" /\ Unrevoked(s)}

\* apply, of a subscription: a refunded purchase is done with, a right that the
\* store's state took is given back when the store says so, and a new period is
\* a new row in the place of the old.
ApplyStoreState(state) ==
  /\ store # "refunded"
  /\ store' = state
  /\ IF state = "active"
       THEN \E newPeriod \in BOOLEAN :
              right' = [right EXCEPT ![<<"store", "membership">>] =
                IF newPeriod \/ @ \in {"none", "revoked"} THEN "held" ELSE @]
       ELSE right' = [s \in Sources |-> IF s \in StoreEnds THEN "revoked" ELSE right[s]]
  /\ UNCHANGED <<orderingVars, reward, publication, erased>>

-----------------------------------------------------------------------------
(* Time, the merchant, and erasure.                                      *)

MembershipEnds(s) ==
  /\ ProductBy(s) = "membership" /\ right[s] = "held"
  /\ right' = [right EXCEPT ![s] = "lapsed"]
  /\ UNCHANGED <<orderingVars, reward, store, publication, erased>>

ChangePublication ==
  /\ publication' = IF publication = "published" THEN "unpublished" ELSE "published"
  /\ UNCHANGED <<orderingVars, reward, store, right, erased>>

EraseRights ==
  /\ ~erased
  /\ erased' = TRUE
  /\ right' = [s \in Sources |-> IF Unrevoked(s) THEN "erased" ELSE right[s]]
  /\ UNCHANGED <<orderingVars, reward, store, publication>>

RightsNext ==
  \/ \E o \in RightOrders :
       \/ CreateOrder(o) \/ DeadlinePasses(o) \/ ExpirePendingOrder(o) \/ ProviderCharges(o)
       \/ DeliverSuccess(o) \/ RefundOrder(o)
  \/ \E t \in Titles : UnlockWithPoints(t)
  \/ \E c \in AdChallenges :
       \/ CreateChallenge(c) \/ ChallengePasses(c) \/ ExpireChallenge(c)
       \/ GrantVerifiedReward(c)
  \/ \E state \in {"active", "inactive", "refunded"} : ApplyStoreState(state)
  \/ \E s \in Sources : MembershipEnds(s)
  \/ ChangePublication \/ EraseRights

RightsSpec == RightsInit /\ [][RightsNext]_rightsVars

\* Time passes, and the provider delivers an event until it is answered.
RightsFairSpec ==
  /\ RightsSpec
  /\ \A o \in RightOrders : WF_rightsVars(DeadlinePasses(o)) /\ WF_rightsVars(DeliverSuccess(o))

-----------------------------------------------------------------------------
(* Properties.                                                           *)

\* An order is paid if and only if it gave its own right, which stays while the
\* order does, and a refund takes that right and no other: whatever else the
\* customer acquires of the same product while the payment is under way, nobody
\* pays for a right that another source already gave, nor keeps a refunded one.
PaidHoldsItsRight ==
  \A o \in RightOrders :
    LET s == <<"order", o>> IN
    /\ right[s] = "none" <=> rightOrder[o] \notin {"paid", "refunded"}
    /\ right[s] = "revoked" => rightOrder[o] = "refunded"
    /\ rightOrder[o] = "refunded" => ~Unrevoked(s)

\* What was bought or earned for good is kept: a drama or an episode that the
\* customer could watch by such a right is lost by a refund of that very right,
\* or with the account, and for no other reason.
KeptUntilReturned ==
  [][\A s \in Sources :
       s[1] # "store" /\ right[s] = "held" /\ right'[s] # "held" =>
         \/ ProductBy(s) = "membership" /\ right'[s] = "lapsed"
         \/ right'[s] = "erased" /\ erased' # erased
         \/ s[1] = "order" /\ rightOrder'[s[2]] = "refunded"]_rightsVars

\* "Rights are granted once per order item; a failure can be retried": a charge
\* whose webhook failed is booked by a later delivery, or somebody is told of it.
\* It is neither if the customer has got the product another way meanwhile, or
\* renews a membership that lapsed: deliveries fail until the order is overdue,
\* and the next one closes it.
FailureCanBeRetried ==
  \A o \in RightOrders : o \in failed ~> rightOrder[o] = "paid" \/ inbox[o] = "escalated"
=============================================================================
