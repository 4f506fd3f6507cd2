--------------------------- MODULE CustomerProofs ---------------------------
(*************************************************************************)
(* Proofs about what customers have, say and read: Rights,               *)
(* CustomerViewing, Interactions, CursorPages and LegalConsents; and     *)
(* about who is logged in: StaffSessions and CustomerSessions.           *)
(*************************************************************************)
EXTENDS Rights, CustomerViewing, Interactions, CursorPages, LegalConsents,
        StaffSessions, CustomerSessions, FiniteSetTheorems, TLAPS

-----------------------------------------------------------------------------
(* Rights: the agreement of an order with its right is inductive with types. *)

RightsInv == RightsTypeOK /\ PaidHoldsItsRight

\* A right is known by its source: the orders' are told apart from the others.
LEMMA SourceOfOrder ==
  ASSUME NEW o \in RightOrders
  PROVE  /\ <<"order", o>> \in Sources
         /\ ProductBy(<<"order", o>>) = ProductOf[o]
         /\ ProductOf[o] \in Products
  BY ProductAssumption DEF Sources, ProductBy

\* Types hold at first, and of every step: no order, inbox row, challenge or
\* right takes a value outside its column.
LEMMA RightsTypes ==
  /\ RightsInit => RightsTypeOK
  /\ RightsTypeOK /\ [RightsNext]_rightsVars => RightsTypeOK'
<1>1. RightsInit => RightsTypeOK
  BY DEF RightsInit, RightsTypeOK
<1>2. ASSUME RightsTypeOK, [RightsNext]_rightsVars PROVE RightsTypeOK'
  <2> USE <1>2 DEF RightsTypeOK
  <2>1. ASSUME NEW o \in RightOrders, CreateOrder(o) \/ DeadlinePasses(o) \/ ExpirePendingOrder(o)
        PROVE  RightsTypeOK'
    BY <2>1 DEF CreateOrder, DeadlinePasses, ExpirePendingOrder
  <2>2. ASSUME NEW o \in RightOrders, ProviderCharges(o) \/ DeliverSuccess(o) \/ RefundOrder(o)
        PROVE  RightsTypeOK'
    BY <2>2, SourceOfOrder
    DEF ProviderCharges, DeliverSuccess, BookCharge, InsertsRight, DeliveryFails, CloseOverdue,
        EscalateCharge, RefundOrder
  <2>3. ASSUME NEW t \in Titles, UnlockWithPoints(t)
        PROVE  RightsTypeOK'
    BY <2>3 DEF UnlockWithPoints, orderingVars
  <2>4. ASSUME NEW c \in AdChallenges,
               CreateChallenge(c) \/ ChallengePasses(c) \/ ExpireChallenge(c)
        PROVE  RightsTypeOK'
    BY <2>4 DEF CreateChallenge, ChallengePasses, ExpireChallenge, orderingVars
  <2>5. ASSUME NEW c \in AdChallenges, GrantVerifiedReward(c)
        PROVE  RightsTypeOK'
    BY <2>5 DEF GrantVerifiedReward, orderingVars
  <2>6. ASSUME NEW state \in {"active", "inactive", "refunded"}, ApplyStoreState(state)
        PROVE  RightsTypeOK'
    BY <2>6 DEF ApplyStoreState, orderingVars
  <2>7. ASSUME NEW s \in Sources, MembershipEnds(s)
        PROVE  RightsTypeOK'
    BY <2>7 DEF MembershipEnds, orderingVars
  <2>8. CASE ChangePublication \/ EraseRights
    BY <2>8 DEF ChangePublication, EraseRights, orderingVars
  <2>9. CASE UNCHANGED rightsVars
    BY <2>9 DEF rightsVars, orderingVars
  <2> QED
    BY <2>1, <2>2, <2>3, <2>4, <2>5, <2>6, <2>7, <2>8, <2>9 DEF RightsNext
<1> QED
  BY <1>1, <1>2

\* No step of another source touches the right of an order, but the end of its
\* membership's term and erasure.
LEMMA AgreementIsKept ==
  ASSUME RightsInv, RightsTypeOK', [RightsNext]_rightsVars
  PROVE  PaidHoldsItsRight'
<1> SUFFICES ASSUME NEW o \in RightOrders
             PROVE  /\ right'[<<"order", o>>] = "none" <=> rightOrder'[o] \notin {"paid", "refunded"}
                    /\ right'[<<"order", o>>] = "revoked" => rightOrder'[o] = "refunded"
                    /\ rightOrder'[o] = "refunded" => right'[<<"order", o>>] \notin {"held", "lapsed"}
  BY DEF PaidHoldsItsRight, Unrevoked
<1> DEFINE s == <<"order", o>>
<1>1. /\ s \in Sources
      /\ right[s] = "none" <=> rightOrder[o] \notin {"paid", "refunded"}
      /\ right[s] = "revoked" => rightOrder[o] = "refunded"
      /\ rightOrder[o] = "refunded" => right[s] \notin {"held", "lapsed"}
  BY SourceOfOrder DEF RightsInv, PaidHoldsItsRight, Unrevoked
<1>2. ASSUME UNCHANGED <<right, rightOrder>>
      PROVE  /\ right'[s] = "none" <=> rightOrder'[o] \notin {"paid", "refunded"}
             /\ right'[s] = "revoked" => rightOrder'[o] = "refunded"
             /\ rightOrder'[o] = "refunded" => right'[s] \notin {"held", "lapsed"}
  BY <1>1, <1>2
<1> USE DEF RightsInv, RightsTypeOK
<1>3. ASSUME NEW p \in RightOrders, CreateOrder(p) \/ ExpirePendingOrder(p)
      PROVE  /\ right'[s] = right[s]
             /\ rightOrder'[o] \notin {"paid", "refunded"} <=> rightOrder[o] \notin {"paid", "refunded"}
             /\ rightOrder'[o] = "refunded" <=> rightOrder[o] = "refunded"
  BY <1>3 DEF CreateOrder, ExpirePendingOrder
<1>4. ASSUME NEW p \in RightOrders, CloseOverdue(p)
      PROVE  /\ right'[s] = right[s]
             /\ rightOrder'[o] \notin {"paid", "refunded"} <=> rightOrder[o] \notin {"paid", "refunded"}
             /\ rightOrder'[o] = "refunded" <=> rightOrder[o] = "refunded"
  BY <1>4 DEF CloseOverdue
<1>5. ASSUME NEW p \in RightOrders,
             DeadlinePasses(p) \/ ProviderCharges(p) \/ DeliveryFails(p) \/ EscalateCharge(p)
      PROVE  UNCHANGED <<right, rightOrder>>
  BY <1>5 DEF DeadlinePasses, ProviderCharges, DeliveryFails, EscalateCharge
<1>6. ASSUME NEW p \in RightOrders, BookCharge(p)
      PROVE  IF o = p THEN right'[s] = "held" /\ rightOrder'[o] = "paid"
                      ELSE right'[s] = right[s] /\ rightOrder'[o] = rightOrder[o]
  <2>1. <<"order", p>> \in Sources
    BY SourceOfOrder
  <2> QED
    BY <1>1, <1>6, <2>1 DEF BookCharge, InsertsRight
<1>7. ASSUME NEW p \in RightOrders, RefundOrder(p)
      PROVE  IF o = p THEN right'[s] \in {"revoked", "erased"} /\ rightOrder'[o] = "refunded"
                      ELSE right'[s] = right[s] /\ rightOrder'[o] = rightOrder[o]
  <2>1. <<"order", p>> \in Sources
    BY SourceOfOrder
  <2>2. right[<<"order", p>>] \in {"held", "lapsed", "erased"}
    BY <1>7, <2>1 DEF RefundOrder, PaidHoldsItsRight, Unrevoked
  <2> QED
    BY <1>1, <1>7, <2>1, <2>2 DEF RefundOrder
<1>8. ASSUME NEW t \in Titles, UnlockWithPoints(t)
      PROVE  right'[s] = right[s] /\ UNCHANGED rightOrder
  <2>1. <<"points", t>> # s
    OBVIOUS
  <2> QED
    BY <1>1, <1>8, <2>1 DEF UnlockWithPoints, orderingVars
<1>9. ASSUME NEW c \in AdChallenges, GrantVerifiedReward(c)
      PROVE  right'[s] = right[s] /\ UNCHANGED rightOrder
  <2>1. <<"ad", c>> # s
    OBVIOUS
  <2> QED
    BY <1>1, <1>9, <2>1 DEF GrantVerifiedReward, orderingVars
<1>10. ASSUME NEW c \in AdChallenges,
              CreateChallenge(c) \/ ChallengePasses(c) \/ ExpireChallenge(c)
       PROVE  UNCHANGED <<right, rightOrder>>
  BY <1>10 DEF CreateChallenge, ChallengePasses, ExpireChallenge, orderingVars
<1>11. ASSUME NEW state \in {"active", "inactive", "refunded"}, ApplyStoreState(state)
       PROVE  right'[s] = right[s] /\ UNCHANGED rightOrder
  <2>1. s # <<"store", "membership">> /\ s \notin StoreEnds
    BY DEF StoreEnds
  <2>2. CASE state = "active"
    BY <1>1, <1>11, <2>1, <2>2 DEF ApplyStoreState, orderingVars
  <2>3. CASE state # "active"
    BY <1>1, <1>11, <2>1, <2>3 DEF ApplyStoreState, orderingVars
  <2> QED
    BY <2>2, <2>3
<1>12. ASSUME NEW z \in Sources, MembershipEnds(z)
       PROVE  /\ UNCHANGED rightOrder
              /\ right'[s] = right[s] \/ (right[s] = "held" /\ right'[s] = "lapsed")
  BY <1>1, <1>12 DEF MembershipEnds, orderingVars
<1>13. CASE EraseRights
  <2>1. UNCHANGED rightOrder
    BY <1>13 DEF EraseRights, orderingVars
  <2>2. right'[s] = IF right[s] \in {"held", "lapsed"} THEN "erased" ELSE right[s]
    BY <1>1, <1>13 DEF EraseRights, Unrevoked
  <2> QED
    BY <1>1, <2>1, <2>2
<1>14. CASE ChangePublication
  BY <1>2, <1>14 DEF ChangePublication, orderingVars
<1>15. CASE UNCHANGED rightsVars
  BY <1>2, <1>15 DEF rightsVars, orderingVars
<1>16. ASSUME NEW p \in RightOrders,
              \/ CreateOrder(p) \/ DeadlinePasses(p) \/ ExpirePendingOrder(p)
              \/ ProviderCharges(p) \/ DeliverSuccess(p) \/ RefundOrder(p)
       PROVE  /\ right'[s] = "none" <=> rightOrder'[o] \notin {"paid", "refunded"}
              /\ right'[s] = "revoked" => rightOrder'[o] = "refunded"
              /\ rightOrder'[o] = "refunded" => right'[s] \notin {"held", "lapsed"}
  <2>1. CASE CreateOrder(p) \/ ExpirePendingOrder(p)
    BY <1>1, <1>3, <2>1
  <2>2. CASE CloseOverdue(p)
    BY <1>1, <1>4, <2>2
  <2>3. CASE DeadlinePasses(p) \/ ProviderCharges(p) \/ DeliveryFails(p) \/ EscalateCharge(p)
    BY <1>2, <1>5, <2>3
  <2>4. CASE BookCharge(p)
    BY <1>1, <1>6, <2>4
  <2>5. CASE RefundOrder(p)
    BY <1>1, <1>7, <2>5
  <2> QED
    BY <1>16, <2>1, <2>2, <2>3, <2>4, <2>5 DEF DeliverSuccess
<1>17. ASSUME NEW c \in AdChallenges,
              \/ CreateChallenge(c) \/ ChallengePasses(c) \/ ExpireChallenge(c)
              \/ GrantVerifiedReward(c)
       PROVE  right'[s] = right[s] /\ UNCHANGED rightOrder
  BY <1>9, <1>10, <1>17
<1> QED
  BY <1>1, <1>8, <1>11, <1>12, <1>13, <1>14, <1>15, <1>16, <1>17 DEF RightsNext

\* Rows of orders, rewards and rights never take a value outside their columns.
THEOREM RightsTypeCorrect == RightsSpec => []RightsTypeOK
<1>1. RightsInit => RightsTypeOK
  BY RightsTypes
<1>2. RightsTypeOK /\ [RightsNext]_rightsVars => RightsTypeOK'
  BY RightsTypes
<1> QED
  BY <1>1, <1>2, PTL DEF RightsSpec

\* An order is paid if and only if it gave its own right, for any orders of any
\* products, whatever else the customer acquires at the same time.
THEOREM EveryOrderHoldsItsRight == RightsSpec => []PaidHoldsItsRight
<1>1. RightsInit => RightsInv
  <2>1. RightsInit => RightsTypeOK
    BY RightsTypes
  <2>2. RightsInit => PaidHoldsItsRight
    BY SourceOfOrder DEF RightsInit, PaidHoldsItsRight, Unrevoked
  <2> QED
    BY <2>1, <2>2 DEF RightsInv
<1>2. RightsInv /\ [RightsNext]_rightsVars => RightsInv'
  <2> SUFFICES ASSUME RightsInv, [RightsNext]_rightsVars
               PROVE  RightsInv'
    OBVIOUS
  <2>1. RightsTypeOK'
    BY RightsTypes DEF RightsInv
  <2>2. PaidHoldsItsRight'
    BY <2>1, AgreementIsKept
  <2> QED
    BY <2>1, <2>2 DEF RightsInv
<1>3. RightsInv => PaidHoldsItsRight
  BY DEF RightsInv
<1> QED
  BY <1>1, <1>2, <1>3, PTL DEF RightsSpec

\* A right that is held is lost by its own refund, by the end of a membership or
\* with the account only, for any orders, challenges and states of the store.
THEOREM RightsAreKept == RightsSpec => KeptUntilReturned
<1>1. RightsTypeOK /\ [RightsNext]_rightsVars =>
        \A s \in Sources : s[1] # "store" /\ right[s] = "held" /\ right'[s] # "held" =>
          \/ ProductBy(s) = "membership" /\ right'[s] = "lapsed"
          \/ right'[s] = "erased" /\ erased' # erased
          \/ s[1] = "order" /\ rightOrder'[s[2]] = "refunded"
  <2> SUFFICES ASSUME RightsTypeOK, [RightsNext]_rightsVars,
                      NEW s \in Sources, s[1] # "store", right[s] = "held", right'[s] # "held"
               PROVE  \/ ProductBy(s) = "membership" /\ right'[s] = "lapsed"
                      \/ right'[s] = "erased" /\ erased' # erased
                      \/ s[1] = "order" /\ rightOrder'[s[2]] = "refunded"
    OBVIOUS
  <2> USE DEF RightsTypeOK
  <2>1. ASSUME NEW o \in RightOrders, CreateOrder(o) \/ DeadlinePasses(o) \/ ExpirePendingOrder(o)
        PROVE  FALSE
    BY <2>1 DEF CreateOrder, DeadlinePasses, ExpirePendingOrder
  <2>2. ASSUME NEW o \in RightOrders, ProviderCharges(o) \/ DeliverSuccess(o)
        PROVE  FALSE
    BY <2>2
    DEF ProviderCharges, DeliverSuccess, BookCharge, InsertsRight, DeliveryFails, CloseOverdue,
        EscalateCharge
  <2>3. ASSUME NEW o \in RightOrders, RefundOrder(o)
        PROVE  s[1] = "order" /\ rightOrder'[s[2]] = "refunded"
    <3>1. s = <<"order", o>>
      BY <2>3 DEF RefundOrder
    <3> QED
      BY <2>3, <3>1 DEF RefundOrder
  <2>4. ASSUME NEW t \in Titles, UnlockWithPoints(t)
        PROVE  FALSE
    BY <2>4 DEF UnlockWithPoints
  <2>5. ASSUME NEW c \in AdChallenges,
               \/ CreateChallenge(c) \/ ChallengePasses(c) \/ ExpireChallenge(c)
               \/ GrantVerifiedReward(c)
        PROVE  FALSE
    BY <2>5 DEF CreateChallenge, ChallengePasses, ExpireChallenge, GrantVerifiedReward
  <2>6. ASSUME NEW state \in {"active", "inactive", "refunded"}, ApplyStoreState(state)
        PROVE  FALSE
    BY <2>6 DEF ApplyStoreState, StoreEnds
  <2>7. ASSUME NEW z \in Sources, MembershipEnds(z)
        PROVE  ProductBy(s) = "membership" /\ right'[s] = "lapsed"
    <3>1. s = z
      BY <2>7 DEF MembershipEnds
    <3> QED
      BY <2>7, <3>1 DEF MembershipEnds
  <2>8. CASE EraseRights
    BY <2>8 DEF EraseRights, Unrevoked
  <2>9. CASE ChangePublication \/ UNCHANGED rightsVars
    BY <2>9 DEF ChangePublication, rightsVars
  <2> QED
    BY <2>1, <2>2, <2>3, <2>4, <2>5, <2>6, <2>7, <2>8, <2>9 DEF RightsNext
<1>2. RightsSpec => []RightsTypeOK
  BY RightsTypeCorrect
<1> QED
  BY <1>1, <1>2, PTL DEF RightsSpec, KeptUntilReturned

-----------------------------------------------------------------------------
(* Viewing: what a request read and locked stands, step by step.         *)

\* What a request has read and locked is still so.
StandsOpen(v)    == Standing(view[v].who)
StandsTarget(v)  ==
  Reached(v, "target") =>
    drama.published /\ ~drama.takenDown /\ chapter.published /\ chapter.ready
StandsBasis(v)   ==
  Reached(v, "distributed") =>
    \/ whose = "tenant" /\ ~view[v].forGood
    \/ view[v].by = "licence" /\ licensed /\ ~view[v].forGood
    \/ /\ view[v].by = "pool" /\ pool \in {"published", "unpublished"}
       /\ view[v].forGood = (pool = "unpublished")
MayWatch(v)      ==
  \/ ~view[v].priced /\ ~view[v].forGood
  \/ view[v].who = "customer" /\ "forever" \in held
  \/ view[v].who = "customer" /\ ~view[v].forGood /\ held # {}
StandsAccess(v)  == Reached(v, "decided") /\ view[v].access = "full" => MayWatch(v)
StandsSigned(v)  ==
  Reached(v, "signed") =>
    /\ view[v].asks # "progress" => supply
    /\ view[v].medium = "full" => view[v].access = "full"

ViewStands(v) ==
  view[v] # NoView =>
    StandsOpen(v) /\ StandsTarget(v) /\ StandsBasis(v) /\ StandsAccess(v) /\ StandsSigned(v)

ViewingInv ==
  /\ ViewingTypeOK
  /\ "forever" \notin lapsed
  /\ pool # "none" => whose = "platform"
  /\ \A v \in Views : ViewStands(v)

LEMMA ViewingInitially == ViewingInit => ViewingInv
<1> SUFFICES ASSUME ViewingInit PROVE ViewingInv
  OBVIOUS
<1>1. chapter \in [published: BOOLEAN, due: {"now", "over"}, ready: BOOLEAN,
                   preview: {"none", "seconds", "clip"}, track: BOOLEAN]
  BY DEF ViewingInit
<1>2. ViewingTypeOK
  BY <1>1, ViewingAssumption DEF ViewingInit, ViewingTypeOK
<1>3. \A v \in Views : ViewStands(v)
  BY DEF ViewingInit, ViewStands
<1> QED BY <1>2, <1>3 DEF ViewingInit, ViewingInv

\* How far a request is.
LEMMA Progress ==
  ASSUME NEW v \in Views, view[v] # NoView, ViewingTypeOK
  PROVE  /\ Reached(v, "open")
         /\ Reached(v, "target") <=> view[v].step # "open"
         /\ Reached(v, "priced") <=> view[v].step \notin {"open", "target"}
         /\ Reached(v, "distributed") <=> view[v].step \in {"distributed", "decided", "signed"}
         /\ Reached(v, "decided") <=> view[v].step \in {"decided", "signed"}
         /\ Reached(v, "signed") <=> view[v].step = "signed"
<1>1. view[v] \in ViewRow
  BY DEF ViewingTypeOK
<1>2. view[v].step \in {"open", "target", "priced", "distributed", "decided", "signed"}
  BY <1>1 DEF ViewRow, Stages
<1> QED BY <1>2 DEF Reached, Stages
\* What one request becomes, the others and the rows staying as they are.
ViewKept(v) ==
  /\ UNCHANGED <<offerVars, shopTurns>>
  /\ view' = [view EXCEPT ![v] = view'[v]] /\ view'[v] \in ViewRow \cup {NoView}
  /\ links' \subseteq [who: Viewers, medium: {"full", "preview"}]
  /\ kept' \in [seconds: {"none", "preview", "beyond"}, completed: BOOLEAN, favourite: BOOLEAN,
                followed: BOOLEAN]
  /\ ViewStands(v)'

LEMMA ViewsKeep ==
  ASSUME ViewingInv, NEW v \in Views, ViewKept(v)
  PROVE  ViewingInv'
<1>1. ViewingTypeOK'
  BY DEF ViewingInv, ViewingTypeOK, ViewKept, offerVars
<1>2. ASSUME NEW w \in Views PROVE ViewStands(w)'
  <2>1. CASE w = v
    BY <2>1 DEF ViewKept
  <2>2. CASE w # v
    <3>1. view'[w] = view[w] /\ ViewStands(w)
      BY <2>2 DEF ViewingInv, ViewingTypeOK, ViewKept
    <3> QED BY <3>1 DEF ViewKept, offerVars, ViewStands, StandsOpen, StandsTarget, StandsBasis, StandsAccess,
         StandsSigned, MayWatch, Reached, Standing
  <2> QED BY <2>1, <2>2
<1> QED BY <1>1, <1>2 DEF ViewingInv, ViewKept, offerVars

\* A request that ends, or goes on to what stands.
LEMMA ViewGoesOn ==
  ASSUME ViewingInv, NEW v \in Views, NEW from, NEW ok, NEW x, Proceed(v, from, ok, x),
         x \in ViewRow,
         links' \subseteq [who: Viewers, medium: {"full", "preview"}],
         kept' \in [seconds: {"none", "preview", "beyond"}, completed: BOOLEAN, favourite: BOOLEAN,
                   followed: BOOLEAN],
         ok /\ view'[v] = x => ViewStands(v)'
  PROVE  ViewKept(v)
<1>1. view' = [view EXCEPT ![v] = view'[v]] /\ view'[v] = IF ok THEN x ELSE NoView
  BY DEF Proceed, ViewingInv, ViewingTypeOK
<1>2. view'[v] \in ViewRow \cup {NoView}
  BY <1>1
<1>3. ViewStands(v)'
  BY <1>1 DEF ViewStands
<1> QED BY <1>1, <1>2, <1>3 DEF ViewKept, Proceed, OffersStay

LEMMA OpenViewKeeps ==
  ASSUME ViewingInv, NEW v \in Views, NEW who \in Viewers,
         NEW asks \in {"url", "track", "segment", "progress"}, NEW medium \in {"full", "preview"},
         OpenView(v, who, asks, medium)
  PROVE  ViewKept(v)
<1> DEFINE new == [NewView EXCEPT !.who = who, !.asks = asks, !.medium = medium]
<1>1. new \in ViewRow /\ new.step = "open" /\ new.who = who
  BY DEF NewView, ViewRow, Stages, Viewers
<1>2. view'[v] = new /\ view' = [view EXCEPT ![v] = view'[v]]
  BY DEF OpenView, ViewingInv, ViewingTypeOK
<1> HIDE DEF new
<1>3. view'[v] \in ViewRow /\ view'[v].step = "open" /\ view'[v].who = who
  BY <1>1, <1>2
<1>4. /\ links' \subseteq [who: Viewers, medium: {"full", "preview"}]
      /\ kept' \in [seconds: {"none", "preview", "beyond"}, completed: BOOLEAN, favourite: BOOLEAN,
                   followed: BOOLEAN]
  BY DEF ViewingInv, ViewingTypeOK, OpenView
<1>5. ViewStands(v)'
  BY <1>3 DEF OpenView, OffersStay, offerVars, ViewStands, StandsOpen, StandsTarget, StandsBasis,
       StandsAccess, StandsSigned, Reached, Stages, Standing
<1> QED BY <1>2, <1>3, <1>4, <1>5 DEF ViewKept, OpenView, OffersStay

\* The steps of a request, by what they make of it.
LEMMA StepsKeep ==
  ASSUME ViewingInv, NEW v \in Views,
         \/ ReadTarget(v) \/ ReadPrices(v) \/ LockDistribution(v) \/ DecideAccess(v)
         \/ IssueTrack(v) \/ ReadSegment(v)
  PROVE  ViewKept(v)
<1> USE DEF Stages
<1>t. view[v] # NoView => view[v] \in ViewRow /\ ViewStands(v)
  BY DEF ViewingInv, ViewingTypeOK
<1>l. UNCHANGED <<links, kept>> =>
        /\ links' \subseteq [who: Viewers, medium: {"full", "preview"}]
        /\ kept' \in [seconds: {"none", "preview", "beyond"}, completed: BOOLEAN, favourite: BOOLEAN,
                     followed: BOOLEAN]
  BY DEF ViewingInv, ViewingTypeOK
<1>1. CASE ReadTarget(v)
  <2> DEFINE x == [view[v] EXCEPT !.step = "target"]
  <2>1. Proceed(v, "open", TargetFound, x) /\ view[v] # NoView
    BY <1>1 DEF ReadTarget, Proceed
  <2>2. /\ x \in ViewRow /\ x.step = "target" /\ x.who = view[v].who
    BY <1>t, <2>1 DEF ViewRow
  <2> HIDE DEF x
  <2>3. ASSUME TargetFound, view'[v] = x PROVE ViewStands(v)'
    BY <1>t, <2>1, <2>2, <2>3 DEF Proceed, OffersStay, offerVars, TargetFound, ViewStands, StandsOpen,
         StandsTarget, StandsBasis, StandsAccess, StandsSigned, Reached, Standing
  <2> QED BY <1>1, <1>l, <2>1, <2>2, <2>3, ViewGoesOn DEF ReadTarget
<1>2. CASE ReadPrices(v)
  <2> DEFINE x == [view[v] EXCEPT !.step = "priced", !.priced = priced]
  <2>1. Proceed(v, "target", TRUE, x) /\ view[v] # NoView /\ view[v].step = "target"
    BY <1>2 DEF ReadPrices, Proceed
  <2>2. /\ x \in ViewRow /\ x.step = "priced" /\ x.who = view[v].who
    BY <1>t, <2>1 DEF ViewRow, ViewingInv, ViewingTypeOK
  <2> HIDE DEF x
  <2>3. ASSUME view'[v] = x PROVE ViewStands(v)'
    BY <1>t, <2>1, <2>2, <2>3 DEF Proceed, OffersStay, offerVars, ViewStands, StandsOpen,
         StandsTarget, StandsBasis, StandsAccess, StandsSigned, Reached, Standing
  <2> QED BY <1>2, <1>l, <2>1, <2>2, <2>3, ViewGoesOn DEF ReadPrices
<1>3. CASE LockDistribution(v)
  <2> DEFINE by == IF whose = "tenant" THEN "tenant" ELSE IF pool = "none" THEN "licence" ELSE "pool"
             good == whose = "platform" /\ pool = "unpublished"
             ok == whose = "platform" => Distributes({"published", "unpublished"})
             x == [view[v] EXCEPT !.step = "distributed", !.by = by, !.forGood = good]
  <2>1. Proceed(v, "priced", ok, x) /\ view[v] # NoView /\ view[v].step = "priced"
    BY <1>3 DEF LockDistribution, Proceed
  <2>a. by \in {"tenant", "licence", "pool"} /\ good \in BOOLEAN
    OBVIOUS
  <2>b. ok => \/ whose = "tenant" /\ ~good
              \/ by = "licence" /\ licensed /\ ~good
              \/ /\ by = "pool" /\ pool \in {"published", "unpublished"}
                 /\ good = (pool = "unpublished")
    BY DEF Distributes, ViewingInv, ViewingTypeOK
  <2> HIDE DEF by, good, ok
  <2>2. x \in ViewRow /\ x.step = "distributed" /\ x.who = view[v].who /\ x.by = by /\ x.forGood = good
    BY <1>t, <2>1, <2>a DEF ViewRow
  <2> HIDE DEF x
  <2>3. ASSUME ok, view'[v] = x PROVE ViewStands(v)'
    <3>1. StandsBasis(v)'
      BY <2>1, <2>2, <2>3, <2>b DEF Proceed, OffersStay, offerVars, StandsBasis
    <3> QED BY <1>t, <2>1, <2>2, <2>3, <3>1 DEF Proceed, OffersStay, offerVars, ViewStands, StandsOpen,
         StandsTarget, StandsAccess, StandsSigned, Reached, Standing
  <2> QED BY <1>3, <1>l, <2>1, <2>2, <2>3, ViewGoesOn DEF LockDistribution
<1>4. CASE DecideAccess(v)
  <2> DEFINE a == AccessFor(view[v].who, view[v].priced, view[v].forGood)
             x == [view[v] EXCEPT !.step = "decided", !.access = a]
  <2>1. Proceed(v, "distributed", TRUE, x) /\ view[v] # NoView /\ view[v].step = "distributed"
    BY <1>4 DEF DecideAccess, Proceed
  <2>a. a \in {"full", "preview", "locked"} /\ (a = "full" => MayWatch(v))
    BY <1>t, <2>1 DEF AccessFor, MayWatch, Entitling, ValidRights, ViewRow
  <2> HIDE DEF a
  <2>2. /\ x \in ViewRow /\ x.step = "decided" /\ x.who = view[v].who /\ x.by = view[v].by
        /\ x.forGood = view[v].forGood /\ x.priced = view[v].priced /\ x.access = a
    BY <1>t, <2>1, <2>a DEF ViewRow
  <2> HIDE DEF x
  <2>3. ASSUME view'[v] = x PROVE ViewStands(v)'
    BY <1>t, <2>1, <2>2, <2>a, <2>3 DEF Proceed, OffersStay, offerVars, ViewStands, StandsOpen,
         StandsTarget, StandsBasis, StandsAccess, StandsSigned, Reached, Standing, MayWatch
  <2> QED BY <1>4, <1>l, <2>1, <2>2, <2>3, ViewGoesOn DEF DecideAccess
<1>5. CASE IssueTrack(v)
  <2> DEFINE x == [view[v] EXCEPT !.step = "signed"]
             ok == view[v].access = "full" /\ chapter.track /\ supply
  <2>1. Proceed(v, "decided", ok, x) /\ view[v] # NoView /\ view[v].step = "decided"
    BY <1>5 DEF IssueTrack, Proceed
  <2>2. /\ x \in ViewRow /\ x.step = "signed" /\ x.who = view[v].who /\ x.by = view[v].by
        /\ x.forGood = view[v].forGood /\ x.priced = view[v].priced /\ x.access = view[v].access
    BY <1>t, <2>1 DEF ViewRow
  <2> HIDE DEF x
  <2>3. ASSUME ok, view'[v] = x PROVE ViewStands(v)'
    BY <1>t, <2>1, <2>2, <2>3 DEF Proceed, OffersStay, offerVars, ViewStands, StandsOpen,
         StandsTarget, StandsBasis, StandsAccess, StandsSigned, Reached, Standing, MayWatch
  <2> QED BY <1>5, <1>l, <2>1, <2>2, <2>3, ViewGoesOn DEF IssueTrack
<1>6. CASE ReadSegment(v)
  <2> DEFINE x == [view[v] EXCEPT !.step = "signed"]
             ok == /\ view[v].medium = "full" => view[v].access = "full"
                   /\ view[v].medium = "preview" => view[v].access = "preview" /\ chapter.preview = "clip"
                   /\ supply
  <2>1. Proceed(v, "decided", ok, x) /\ view[v] # NoView /\ view[v].step = "decided"
    BY <1>6 DEF ReadSegment, Proceed
  <2>2. /\ x \in ViewRow /\ x.step = "signed" /\ x.who = view[v].who /\ x.by = view[v].by
        /\ x.forGood = view[v].forGood /\ x.priced = view[v].priced /\ x.access = view[v].access
        /\ x.medium = view[v].medium
    BY <1>t, <2>1 DEF ViewRow
  <2> HIDE DEF x
  <2>3. ASSUME ok, view'[v] = x PROVE ViewStands(v)'
    BY <1>t, <2>1, <2>2, <2>3 DEF Proceed, OffersStay, offerVars, ViewStands, StandsOpen,
         StandsTarget, StandsBasis, StandsAccess, StandsSigned, Reached, Standing, MayWatch
  <2> QED BY <1>6, <1>l, <2>1, <2>2, <2>3, ViewGoesOn DEF ReadSegment
<1> QED BY <1>1, <1>2, <1>3, <1>4, <1>5, <1>6

LEMMA IssueUrlKeeps ==
  ASSUME ViewingInv, NEW v \in Views, IssueUrl(v)
  PROVE  ViewKept(v)
<1> USE DEF Stages
<1> DEFINE medium == IF view[v].access = "full" THEN "full" ELSE "preview"
           x  == [view[v] EXCEPT !.step = "signed", !.medium = medium]
           ok == /\ view[v].access # "locked" /\ supply
                 /\ view[v].access = "preview" => chapter.preview = "clip"
<1>1. /\ Proceed(v, "decided", ok, x) /\ view[v] # NoView /\ view[v].step = "decided"
      /\ links' = IF view'[v] = NoView THEN links
                  ELSE links \cup {[who |-> view[v].who, medium |-> medium]}
      /\ UNCHANGED kept
  BY DEF IssueUrl, Proceed
<1>t. view[v] \in ViewRow /\ ViewStands(v)
  BY <1>1 DEF ViewingInv, ViewingTypeOK
<1>a. medium \in {"full", "preview"} /\ (medium = "full" => view[v].access = "full")
  OBVIOUS
<1> HIDE DEF medium
<1>2. /\ x \in ViewRow /\ x.step = "signed" /\ x.who = view[v].who /\ x.by = view[v].by
      /\ x.forGood = view[v].forGood /\ x.priced = view[v].priced /\ x.access = view[v].access
      /\ x.medium = medium
  BY <1>t, <1>a DEF ViewRow
<1>3. /\ links' \subseteq [who: Viewers, medium: {"full", "preview"}]
      /\ kept' \in [seconds: {"none", "preview", "beyond"}, completed: BOOLEAN, favourite: BOOLEAN,
                   followed: BOOLEAN]
  BY <1>1, <1>t, <1>a DEF ViewingInv, ViewingTypeOK, ViewRow
<1> HIDE DEF x
<1>4. ASSUME ok, view'[v] = x PROVE ViewStands(v)'
  BY <1>t, <1>1, <1>2, <1>a, <1>4 DEF Proceed, OffersStay, offerVars, ViewStands, StandsOpen,
       StandsTarget, StandsBasis, StandsAccess, StandsSigned, Reached, Standing, MayWatch
<1> HIDE DEF ok
<1> QED BY <1>1, <1>2, <1>3, <1>4, ViewGoesOn

LEMMA ProgressKeeps ==
  ASSUME ViewingInv, NEW v \in Views, NEW seconds \in {"preview", "beyond"}, NEW completed \in BOOLEAN,
         UpsertProgress(v, seconds, completed)
  PROVE  ViewKept(v)
<1> USE DEF Stages
<1> DEFINE medium == IF view[v].access = "full" THEN "full" ELSE "preview"
           x  == [view[v] EXCEPT !.step = "signed", !.medium = medium]
           ok == /\ view[v].access # "locked"
                 /\ view[v].access = "preview" => seconds = "preview" /\ ~completed
<1>1. /\ Proceed(v, "decided", ok, x) /\ view[v] # NoView /\ view[v].step = "decided"
      /\ kept' = IF view'[v] = NoView THEN kept
                 ELSE [kept EXCEPT !.seconds = seconds, !.completed = completed]
      /\ UNCHANGED links /\ view[v].asks = "progress"
  BY DEF UpsertProgress, Proceed
<1>t. view[v] \in ViewRow /\ ViewStands(v)
  BY <1>1 DEF ViewingInv, ViewingTypeOK
<1>a. medium \in {"full", "preview"} /\ (medium = "full" => view[v].access = "full")
  OBVIOUS
<1> HIDE DEF medium
<1>2. /\ x \in ViewRow /\ x.step = "signed" /\ x.who = view[v].who /\ x.by = view[v].by
      /\ x.forGood = view[v].forGood /\ x.priced = view[v].priced /\ x.access = view[v].access
      /\ x.medium = medium /\ x.asks = "progress"
  BY <1>1, <1>t, <1>a DEF ViewRow
<1>3. /\ links' \subseteq [who: Viewers, medium: {"full", "preview"}]
      /\ kept' \in [seconds: {"none", "preview", "beyond"}, completed: BOOLEAN, favourite: BOOLEAN,
                   followed: BOOLEAN]
  BY <1>1 DEF ViewingInv, ViewingTypeOK
<1> HIDE DEF x
<1>4. ASSUME ok, view'[v] = x PROVE ViewStands(v)'
  BY <1>t, <1>1, <1>2, <1>a, <1>4 DEF Proceed, OffersStay, offerVars, ViewStands, StandsOpen,
       StandsTarget, StandsBasis, StandsAccess, StandsSigned, Reached, Standing, MayWatch
<1> HIDE DEF ok
<1> QED BY <1>1, <1>2, <1>3, <1>4, ViewGoesOn
\* What a row that no request holds says of each request.
LEMMA Unlocked ==
  ASSUME ViewingInv, NEW v \in Views, view[v] # NoView
  PROVE  /\ ~UnlockedRow("site")
         /\ UnlockedRow("account") => view[v].who # "customer"
         /\ UnlockedRow("title") \/ UnlockedRow("chapter") => ~Reached(v, "target")
         /\ UnlockedRow("pool") => ~(Reached(v, "distributed") /\ view[v].by = "pool")
         /\ UnlockedRow("licence") => ~(Reached(v, "distributed") /\ view[v].by = "licence")
         /\ UnlockedRow("rights") =>
              ~(Reached(v, "decided") /\ view[v].who = "customer" /\ (view[v].priced \/ view[v].forGood))
         /\ UnlockedRow("supply") => ~Reached(v, "signed")
BY Progress DEF ViewingInv, UnlockedRow, ViewLocks

LEMMA OthersKeep == ViewingInv /\ OthersNext => ViewingInv'
<1> SUFFICES ASSUME ViewingInv, OthersNext PROVE ViewingInv'
  OBVIOUS
<1> USE ViewingAssumption
<1>t. /\ shop \in [open: BOOLEAN, account: BOOLEAN, region: BOOLEAN]
      /\ drama \in [published: BOOLEAN, takenDown: BOOLEAN, due: {"now", "over"}]
      /\ chapter \in [published: BOOLEAN, due: {"now", "over"}, ready: BOOLEAN,
                      preview: {"none", "seconds", "clip"}, track: BOOLEAN]
      /\ pool \in {"none", "approved", "published", "unpublished"}
      /\ whose \in {"tenant", "platform"} /\ {licensed, priced, supply} \subseteq BOOLEAN
      /\ lapsed \subseteq held /\ held \subseteq {"membership", "rental", "forever"}
      /\ "forever" \notin lapsed
  BY DEF ViewingInv, ViewingTypeOK
<1>c. \E row \in {"site", "account", "region", "title", "chapter", "insert", "pool", "licence", "price",
                  "rights", "supply", "time"} : Changes(row)
  BY DEF OthersNext, TurnStanding, TurnRegion, TurnLicence, TurnPrice, TurnSupply, TimeRuns, TurnDrama,
       TurnChapter, TurnPool, TurnRight
<1>u. UNCHANGED <<whose, view, links, kept>> /\ shopTurns' \in 0 .. MaxShopTurns
  <2>1. shopTurns \in 0 .. MaxShopTurns
    BY DEF ViewingInv, ViewingTypeOK
  <2> QED BY <1>c, <2>1 DEF Changes
\* The rows stay rows.
<1>1. /\ shop' \in [open: BOOLEAN, account: BOOLEAN, region: BOOLEAN]
      /\ drama' \in [published: BOOLEAN, takenDown: BOOLEAN, due: {"now", "over"}]
  BY ZenonT(60), <1>t
  DEF OthersNext, TurnStanding, TurnRegion, TurnLicence, TurnPrice, TurnSupply, TimeRuns, TurnDrama,
       TurnChapter, TurnPool, TurnRight
<1>2. chapter' \in [published: BOOLEAN, due: {"now", "over"}, ready: BOOLEAN,
                   preview: {"none", "seconds", "clip"}, track: BOOLEAN]
  BY ZenonT(60), <1>t
  DEF OthersNext, TurnStanding, TurnRegion, TurnLicence, TurnPrice, TurnSupply, TimeRuns, TurnDrama,
       TurnChapter, TurnPool, TurnRight
<1>3. /\ pool' \in {"none", "approved", "published", "unpublished"}
      /\ pool' # "none" => whose = "platform"
      /\ {licensed', priced', supply'} \subseteq BOOLEAN
  BY <1>t DEF OthersNext, TurnStanding, TurnRegion, TurnLicence, TurnPrice, TurnSupply, TimeRuns, TurnDrama,
       TurnChapter, TurnPool, TurnRight, ViewingInv
<1>4. /\ lapsed' \subseteq held' /\ held' \subseteq {"membership", "rental", "forever"}
      /\ "forever" \notin lapsed'
  <2>1. CASE \E r \in {"membership", "rental", "forever"} : TurnRight(r)
    BY <1>t, <2>1 DEF TurnRight
  <2>2. CASE TimeRuns
    BY <1>t, <2>2 DEF TimeRuns
  <2> QED BY <1>t, <2>1, <2>2 DEF OthersNext, TurnStanding, TurnRegion, TurnLicence, TurnPrice, TurnSupply,
       TurnDrama, TurnChapter, TurnPool
<1>5. ViewingTypeOK'
  BY <1>t, <1>u, <1>1, <1>2, <1>3, <1>4 DEF ViewingTypeOK, ViewingInv
\* What a request has read stands.
<1>6. ASSUME NEW v \in Views, view[v] # NoView PROVE ViewStands(v)'
  <2>0. /\ ViewStands(v) /\ view'[v] = view[v]
        /\ \A stage : Reached(v, stage)' <=> Reached(v, stage)
    BY <1>u DEF ViewingInv, Reached
  <2>1. StandsOpen(v)'
    BY ZenonT(60), <1>6, <1>t, <1>u, <2>0, Unlocked
    DEF ViewStands, StandsOpen, Standing, OthersNext, TurnStanding,
         TurnRegion, TurnLicence, TurnPrice, TurnSupply, TimeRuns, TurnDrama, TurnChapter, TurnPool,
         TurnRight, Changes
  <2>2. StandsTarget(v)'
    BY <1>6, <1>t, <1>u, <2>0, Unlocked DEF ViewStands, StandsTarget, OthersNext, TurnStanding,
         TurnRegion, TurnLicence, TurnPrice, TurnSupply, TimeRuns, TurnDrama, TurnChapter, TurnPool,
         TurnRight, Changes
  <2>3. StandsBasis(v)'
    BY <1>6, <1>t, <1>u, <2>0, Unlocked DEF ViewStands, StandsBasis, OthersNext, TurnStanding,
         TurnRegion, TurnLicence, TurnPrice, TurnSupply, TimeRuns, TurnDrama, TurnChapter, TurnPool,
         TurnRight, Changes
  <2>4. StandsAccess(v)'
    <3>1. held' = held \/ \E r \in {"membership", "rental", "forever"} : TurnRight(r)
      BY DEF OthersNext, TurnStanding, TurnRegion, TurnLicence, TurnPrice, TurnSupply, TimeRuns, TurnDrama,
           TurnChapter, TurnPool
    <3>2. ASSUME NEW r \in {"membership", "rental", "forever"}, TurnRight(r)
          PROVE  held \subseteq held' \/ UnlockedRow("rights")
      BY <3>2 DEF TurnRight, Changes
    <3>3. held \subseteq held' \/ UnlockedRow("rights")
      BY <3>1, <3>2
    <3>4. CASE held \subseteq held'
      BY <1>u, <2>0, <3>4, <1>6 DEF ViewStands, StandsAccess, MayWatch
    <3>5. CASE UnlockedRow("rights")
      BY <1>6, <1>u, <2>0, <3>5, Unlocked DEF ViewStands, StandsAccess, MayWatch
    <3> QED BY <3>3, <3>4, <3>5
  <2>5. StandsSigned(v)'
    BY <1>6, <1>t, <1>u, <2>0, Unlocked DEF ViewStands, StandsSigned, OthersNext, TurnStanding,
         TurnRegion, TurnLicence, TurnPrice, TurnSupply, TimeRuns, TurnDrama, TurnChapter, TurnPool,
         TurnRight, Changes
  <2> QED BY <2>1, <2>2, <2>3, <2>4, <2>5 DEF ViewStands
<1> QED BY <1>u, <1>3, <1>4, <1>5, <1>6 DEF ViewingInv, ViewStands

LEMMA ViewingInvKept == ViewingInv /\ [ViewingNext]_viewingVars => ViewingInv'
<1> SUFFICES ASSUME ViewingInv, [ViewingNext]_viewingVars PROVE ViewingInv'
  OBVIOUS
<1>1. ASSUME NEW v \in Views,
             \/ \E who \in Viewers, asks \in {"url", "track", "segment", "progress"},
                  medium \in {"full", "preview"} : OpenView(v, who, asks, medium)
             \/ ReadTarget(v) \/ ReadPrices(v) \/ LockDistribution(v) \/ DecideAccess(v)
             \/ IssueUrl(v) \/ IssueTrack(v) \/ ReadSegment(v)
             \/ \E seconds \in {"preview", "beyond"}, completed \in BOOLEAN :
                  UpsertProgress(v, seconds, completed)
      PROVE  ViewingInv'
  <2>1. ViewKept(v)
    BY <1>1, OpenViewKeeps, StepsKeep, IssueUrlKeeps, ProgressKeeps
  <2> QED BY <2>1, ViewsKeep
<1>2. ASSUME NEW v \in Views, EndView(v) PROVE ViewingInv'
  <2>1. ViewKept(v)
    BY <1>2 DEF EndView, OffersStay, ViewKept, ViewStands, ViewingInv, ViewingTypeOK
  <2> QED BY <2>1, ViewsKeep
\* Streams end, and a customer keeps this and that.
<1>3. ASSUME UNCHANGED <<offerVars, shopTurns, view>>, links' \subseteq links,
             kept' \in [seconds: {"none", "preview", "beyond"}, completed: BOOLEAN, favourite: BOOLEAN,
                       followed: BOOLEAN]
      PROVE  ViewingInv'
  <2>1. ViewingTypeOK'
    BY <1>3 DEF ViewingInv, ViewingTypeOK, offerVars
  <2>2. \A v \in Views : ViewStands(v)'
    BY <1>3 DEF ViewingInv, offerVars, ViewStands, StandsOpen, StandsTarget, StandsBasis, StandsAccess,
         StandsSigned, MayWatch, Reached, Standing
  <2> QED BY <1>3, <2>1, <2>2 DEF ViewingInv, offerVars
<1>4. kept \in [seconds: {"none", "preview", "beyond"}, completed: BOOLEAN, favourite: BOOLEAN,
               followed: BOOLEAN]
  BY DEF ViewingInv, ViewingTypeOK
<1>5. ASSUME NEW l \in links, LinkEnds(l) PROVE ViewingInv'
  BY <1>3, <1>4, <1>5 DEF LinkEnds, OffersStay
<1>6. ASSUME AddFavorite \/ RemoveFavorite \/ \E followed \in BOOLEAN : SetFollowing(followed)
      PROVE  ViewingInv'
  BY <1>3, <1>4, <1>6 DEF AddFavorite, RemoveFavorite, SetFollowing, Shelve, OffersStay
<1>7. CASE UNCHANGED viewingVars
  BY <1>3, <1>4, <1>7 DEF viewingVars
<1>8. CASE OthersNext
  BY <1>8, OthersKeep
<1> QED BY <1>1, <1>2, <1>5, <1>6, <1>7, <1>8 DEF ViewingNext, ViewNext

\* Nothing is signed, sent or booked that the rows do not allow at that moment, and the
\* catalogue, the page and the player agree about what may be watched.
THEOREM ViewsAllowed == ViewingSpec => []ViewsAreAllowed
<1>1. ASSUME ViewingInv PROVE SignedIsAllowed
  <2> SUFFICES ASSUME NEW v \in Views, view[v] # NoView, view[v].step = "signed"
               PROVE  /\ Standing(view[v].who)
                      /\ drama.published /\ ~drama.takenDown /\ chapter.published /\ chapter.ready
                      /\ view[v].asks # "progress" => supply
                      /\ whose = "platform" => licensed \/ pool \in {"published", "unpublished"}
                      /\ view[v].medium = "full" => MayWatch(v)
    BY DEF SignedIsAllowed, MayWatch
  <2> QED BY <1>1, Progress DEF ViewingInv, ViewStands, StandsOpen, StandsTarget, StandsBasis,
       StandsAccess, StandsSigned
<1>2. ASSUME ViewingInv PROVE ShownIsPlayable
  <2> SUFFICES ASSUME NEW who \in Viewers, Standing(who)
               PROVE  /\ Displayed => PageOpens(who) /\ CoverShown
                      /\ PageLists(who) => TargetFound /\ (whose = "platform" => Distributes({"published", "unpublished"}))
                      /\ PageLists(who) /\ who = "customer" /\ "forever" \in held =>
                           AccessFor(who, priced, whose = "platform" /\ pool = "unpublished") = "full"
    BY DEF ShownIsPlayable
  <2>t. pool \in {"none", "approved", "published", "unpublished"} /\ "forever" \notin lapsed
    BY <1>2 DEF ViewingInv, ViewingTypeOK
  <2>1. Displayed => PageOpens(who) /\ CoverShown
    BY <2>t DEF Displayed, PageOpens, CoverShown, OnOffer, Distributes, Standing
  <2>2. PageLists(who) => TargetFound /\ (whose = "platform" => Distributes({"published", "unpublished"}))
    BY <2>t DEF PageLists, PageOpens, TargetFound, OnOffer, Distributes, MayHandle
  <2>3. who = "customer" /\ "forever" \in held =>
          AccessFor(who, priced, whose = "platform" /\ pool = "unpublished") = "full"
    BY <2>t DEF AccessFor, Entitling, ValidRights
  <2> QED BY <2>1, <2>2, <2>3
<1>3. ViewingInv => ViewsAreAllowed
  BY <1>1, <1>2 DEF ViewsAreAllowed
<1> QED BY <1>3, ViewingInitially, ViewingInvKept, PTL DEF ViewingSpec

\* The rows a viewer's request reads, and the requests, stay what the schema allows.
THEOREM ViewingTyped == ViewingSpec => []ViewingTypeOK
<1>1. ViewingInv => ViewingTypeOK
  BY DEF ViewingInv
<1> QED BY <1>1, ViewingInitially, ViewingInvKept, PTL DEF ViewingSpec

-----------------------------------------------------------------------------
(* Moderation: the decisions recorded about a row explain it.            *)

\* Nothing was decided about a row before it is written.
UndecidedUnwritten == \A p \in Posts : post[p] = NoPost => decisions[p] = <<>>

\* What is said of one row.
StatusIsTold(p) ==
  LET d == decisions[p]
      StatusBefore(i) == IF i = 1 THEN FirstStatus(p) ELSE d[i - 1].after
      left == IF d = <<>> THEN FirstStatus(p) ELSE d[Len(d)].after
  IN /\ post[p].status = left \/ (post[p].status = "deleted" /\ post[p].deletedBy = "user")
     /\ \A i \in DOMAIN d :
          /\ d[i].before \in {StatusBefore(i), "deleted"}
          /\ d[i].before = "deleted" => d[i].action = "restore"
     /\ post[p].restored = Cardinality({i \in DOMAIN d : d[i].action = "restore"})

ModerationInv ==
  CommunityTypeOK /\ UndecidedUnwritten /\ \A p \in Posts : post[p] # NoPost => StatusIsTold(p)

LEMMA ModerationInitially == CommunityInit => ModerationInv
<1> SUFFICES ASSUME CommunityInit PROVE ModerationInv
  OBVIOUS
<1>1. <<>> \in Seq(Decision)
  OBVIOUS
<1>2. CommunityTypeOK
  BY <1>1 DEF CommunityInit, CommunityTypeOK, ReportStatus
<1> QED BY <1>2 DEF CommunityInit, ModerationInv, UndecidedUnwritten

\* A row's decisions when one more is recorded: the others keep their places.
LEMMA DecisionRecorded ==
  ASSUME NEW d \in Seq(Decision), NEW x \in Decision
  PROVE  /\ Len(Append(d, x)) = Len(d) + 1
         /\ DOMAIN Append(d, x) = 1 .. Len(d) + 1
         /\ DOMAIN d = 1 .. Len(d)
         /\ Append(d, x) # <<>>
         /\ Append(d, x)[Len(d) + 1] = x
         /\ \A i \in 1 .. Len(d) : Append(d, x)[i] = d[i]
<1>1. Len(d) \in Nat /\ DOMAIN d = 1 .. Len(d)
  OBVIOUS
<1>2. Len(Append(d, x)) = Len(d) + 1 /\ DOMAIN Append(d, x) = 1 .. Len(d) + 1
  OBVIOUS
<1>3. Append(d, x) # <<>>
  BY <1>1, <1>2
<1>4. Append(d, x)[Len(d) + 1] = x
  BY <1>1
<1>5. \A i \in 1 .. Len(d) : Append(d, x)[i] = d[i]
  BY <1>1
<1> QED BY <1>1, <1>2, <1>3, <1>4, <1>5

\* The restorations of a row, counted when one more decision is recorded.
LEMMA RestorationsCounted ==
  ASSUME NEW d \in Seq(Decision), NEW x \in Decision
  PROVE  Cardinality({i \in DOMAIN Append(d, x) : Append(d, x)[i].action = "restore"})
           = Cardinality({i \in DOMAIN d : d[i].action = "restore"})
             + (IF x.action = "restore" THEN 1 ELSE 0)
<1> DEFINE S == {i \in DOMAIN d : d[i].action = "restore"}
           T == {i \in DOMAIN Append(d, x) : Append(d, x)[i].action = "restore"}
<1>1. IsFiniteSet(S) /\ Len(d) \in Nat
  <2>1. IsFiniteSet(1 .. Len(d))
    BY FS_Interval
  <2> QED BY <2>1, FS_Subset
<1>2. T = IF x.action = "restore" THEN S \cup {Len(d) + 1} ELSE S
  OBVIOUS
<1>3. Len(d) + 1 \notin S
  BY <1>1
<1>4. Cardinality(S) \in Nat
  BY <1>1, FS_CardinalityType
<1>5. x.action = "restore" => Cardinality(S \cup {Len(d) + 1}) = Cardinality(S) + 1
  BY <1>1, <1>3, FS_AddElement
<1> HIDE DEF S, T
<1>6. Cardinality(T) = Cardinality(S) + (IF x.action = "restore" THEN 1 ELSE 0)
  BY <1>2, <1>4, <1>5
<1> QED BY <1>6 DEF S, T

\* Steps that leave rows and decisions, and those that do nothing but delete a row of
\* its author's.
LEMMA RowsStay ==
  ASSUME ModerationInv, CommunityTypeOK', UNCHANGED <<post, decisions>>
  PROVE  ModerationInv'
  BY DEF ModerationInv, UndecidedUnwritten, StatusIsTold, FirstStatus

\* The ways a row changes, and what stays of it.
LEMMA RowChanges ==
  ASSUME NEW r \in PostRow, NEW to \in PostStatus, NEW by \in {"user", "staff"}
  PROVE  LET gone  == [r EXCEPT !.status = "deleted", !.deletedBy = by]
             back  == [r EXCEPT !.status = "hidden", !.deletedBy = "nobody", !.restored = 1]
             moved == [r EXCEPT !.status = to]
         IN  /\ gone \in PostRow /\ gone.status = "deleted" /\ gone.deletedBy = by
             /\ gone.matched = r.matched /\ gone.restored = r.restored
             /\ back \in PostRow /\ back.status = "hidden"
             /\ back.matched = r.matched /\ back.restored = 1
             /\ moved \in PostRow /\ moved.status = to
             /\ moved.matched = r.matched /\ moved.restored = r.restored
<1>1. LET gone == [r EXCEPT !.status = "deleted", !.deletedBy = by] IN gone \in PostRow
  BY DEF PostRow, PostStatus
<1>2. LET gone == [r EXCEPT !.status = "deleted", !.deletedBy = by]
      IN  /\ gone.status = "deleted" /\ gone.deletedBy = by
          /\ gone.matched = r.matched /\ gone.restored = r.restored
  BY DEF PostRow, PostStatus
<1>3. LET back == [r EXCEPT !.status = "hidden", !.deletedBy = "nobody", !.restored = 1]
      IN  back \in PostRow
  BY DEF PostRow, PostStatus
<1>4. LET back == [r EXCEPT !.status = "hidden", !.deletedBy = "nobody", !.restored = 1]
      IN  back.status = "hidden" /\ back.matched = r.matched /\ back.restored = 1
  BY DEF PostRow, PostStatus
<1>5. LET moved == [r EXCEPT !.status = to]
      IN  /\ moved \in PostRow /\ moved.status = to
          /\ moved.matched = r.matched /\ moved.restored = r.restored
  BY DEF PostRow, PostStatus
<1> QED BY <1>1, <1>2, <1>3, <1>4, <1>5

\* What a decision does to the row, and to the decisions about it.
DecisionMade(p, action, after) ==
  /\ post[p] \in PostRow /\ post'[p] \in PostRow /\ post'[p].status = after
  /\ post'[p].matched = post[p].matched
  /\ post'[p].restored = IF action = "restore" THEN 1 ELSE post[p].restored
  /\ action = "restore" => post[p].restored = 0
  /\ action = "restore" <=> post[p].status = "deleted"
  /\ post' \in [Posts -> PostRow \cup {NoPost}] /\ restoreOver' \subseteq Posts
  /\ \A q \in Posts \ {p} : post'[q] = post[q]
  /\ decisions' = [decisions EXCEPT ![p] =
       Append(@, [action |-> action, before |-> post[p].status, after |-> after])]
  /\ UNCHANGED <<welcome, watchable, sensitive, reported, likes, feedback, replies>>

LEMMA DecisionOfRow ==
  ASSUME CommunityTypeOK, NEW p \in Posts,
         NEW action \in {"approve", "hide", "delete", "restore"}, Moderate(p, action)
  PROVE  \E after \in PostStatus : DecisionMade(p, action, after)
<1>0. post \in [Posts -> PostRow \cup {NoPost}] /\ restoreOver \subseteq Posts
  BY DEF CommunityTypeOK
<1>1. post[p] \in PostRow
  BY <1>0 DEF Moderate
<1>2. PICK after \in ModerationTransition(action, post[p].status) :
        /\ CASE action = "delete"  -> Deleted(p, "staff")
             [] action = "restore" -> Restored(p)
             [] OTHER -> /\ post' = [post EXCEPT ![p] = [@ EXCEPT !.status = after]]
                         /\ UNCHANGED restoreOver
        /\ decisions' = [decisions EXCEPT ![p] =
             Append(@, [action |-> action, before |-> post[p].status, after |-> after])]
  BY DEF Moderate
<1>3. /\ after \in PostStatus /\ (action = "restore" <=> post[p].status = "deleted")
      /\ action = "delete" => after = "deleted"
      /\ action = "restore" => after = "hidden"
  BY <1>1, <1>2 DEF ModerationTransition, PostStatus, PostRow
<1>4. /\ post'[p] \in PostRow /\ post'[p].status = after
      /\ post'[p].matched = post[p].matched
      /\ post'[p].restored = IF action = "restore" THEN 1 ELSE post[p].restored
      /\ action = "restore" => post[p].restored = 0
      /\ post' \in [Posts -> PostRow \cup {NoPost}] /\ restoreOver' \subseteq Posts
      /\ \A q \in Posts \ {p} : post'[q] = post[q]
  <2>1. CASE action = "delete"
    <3> DEFINE row == [post[p] EXCEPT !.status = "deleted", !.deletedBy = "staff"]
    <3>1. /\ row \in PostRow /\ row.status = "deleted"
          /\ row.matched = post[p].matched /\ row.restored = post[p].restored
      BY <1>1, RowChanges DEF PostStatus
    <3>2. post' = [post EXCEPT ![p] = row] /\ restoreOver' = restoreOver \ {p}
      BY <1>2, <2>1 DEF Deleted
    <3> HIDE DEF row
    <3> QED BY <1>0, <1>3, <2>1, <3>1, <3>2
  <2>2. CASE action = "restore"
    <3> DEFINE row == [post[p] EXCEPT !.status = "hidden", !.deletedBy = "nobody", !.restored = 1]
    <3>1. /\ row \in PostRow /\ row.status = "hidden"
          /\ row.matched = post[p].matched /\ row.restored = 1
      BY <1>1, RowChanges DEF PostStatus
    <3>2. post' = [post EXCEPT ![p] = row] /\ restoreOver' = restoreOver /\ post[p].restored = 0
      BY <1>2, <2>2 DEF Restored
    <3> HIDE DEF row
    <3> QED BY <1>0, <1>3, <2>2, <3>1, <3>2
  <2>3. CASE action \in {"approve", "hide"}
    <3> DEFINE row == [post[p] EXCEPT !.status = after]
    <3>1. /\ row \in PostRow /\ row.status = after
          /\ row.matched = post[p].matched /\ row.restored = post[p].restored
      BY <1>1, <1>3, RowChanges
    <3>2. post' = [post EXCEPT ![p] = row] /\ restoreOver' = restoreOver
      BY <1>2, <2>3
    <3> HIDE DEF row
    <3> QED BY <1>0, <1>3, <2>3, <3>1, <3>2
  <2> QED BY <2>1, <2>2, <2>3
<1>5. UNCHANGED <<welcome, watchable, sensitive, reported, likes, feedback, replies>>
  BY DEF Moderate
<1> QED BY <1>1, <1>2, <1>3, <1>4, <1>5 DEF DecisionMade

LEMMA CommunityTypes ==
  ASSUME CommunityTypeOK, CommunityNext PROVE CommunityTypeOK'
<1> USE NoPostAssumption DEF CommunityTypeOK
<1>1. CASE PublicationChanges \/ CreateSensitiveWord \/ DisableSensitiveWord
  BY <1>1 DEF PublicationChanges, CreateSensitiveWord, DisableSensitiveWord, postVars
<1>2. ASSUME NEW a \in Authors, NEW liked \in BOOLEAN, SetDramaLike(a, liked)
      PROVE  CommunityTypeOK'
  BY <1>2 DEF SetDramaLike, postVars
<1>10. ASSUME NEW a \in Authors, SiteOrAccountChanges(a) PROVE CommunityTypeOK'
  BY <1>10 DEF SiteOrAccountChanges, postVars
<1>8. ASSUME NEW a \in Authors, SendFeedback(a) PROVE CommunityTypeOK'
  BY <1>8 DEF SendFeedback, postVars
<1>9. ASSUME NEW a \in Authors, ReplyFeedback(a) PROVE CommunityTypeOK'
  BY <1>9 DEF ReplyFeedback, postVars
<1>3. ASSUME NEW a \in Authors, NEW p \in Posts, DeleteOwnInteraction(a, p)
      PROVE  CommunityTypeOK'
  <2>1. post[p] \in PostRow
    BY <1>3 DEF DeleteOwnInteraction
  <2>2. [post[p] EXCEPT !.status = "deleted", !.deletedBy = "user"] \in PostRow
    BY <2>1, RowChanges DEF PostStatus
  <2> QED BY <1>3, <2>2 DEF DeleteOwnInteraction, Deleted
<1>4. ASSUME NEW a \in Authors, NEW p \in Posts, CreateReport(a, p) PROVE CommunityTypeOK'
  BY <1>4 DEF CreateReport, ReportStatus, postVars
<1>11. ASSUME NEW a \in Authors, NEW p \in Posts, NEW result \in {"resolved", "rejected"},
              ReviewReport(a, p, result)
       PROVE  CommunityTypeOK'
  BY <1>11 DEF ReviewReport, ReportStatus, postVars
<1>0. \A a \in Authors, k \in {"comment", "bullet_comment"}, q \in Posts \cup {NoPost},
         foul \in BOOLEAN : Inserted(a, k, q, foul) \in PostRow
  BY DEF Inserted, PostRow, PostStatus, MatchSensitiveWords
<1>5. ASSUME NEW a \in Authors, NEW p \in Posts, NEW foul \in BOOLEAN,
             NEW parent \in Posts \cup {NoPost}, CreateComment(a, p, parent, foul)
      PROVE  CommunityTypeOK'
  <2>1. Inserted(a, "comment", parent, foul) \in PostRow
    BY <1>0
  <2> QED BY <1>5, <2>1 DEF CreateComment
<1>12. ASSUME NEW a \in Authors, NEW p \in Posts, NEW foul \in BOOLEAN,
              CreateBulletComment(a, p, foul)
       PROVE  CommunityTypeOK'
  <2>1. Inserted(a, "bullet_comment", NoPost, foul) \in PostRow
    BY <1>0
  <2> QED BY <1>12, <2>1 DEF CreateBulletComment
<1>6. ASSUME NEW p \in Posts, RestoreWindowCloses(p) PROVE CommunityTypeOK'
  BY <1>6 DEF RestoreWindowCloses
<1>7. ASSUME NEW p \in Posts, NEW action \in {"approve", "hide", "delete", "restore"},
             Moderate(p, action)
      PROVE  CommunityTypeOK'
  <2>0. PICK after \in PostStatus : DecisionMade(p, action, after)
    BY <1>7, DecisionOfRow
  <2>1. /\ post[p] \in PostRow
        /\ post' \in [Posts -> PostRow \cup {NoPost}] /\ restoreOver' \subseteq Posts
        /\ decisions' = [decisions EXCEPT ![p] =
             Append(@, [action |-> action, before |-> post[p].status, after |-> after])]
        /\ UNCHANGED <<welcome, watchable, sensitive, reported, likes, feedback, replies>>
    BY <2>0 DEF DecisionMade
  <2>2. [action |-> action, before |-> post[p].status, after |-> after] \in Decision
    BY <2>1 DEF Decision, PostRow
  <2>3. decisions' \in [Posts -> Seq(Decision)]
    BY <2>1, <2>2
  <2> QED BY <2>1, <2>3
<1> HIDE DEF CommunityTypeOK
<1> QED BY <1>1, <1>2, <1>3, <1>4, <1>5, <1>6, <1>7, <1>8, <1>9, <1>10, <1>11, <1>12
    DEF CommunityNext

LEMMA DecisionStep ==
  ASSUME ModerationInv, NEW p \in Posts,
         NEW action \in {"approve", "hide", "delete", "restore"}, Moderate(p, action)
  PROVE  ModerationInv'
<1> USE DEF ModerationInv
<1>1. CommunityTypeOK' /\ post[p] # NoPost /\ StatusIsTold(p)
  BY CommunityTypes DEF CommunityNext, Moderate
<1>0. PICK after \in PostStatus : DecisionMade(p, action, after)
  BY DecisionOfRow
<1>2. /\ post[p] \in PostRow /\ post'[p] \in PostRow /\ post'[p].status = after
      /\ post'[p].matched = post[p].matched
      /\ post'[p].restored = IF action = "restore" THEN 1 ELSE post[p].restored
      /\ action = "restore" => post[p].restored = 0
      /\ action = "restore" <=> post[p].status = "deleted"
      /\ \A q \in Posts \ {p} : post'[q] = post[q]
      /\ decisions' = [decisions EXCEPT ![p] =
             Append(@, [action |-> action, before |-> post[p].status, after |-> after])]
  BY <1>0 DEF DecisionMade
<1> DEFINE d == decisions[p]
           x == [action |-> action, before |-> post[p].status, after |-> after]
<1>3. /\ decisions \in [Posts -> Seq(Decision)] /\ d \in Seq(Decision) /\ Len(d) \in Nat
      /\ decisions'[p] = Append(d, x)
      /\ \A q \in Posts \ {p} : decisions'[q] = decisions[q]
  BY <1>2 DEF CommunityTypeOK
<1>4. x \in Decision /\ x.action = action /\ x.before = post[p].status /\ x.after = after
  BY <1>2 DEF Decision, PostRow
<1> HIDE DEF x
<1>5. UndecidedUnwritten'
  BY <1>1, <1>2, <1>3, NoPostAssumption DEF UndecidedUnwritten
<1>6. ASSUME NEW q \in Posts, q # p, post'[q] # NoPost PROVE StatusIsTold(q)'
  <2>1. StatusIsTold(q) /\ post'[q] = post[q] /\ decisions'[q] = decisions[q]
    BY <1>2, <1>3, <1>6
  <2> QED BY <2>1 DEF StatusIsTold, FirstStatus
<1>7. StatusIsTold(p)'
  <2> DEFINE e == Append(d, x)
  <2>1. /\ Len(e) = Len(d) + 1 /\ DOMAIN e = 1 .. Len(d) + 1 /\ DOMAIN d = 1 .. Len(d)
        /\ e # <<>> /\ e[Len(e)] = x
        /\ \A i \in 1 .. Len(d) : e[i] = d[i]
    <3>1. d \in Seq(Decision) /\ x \in Decision
      BY <1>3, <1>4
    <3> HIDE DEF d
    <3> QED BY <3>1, DecisionRecorded
  <2>2. FirstStatus(p)' = FirstStatus(p)
    BY <1>2 DEF FirstStatus
  <2>3. post'[p].status = e[Len(e)].after
    BY <1>2, <1>4, <2>1
  <2>4. post'[p].restored = Cardinality({i \in DOMAIN e : e[i].action = "restore"})
    <3>1. post[p].restored = Cardinality({i \in DOMAIN d : d[i].action = "restore"})
      BY <1>1 DEF StatusIsTold
    <3>2. Cardinality({i \in DOMAIN e : e[i].action = "restore"})
            = Cardinality({i \in DOMAIN d : d[i].action = "restore"})
              + (IF x.action = "restore" THEN 1 ELSE 0)
      BY <1>3, <1>4, RestorationsCounted
    <3>3. post[p].restored \in {0, 1}
      BY <1>2 DEF PostRow
    <3>4. post'[p].restored = post[p].restored + (IF x.action = "restore" THEN 1 ELSE 0)
      BY <1>2, <1>4, <3>3
    <3> HIDE DEF d, e
    <3> QED BY <3>1, <3>2, <3>4
  <2>5. ASSUME NEW i \in DOMAIN e
        PROVE  /\ e[i].before \in {IF i = 1 THEN FirstStatus(p) ELSE e[i - 1].after, "deleted"}
               /\ e[i].before = "deleted" => e[i].action = "restore"
    <3> DEFINE StatusBefore(f, j) == IF j = 1 THEN FirstStatus(p) ELSE f[j - 1].after
    <3>1. CASE i = Len(d) + 1
      <4>1. x.before = "deleted"
            \/ x.before = (IF d = <<>> THEN FirstStatus(p) ELSE d[Len(d)].after)
        BY <1>1, <1>4 DEF StatusIsTold
      <4>2. d = <<>> <=> Len(d) = 0
        BY <1>3
      <4>3. e[i] = x /\ (Len(d) # 0 => e[i - 1] = d[Len(d)])
        <5>1. i = Len(e) /\ (Len(d) # 0 => i - 1 \in 1 .. Len(d) /\ i - 1 = Len(d))
          BY <1>3, <2>1, <3>1
        <5> HIDE DEF d, e
        <5> QED BY <2>1, <5>1
      <4>4. x.before = "deleted" => x.action = "restore"
        BY <1>2, <1>4
      <4> HIDE DEF e
      <4> QED BY <1>3, <3>1, <4>1, <4>2, <4>3, <4>4
    <3>2. CASE i \in 1 .. Len(d)
      <4>1. /\ d[i].before \in {StatusBefore(d, i), "deleted"}
            /\ d[i].before = "deleted" => d[i].action = "restore"
        BY <1>1, <2>1, <3>2 DEF StatusIsTold
      <4>2. e[i] = d[i] /\ (i # 1 => e[i - 1] = d[i - 1])
        BY <1>3, <2>1, <3>2
      <4> HIDE DEF e
      <4> QED BY <4>1, <4>2
    <3> QED BY <1>3, <2>1, <3>1, <3>2
  <2> HIDE DEF e
  <2>6. decisions'[p] = e
    BY <1>3 DEF e
  <2> QED BY <2>1, <2>2, <2>3, <2>4, <2>5, <2>6 DEF StatusIsTold
<1> QED BY <1>1, <1>5, <1>6, <1>7

LEMMA ModerationStep == ModerationInv /\ [CommunityNext]_communityVars => ModerationInv'
<1> SUFFICES ASSUME ModerationInv, [CommunityNext]_communityVars PROVE ModerationInv'
  OBVIOUS
<1>1. CASE UNCHANGED communityVars
  BY <1>1, RowsStay DEF communityVars, postVars, CommunityTypeOK, ModerationInv
<1>2. CASE CommunityNext /\ UNCHANGED <<post, decisions>>
  BY <1>2, CommunityTypes, RowsStay DEF ModerationInv
<1>3. ASSUME NEW a \in Authors, NEW p \in Posts, DeleteOwnInteraction(a, p)
      PROVE  ModerationInv'
  <2>1. CommunityTypeOK' /\ CommunityTypeOK
    BY <1>3, CommunityTypes DEF CommunityNext, ModerationInv
  <2> DEFINE row == [post[p] EXCEPT !.status = "deleted", !.deletedBy = "user"]
  <2>2. post[p] \in PostRow /\ post[p] # NoPost
    BY <1>3, <2>1 DEF CommunityTypeOK, DeleteOwnInteraction
  <2>3. /\ row \in PostRow /\ row.status = "deleted" /\ row.deletedBy = "user"
        /\ row.matched = post[p].matched /\ row.restored = post[p].restored
    BY <2>2, RowChanges DEF PostStatus
  <2>4. post' = [post EXCEPT ![p] = row] /\ decisions' = decisions
    BY <1>3 DEF DeleteOwnInteraction, Deleted
  <2> HIDE DEF row
  <2>5. post'[p] = row /\ \A q \in Posts \ {p} : post'[q] = post[q]
    BY <2>1, <2>4 DEF CommunityTypeOK
  <2>6. StatusIsTold(p)'
    <3>1. StatusIsTold(p)
      BY <2>2 DEF ModerationInv
    <3>2. decisions'[p] = decisions[p] /\ FirstStatus(p)' = FirstStatus(p)
      BY <2>3, <2>4, <2>5 DEF FirstStatus
    <3>3. /\ post'[p].restored = post[p].restored
          /\ post'[p].status = "deleted" /\ post'[p].deletedBy = "user"
      BY <2>3, <2>5
    <3> QED BY <3>1, <3>2, <3>3 DEF StatusIsTold
  <2>7. ASSUME NEW q \in Posts, q # p, post'[q] # NoPost PROVE StatusIsTold(q)'
    BY <2>4, <2>5, <2>7 DEF ModerationInv, StatusIsTold, FirstStatus
  <2>8. UndecidedUnwritten'
    BY <2>2, <2>3, <2>4, <2>5, NoPostAssumption DEF ModerationInv, UndecidedUnwritten
  <2> QED BY <2>1, <2>6, <2>7, <2>8 DEF ModerationInv
<1>4. ASSUME NEW a \in Authors, NEW p \in Posts, NEW foul \in BOOLEAN,
             NEW parent \in Posts \cup {NoPost},
             CreateComment(a, p, parent, foul) \/ CreateBulletComment(a, p, foul)
      PROVE  ModerationInv'
  <2>1. CommunityTypeOK' /\ CommunityTypeOK
    BY <1>4, CommunityTypes DEF CommunityNext, ModerationInv
  <2>2. PICK row : /\ row.status = (IF row.matched THEN "pending" ELSE "visible")
                   /\ row.restored = 0
                   /\ post' = [post EXCEPT ![p] = row]
    BY <1>4 DEF CreateComment, CreateBulletComment, Inserted
  <2>3. decisions' = decisions /\ post[p] = NoPost /\ decisions[p] = <<>>
    BY <1>4 DEF CreateComment, CreateBulletComment, ModerationInv, UndecidedUnwritten
  <2>4. post'[p] = row /\ \A q \in Posts \ {p} : post'[q] = post[q]
    BY <2>1, <2>2 DEF CommunityTypeOK
  <2>5. Cardinality({i \in DOMAIN <<>> : <<>>[i].action = "restore"}) = 0
    <3>1. {i \in DOMAIN <<>> : <<>>[i].action = "restore"} = {}
      OBVIOUS
    <3> QED BY <3>1, FS_EmptySet
  <2>6. StatusIsTold(p)'
    BY <2>2, <2>3, <2>4, <2>5 DEF StatusIsTold, FirstStatus
  <2>7. ASSUME NEW q \in Posts, q # p, post'[q] # NoPost PROVE StatusIsTold(q)'
    <3>1. StatusIsTold(q) /\ post'[q] = post[q] /\ decisions'[q] = decisions[q]
      BY <2>3, <2>4, <2>7 DEF ModerationInv
    <3> QED BY <3>1 DEF StatusIsTold, FirstStatus
  <2>8. UndecidedUnwritten'
    BY <2>3, <2>4 DEF ModerationInv, UndecidedUnwritten
  <2> QED BY <2>1, <2>6, <2>7, <2>8 DEF ModerationInv
<1>5. CASE CommunityNext
  <2>1. \/ UNCHANGED <<post, decisions>>
        \/ \E a \in Authors, p \in Posts : DeleteOwnInteraction(a, p)
        \/ \E a \in Authors, p \in Posts, foul \in BOOLEAN, parent \in Posts \cup {NoPost} :
             CreateComment(a, p, parent, foul) \/ CreateBulletComment(a, p, foul)
        \/ \E p \in Posts, action \in {"approve", "hide", "delete", "restore"} :
             Moderate(p, action)
    BY <1>5
    DEF CommunityNext, PublicationChanges, CreateSensitiveWord, DisableSensitiveWord,
        SiteOrAccountChanges, SendFeedback, ReplyFeedback, SetDramaLike, CreateReport, ReviewReport,
        RestoreWindowCloses, postVars
  <2> QED BY <1>2, <1>3, <1>4, <1>5, <2>1, DecisionStep
<1> QED BY <1>1, <1>5

\* Of any number of customers, comments and decisions: the decisions recorded about a
\* row explain its status.
THEOREM DecisionsTold == CommunitySpec => []DecisionsTellStatus
<1>1. ModerationInv => DecisionsTellStatus
  BY DEF ModerationInv, DecisionsTellStatus, StatusIsTold
<1> QED BY <1>1, ModerationInitially, ModerationStep, PTL DEF CommunitySpec

\* Comments, reports, actions and notices keep their types.
THEOREM CommunityTyped == CommunitySpec => []CommunityTypeOK
<1>1. ModerationInv => CommunityTypeOK
  BY DEF ModerationInv
<1> QED BY <1>1, ModerationInitially, ModerationStep, PTL DEF CommunitySpec

-----------------------------------------------------------------------------
(* Lists that are read in pages.                                         *)

\* Among some subsets of a finite set there is one that has none of the others in it.
LEMMA SmallestSubset ==
  ASSUME NEW S, IsFiniteSet(S), NEW P, P \subseteq SUBSET S, P # {}
  PROVE  \E X \in P : \A Y \in P : Y \subseteq X => Y = X
<1> DEFINE R == StrictSubsetOrdering(S)
<1>1. IsWellFoundedOn(R, SUBSET S)
  BY FS_StrictSubsetOrderingWellFounded, FS_FiniteSubsetsOfFinite
<1> HIDE DEF R
<1>2. \E X \in P : \A Y \in P : ~(<<Y, X>> \in R)
  BY <1>1, WFMin
<1>3. PICK X \in P : \A Y \in P : ~(<<Y, X>> \in R)
  BY <1>2
<1>4. ASSUME NEW Y \in P, Y \subseteq X PROVE Y = X
  BY <1>3, <1>4 DEF R, StrictSubsetOrdering
<1> QED BY <1>4

\* A finite set that is strictly ordered has a minimal element.
LEMMA MinimalElement ==
  ASSUME NEW S, IsFiniteSet(S), S # {}, NEW R,
         \A x \in S : <<x, x>> \notin R,
         \A x, y, z \in S : <<x, y>> \in R /\ <<y, z>> \in R => <<x, z>> \in R
  PROVE  \E m \in S : \A x \in S : <<x, m>> \notin R
<1> DEFINE below(x) == {y \in S : <<y, x>> \in R}
           P == {below(x) : x \in S}
<1>1. P \subseteq SUBSET S /\ P # {}
  <2>1. \A x \in S : below(x) \in P
    OBVIOUS
  <2>2. P # {}
    <3>1. PICK x \in S : TRUE
      OBVIOUS
    <3> HIDE DEF P
    <3> QED BY <2>1, <3>1
  <2> QED BY ZenonT(60), <2>2
<1>2. PICK X \in P : \A Y \in P : Y \subseteq X => Y = X
  <2> HIDE DEF P
  <2> QED BY <1>1, SmallestSubset
<1>3. PICK m \in S : X = below(m)
  OBVIOUS
<1>4. ASSUME NEW x \in S, <<x, m>> \in R PROVE FALSE
  <2>1. below(x) \subseteq below(m)
    BY <1>4
  <2>2. below(x) \in P
    OBVIOUS
  <2>3. below(x) = below(m)
    <3> HIDE DEF P, below
    <3> QED BY <1>2, <1>3, <2>1, <2>2
  <2> QED BY <1>4, <2>3
<1> QED BY <1>4

-----------------------------------------------------------------------------
(* Lists.                                                                *)

\* A row that was ever listed keeps its place.
RowsAreDated ==
  /\ \A i \in Entries : entry[i].state # "absent" => ~Earlier(now, entry[i])
  /\ \A i \in reader.got \cup reader.first \cup reader.ends : entry[i].state # "absent"

\* The cursor is behind all that was given.
GivenIsBehind == reader.step # "done" => \A i \in reader.got : ~Beyond(i, reader.cursor)

\* A row lost in the millisecond in which some page ended.
CutOff(i) == listKind # "ledger" /\ \E l \in reader.ends : entry[l].ms = entry[i].ms /\ Before(l, i)

\* What was there when the reading began was given, is still to come, or is cut off.
NothingIsSkipped ==
  \A i \in reader.first : entry[i].state = "listed" =>
    \/ i \in reader.got
    \/ reader.step # "done" /\ Beyond(i, reader.cursor)
    \/ CutOff(i)

PagesInv ==
  /\ PagesTypeOK
  /\ RowsAreDated
  /\ reader.lines = Cardinality(reader.got)
  /\ GivenIsBehind
  /\ NothingIsSkipped

LEMMA PagesInitially == PagesInit => PagesInv
<1> SUFFICES ASSUME PagesInit PROVE PagesInv
  OBVIOUS
<1> USE PagesAssumption DEF PagesInit
<1>1. 0 \in Micro
  BY DEF Micro
<1>2. PagesTypeOK
  BY <1>1 DEF PagesTypeOK, EntryRow, ReaderRow
<1>3. RowsAreDated /\ GivenIsBehind /\ NothingIsSkipped
  BY DEF RowsAreDated, GivenIsBehind, NothingIsSkipped
<1>4. reader.lines = Cardinality(reader.got)
  BY FS_EmptySet
<1> QED BY <1>2, <1>3, <1>4 DEF PagesInv

\* The order of the list is strict and total.
LEMMA ListOrder ==
  ASSUME PagesTypeOK
  PROVE  /\ \A i \in Entries : entry[i].ms \in Int /\ entry[i].us \in Int /\ i \in Int
         /\ \A i \in Entries : ~Before(i, i)
         /\ \A i, j \in Entries : i # j => Before(i, j) \/ Before(j, i)
         /\ \A i, j, k \in Entries : Before(i, j) /\ Before(j, k) => Before(i, k)
<1>1. \A i \in Entries : entry[i].ms \in Int /\ entry[i].us \in Int /\ i \in Int
  BY EntriesAssumption, PagesAssumption DEF PagesTypeOK, EntryRow, Micro
<1>2. \A i \in Entries : ~Before(i, i)
  BY <1>1 DEF Before, Earlier
<1>3. \A i, j \in Entries : i # j => Before(i, j) \/ Before(j, i)
  BY <1>1 DEF Before, Earlier
<1>4. \A i, j, k \in Entries : Before(i, j) /\ Before(j, k) => Before(i, k)
  BY <1>1 DEF Before, Earlier
<1> QED BY <1>1, <1>2, <1>3, <1>4

\* A page takes rows from the front, at least one if there is any, and has a last one.
LEMMA PagesAreFronts ==
  ASSUME PagesTypeOK, NEW size \in PageSizes
  PROVE  /\ IsFiniteSet(PageOf(size)) /\ PageOf(size) \subseteq RowsBeyond
         /\ RowsBeyond \subseteq Entries
         /\ \A i \in PageOf(size), j \in RowsBeyond \ PageOf(size) : Before(i, j)
         /\ RowsBeyond # {} => PageOf(size) # {}
         /\ PageOf(size) # {} =>
              /\ LastOf(PageOf(size)) \in PageOf(size)
              /\ \A i \in PageOf(size) \ {LastOf(PageOf(size))} : Before(i, LastOf(PageOf(size)))
<1> DEFINE rows == PageOf(size)
           front(i) == {j \in RowsBeyond : Before(j, i)}
<1>1. RowsBeyond \subseteq Entries /\ IsFiniteSet(RowsBeyond)
  BY EntriesAssumption, FS_Subset DEF RowsBeyond
<1>2. rows \subseteq RowsBeyond /\ IsFiniteSet(rows)
  BY <1>1, FS_Subset DEF PageOf
<1>3. size \in Nat /\ size > 0
  BY PagesAssumption
<1>4. ASSUME NEW i \in rows, NEW j \in RowsBeyond \ rows PROVE Before(i, j)
  <2>1. i \in Entries /\ j \in Entries /\ i # j
    BY <1>1, <1>2, <1>4
  <2>2. ASSUME Before(j, i) PROVE FALSE
    <3>1. front(j) \subseteq front(i) /\ front(i) \subseteq RowsBeyond
      BY <1>1, <2>1, <2>2, ListOrder
    <3>2. IsFiniteSet(front(i))
      BY <1>1, <3>1, FS_Subset
    <3>3. /\ IsFiniteSet(front(j)) /\ Cardinality(front(j)) <= Cardinality(front(i))
      BY <3>1, <3>2, FS_Subset
    <3>4. Cardinality(front(j)) \in Nat /\ Cardinality(front(i)) \in Nat
      BY <3>2, <3>3, FS_CardinalityType
    <3>5. Cardinality(front(i)) < size
      BY DEF PageOf
    <3>6. Cardinality(front(j)) < size
      BY <1>3, <3>3, <3>4, <3>5
    <3> QED BY <3>6 DEF PageOf
  <2> QED BY <2>1, <2>2, ListOrder
<1>5. ASSUME RowsBeyond # {} PROVE rows # {}
  <2> DEFINE R == {p \in RowsBeyond \X RowsBeyond : Before(p[1], p[2])}
  <2>1. \A x, y \in RowsBeyond : <<x, y>> \in R <=> Before(x, y)
    OBVIOUS
  <2>2. /\ \A x \in RowsBeyond : <<x, x>> \notin R
        /\ \A x, y, z \in RowsBeyond : <<x, y>> \in R /\ <<y, z>> \in R => <<x, z>> \in R
    <3> HIDE DEF R
    <3> QED BY <1>1, <2>1, ListOrder
  <2> HIDE DEF R
  <2>3. PICK m \in RowsBeyond : \A x \in RowsBeyond : <<x, m>> \notin R
    BY <1>1, <1>5, <2>2, MinimalElement
  <2>4. front(m) = {}
    BY <2>1, <2>3
  <2>5. Cardinality(front(m)) < size
    BY <1>3, <2>4, FS_EmptySet
  <2> QED BY <2>5 DEF PageOf
<1>6. ASSUME rows # {}
      PROVE  \E l \in rows : \A i \in rows \ {l} : Before(i, l)
  <2> DEFINE R == {p \in rows \X rows : Before(p[2], p[1])}
  <2> HIDE DEF rows
  <2>1. \A x, y \in rows : <<x, y>> \in R <=> Before(y, x)
    OBVIOUS
  <2>2. /\ \A x \in rows : <<x, x>> \notin R
        /\ \A x, y, z \in rows : <<x, y>> \in R /\ <<y, z>> \in R => <<x, z>> \in R
    <3> HIDE DEF R
    <3> QED BY <1>1, <1>2, <2>1, ListOrder
  <2> HIDE DEF R
  <2>3. PICK m \in rows : \A x \in rows : <<x, m>> \notin R
    BY <1>2, <1>6, <2>2, MinimalElement
  <2>4. \A x \in rows \ {m} : Before(x, m)
    BY <1>1, <1>2, <2>1, <2>3, ListOrder
  <2> QED BY <2>4
<1>7. ASSUME rows # {}
      PROVE  LastOf(rows) \in rows /\ \A i \in rows \ {LastOf(rows)} : Before(i, LastOf(rows))
  <2> HIDE DEF rows
  <2> QED BY <1>6, <1>7 DEF LastOf
<1> QED BY <1>1, <1>2, <1>4, <1>5, <1>7

\* A step that neither reads nor moves a row.
LEMMA RowsStayInPlace ==
  ASSUME PagesInv, PagesTypeOK', RowsAreDated', UNCHANGED listKind,
         reader'.got = reader.got, reader'.first = reader.first, reader'.ends = reader.ends,
         reader'.lines = reader.lines, reader'.cursor = reader.cursor,
         reader.step # "done" <=> reader'.step # "done",
         \A i \in Entries : entry[i].state # "absent" =>
           /\ entry'[i].ms = entry[i].ms /\ entry'[i].us = entry[i].us
           /\ entry'[i].state = "listed" => entry[i].state = "listed"
  PROVE  PagesInv'
<1> USE DEF PagesInv
<1>0. /\ reader.got \subseteq Entries /\ reader.first \subseteq Entries
      /\ reader.ends \subseteq Entries
  BY DEF PagesTypeOK, ReaderRow
<1>1. GivenIsBehind'
  BY <1>0 DEF GivenIsBehind, RowsAreDated, Beyond, Earlier
<1>2. ASSUME NEW i \in reader.first, entry'[i].state = "listed"
      PROVE  \/ i \in reader.got
             \/ reader'.step # "done" /\ Beyond(i, reader.cursor)'
             \/ CutOff(i)'
  <2>1. i \in Entries /\ entry[i].state # "absent" /\ entry[i].state = "listed"
    BY <1>0, <1>2 DEF RowsAreDated
  <2>2. entry'[i].ms = entry[i].ms /\ entry'[i].us = entry[i].us
    BY <2>1
  <2>3. CASE i \in reader.got
    BY <2>3
  <2>4. CASE reader.step # "done" /\ Beyond(i, reader.cursor)
    BY <2>2, <2>4 DEF Beyond, Earlier
  <2>5. CASE CutOff(i)
    <3>1. PICK l \in reader.ends : entry[l].ms = entry[i].ms /\ Before(l, i)
      BY <2>5 DEF CutOff
    <3>2. entry'[l].ms = entry[l].ms /\ entry'[l].us = entry[l].us
      BY <1>0, <3>1 DEF RowsAreDated
    <3>3. entry'[l].ms = entry'[i].ms /\ Before(l, i)'
      BY <2>2, <3>1, <3>2 DEF Before, Earlier
    <3> QED BY <2>5, <3>1, <3>3 DEF CutOff
  <2> QED BY <1>2, <2>1, <2>3, <2>4, <2>5 DEF NothingIsSkipped
<1>3. NothingIsSkipped'
  BY <1>2 DEF NothingIsSkipped
<1> QED BY <1>1, <1>3

LEMMA CursorsAreNumbers ==
  ASSUME NEW c \in Cursor
  PROVE  c.ms \in Nat /\ c.us \in Nat /\ c.id \in Nat /\ c # NoCursor
<1>1. c \in [ms: Nat, us: Micro, id: Entries]
  BY DEF Cursor
<1>2. Micro \subseteq Nat /\ Entries \subseteq Nat
  BY EntriesAssumption, PagesAssumption DEF Micro
<1>3. c.ms \in Nat /\ c.us \in Nat /\ c.id \in Nat
  BY <1>1, <1>2
<1>4. c \in [ms: Nat, us: Nat, id: Nat]
  BY <1>1, <1>3
<1> QED BY <1>3, <1>4, PagesAssumption

\* Reading a page.
LEMMA ReadPageStep ==
  ASSUME PagesInv, NEW size \in PageSizes, ReadPage(size)
  PROVE  PagesInv'
<1> DEFINE rows == PageOf(size)
           last == LastOf(rows)
           more == IF listKind = "ledger" THEN rows # {} ELSE rows # RowsBeyond
           row == [step |-> IF more THEN "asking" ELSE "done",
                   key |-> reader.key,
                   cursor |-> IF more THEN CursorAt(last) ELSE reader.cursor,
                   first |-> IF reader.cursor = NoCursor THEN RowsBeyond ELSE reader.first,
                   got |-> reader.got \cup rows,
                   ends |-> IF more THEN reader.ends \cup {last} ELSE reader.ends,
                   lines |-> reader.lines + Cardinality(rows)]
<1> USE DEF PagesInv
<1>1. /\ reader \in ReaderRow /\ entry \in [Entries -> EntryRow] /\ PagesTypeOK
      /\ reader.got \subseteq Entries /\ reader.first \subseteq Entries
      /\ reader.ends \subseteq Entries /\ reader.lines \in Nat /\ reader.key \in Nat
      /\ reader.cursor \in Cursor \cup {NoCursor}
  BY DEF PagesTypeOK, ReaderRow
<1>2. reader' = row /\ UNCHANGED <<listKind, now, entry, key>> /\ reader.step # "done"
  BY <1>1 DEF ReadPage, MayRead, ReaderRow
<1>3. /\ IsFiniteSet(rows) /\ rows \subseteq RowsBeyond /\ RowsBeyond \subseteq Entries
      /\ \A i \in rows, j \in RowsBeyond \ rows : Before(i, j)
      /\ RowsBeyond # {} => rows # {}
      /\ rows # {} => last \in rows /\ \A i \in rows \ {last} : Before(i, last)
  BY <1>1, PagesAreFronts
<1>4. Cardinality(rows) \in Nat
  BY <1>3, FS_CardinalityType
<1> HIDE DEF rows, last
<1>5. more => rows # {} /\ last \in rows /\ last \in RowsBeyond /\ last \in Entries
  BY <1>3
<1>6. \A i \in RowsBeyond \ rows : more /\ Before(last, i)
  <2> SUFFICES ASSUME NEW i \in RowsBeyond \ rows PROVE more /\ Before(last, i)
    OBVIOUS
  <2>1. rows # {} /\ rows # RowsBeyond
    BY <1>3
  <2> QED BY <1>3, <2>1
<1>7. /\ row.step = IF more THEN "asking" ELSE "done"
      /\ row.cursor = IF more THEN CursorAt(last) ELSE reader.cursor
      /\ row.first = IF reader.cursor = NoCursor THEN RowsBeyond ELSE reader.first
      /\ row.got = reader.got \cup rows
      /\ row.ends = IF more THEN reader.ends \cup {last} ELSE reader.ends
      /\ row.lines = reader.lines + Cardinality(rows)
  OBVIOUS
<1>8. more => CursorAt(last) \in Cursor
  <2> SUFFICES ASSUME more PROVE CursorAt(last) \in Cursor
    OBVIOUS
  <2>1. entry[last] \in EntryRow /\ last \in Entries
    BY <1>1, <1>5
  <2>2. 0 \in Micro
    BY PagesAssumption DEF Micro
  <2> QED BY <2>1, <2>2 DEF EntryRow, Cursor, CursorAt
<1>9. row \in ReaderRow
  <2>1. row.step \in {"asking", "verified", "done"}
    BY <1>7
  <2>2. row.cursor \in Cursor \cup {NoCursor}
    BY <1>1, <1>7, <1>8
  <2>3. row.first \subseteq Entries /\ row.got \subseteq Entries /\ row.ends \subseteq Entries
    BY <1>1, <1>3, <1>5, <1>7
  <2>4. row.lines \in Nat
    BY <1>1, <1>4, <1>7
  <2> QED BY <1>1, <1>7, <2>1, <2>2, <2>3, <2>4 DEF ReaderRow
<1> HIDE DEF row
<1>10. PagesTypeOK'
  BY <1>2, <1>9 DEF PagesTypeOK
<1>11. RowsAreDated'
  <2>1. \A i \in RowsBeyond : entry[i].state # "absent"
    BY DEF RowsBeyond
  <2>2. \A i \in reader'.got \cup reader'.first \cup reader'.ends : entry[i].state # "absent"
    BY <1>2, <1>3, <1>5, <1>7, <2>1 DEF RowsAreDated
  <2> QED BY <1>2, <2>2 DEF RowsAreDated, Earlier
<1>12. reader'.lines = Cardinality(reader'.got)
  <2>1. IsFiniteSet(reader.got)
    BY <1>1, EntriesAssumption, FS_Subset
  <2>2. reader.got \cap rows = {}
    BY <1>2, <1>3 DEF GivenIsBehind, RowsBeyond
  <2>3. Cardinality(reader.got \cup rows)
          = Cardinality(reader.got) + Cardinality(rows) - Cardinality(reader.got \cap rows)
    BY <1>3, <2>1, FS_Union
  <2>4. Cardinality(reader.got \cap rows) = 0
    BY <2>2, FS_EmptySet
  <2> QED BY <1>1, <1>2, <1>4, <1>7, <2>3, <2>4
<1>13. GivenIsBehind'
  <2> SUFFICES ASSUME more, NEW i \in reader.got \cup rows PROVE ~Beyond(i, CursorAt(last))
    BY <1>2, <1>7 DEF GivenIsBehind, Beyond, Earlier
  <2>1. i \in Entries /\ last \in Entries /\ last \in RowsBeyond
    BY <1>1, <1>3, <1>5
  <2>2. CursorAt(last) # NoCursor
    BY <1>8, CursorsAreNumbers
  <2>3. /\ entry[i].ms \in Int /\ entry[i].us \in Nat /\ entry[last].ms \in Int
        /\ entry[last].us \in Nat /\ i \in Int /\ last \in Int
    BY <1>1, <2>1, EntriesAssumption, PagesAssumption DEF EntryRow, Micro
  <2>4. i = last \/ Before(i, last)
    <3>1. CASE i \in rows
      BY <1>3, <3>1
    <3>2. CASE i \in reader.got
      <4>1. ~Beyond(i, reader.cursor) /\ Beyond(last, reader.cursor)
        BY <1>2, <2>1, <3>2 DEF GivenIsBehind, RowsBeyond
      <4>2. reader.cursor \in Cursor
        BY <1>1, <4>1 DEF Beyond
      <4>3. reader.cursor.ms \in Int /\ reader.cursor.us \in Int /\ reader.cursor.id \in Int
        BY <4>2, CursorsAreNumbers
      <4> QED BY <2>3, <4>1, <4>3 DEF Beyond, Before, Earlier
    <3> QED BY <3>1, <3>2
  <2>5. /\ CursorAt(last).ms = entry[last].ms /\ CursorAt(last).id = last
        /\ CursorAt(last).us \in Nat /\ CursorAt(last).us <= entry[last].us
    BY <2>3 DEF CursorAt
  <2> QED BY <2>2, <2>3, <2>4, <2>5 DEF Beyond, Before, Earlier
<1>14. NothingIsSkipped'
  <2> SUFFICES ASSUME NEW i \in row.first, entry[i].state = "listed", i \notin row.got
               PROVE  (row.step # "done" /\ Beyond(i, row.cursor)) \/ CutOff(i)'
    BY <1>2 DEF NothingIsSkipped, Beyond, Earlier
  <2>1. i \in Entries
    BY <1>1, <1>3, <1>7
  <2>2. CASE CutOff(i)
    BY <1>2, <1>7, <2>2 DEF CutOff, Before, Earlier
  <2>3. CASE ~CutOff(i)
    <3>1. i \in RowsBeyond
      <4>1. CASE reader.cursor = NoCursor
        BY <1>7, <4>1
      <4>2. CASE reader.cursor # NoCursor
        BY <1>7, <2>1, <2>3, <4>2 DEF NothingIsSkipped, RowsBeyond
      <4> QED BY <4>1, <4>2
    <3>2. more /\ Before(last, i)
      BY <1>6, <1>7, <3>1
    <3>3. row.step = "asking" /\ row.cursor = CursorAt(last) /\ last \in row.ends
      BY <1>7, <3>2
    <3>4. /\ entry[i].ms \in Int /\ entry[i].us \in Nat /\ entry[last].ms \in Int
          /\ entry[last].us \in Nat
      BY <1>1, <1>5, <2>1, <3>2, PagesAssumption DEF EntryRow, Micro
    <3>5. CursorAt(last).ms = entry[last].ms /\ CursorAt(last).id = last
      BY DEF CursorAt
    <3>6. CASE listKind = "ledger"
      <4>1. CursorAt(last).us = entry[last].us
        BY <3>6 DEF CursorAt
      <4> QED BY <3>2, <3>3, <3>4, <3>5, <4>1 DEF Beyond, Before, Earlier
    <3>7. CASE listKind # "ledger" /\ entry[last].ms # entry[i].ms
      BY <3>2, <3>3, <3>4, <3>5, <3>7 DEF Beyond, Before, Earlier
    <3>8. CASE listKind # "ledger" /\ entry[last].ms = entry[i].ms
      BY <1>2, <3>2, <3>3, <3>8 DEF CutOff, Before, Earlier
    <3> QED BY <3>6, <3>7, <3>8
  <2> QED BY <2>2, <2>3
<1> QED BY <1>10, <1>11, <1>12, <1>13, <1>14

LEMMA PagesStep == PagesInv /\ [PagesNext]_pagesVars => PagesInv'
<1> SUFFICES ASSUME PagesInv, [PagesNext]_pagesVars PROVE PagesInv'
  OBVIOUS
<1>0. /\ PagesTypeOK /\ RowsAreDated /\ reader \in ReaderRow
      /\ now \in [ms: Nat, us: Micro] /\ entry \in [Entries -> EntryRow]
      /\ Micro \subseteq Nat
  BY PagesAssumption DEF PagesInv, PagesTypeOK, Micro
<1>1. CASE ClockMoves
  <2>1. now' \in [ms: Nat, us: Micro] /\ Earlier(now, now') /\ UNCHANGED <<listKind, entry, key, reader>>
    BY <1>1, PagesAssumption DEF ClockMoves
  <2>2. PagesTypeOK'
    BY <1>0, <2>1 DEF PagesTypeOK
  <2>3. \A i \in Entries : entry[i].state # "absent" => ~Earlier(now', entry[i])
    <3> SUFFICES ASSUME NEW i \in Entries, entry[i].state # "absent"
                 PROVE  ~Earlier(now', entry[i])
      OBVIOUS
    <3>1. /\ now.ms \in Nat /\ now.us \in Nat /\ now'.ms \in Nat /\ now'.us \in Nat
          /\ entry[i].ms \in Nat /\ entry[i].us \in Nat
      BY <1>0, <2>1 DEF EntryRow
    <3> QED BY <1>0, <2>1, <3>1 DEF RowsAreDated, Earlier
  <2>4. RowsAreDated'
    BY <1>0, <2>1, <2>3 DEF RowsAreDated, Earlier
  <2> QED BY <2>1, <2>2, <2>4, RowsStayInPlace
<1>2. ASSUME NEW i \in Entries, Disappear(i) PROVE PagesInv'
  <2>1. /\ entry' = [entry EXCEPT ![i].state = "gone"] /\ entry[i].state = "listed"
        /\ UNCHANGED <<listKind, now, key, reader>>
    BY <1>2 DEF Disappear
  <2>2. \A j \in Entries : /\ entry'[j].ms = entry[j].ms /\ entry'[j].us = entry[j].us
                           /\ entry'[j].state = IF j = i THEN "gone" ELSE entry[j].state
    BY <1>0, <2>1 DEF EntryRow
  <2>3. PagesTypeOK'
    BY <1>0, <2>1 DEF PagesTypeOK, EntryRow
  <2>4. reader.got \cup reader.first \cup reader.ends \subseteq Entries
    BY <1>0 DEF ReaderRow
  <2>5. RowsAreDated'
    BY <1>0, <2>1, <2>2, <2>4 DEF RowsAreDated, Earlier
  <2> QED BY <2>1, <2>2, <2>3, <2>5, RowsStayInPlace
<1>3. ASSUME NEW i \in Entries, NEW at \in [ms: 0 .. LastMilli, us: Micro], Appear(i, at)
      PROVE  PagesInv'
  <2>1. /\ entry' = [entry EXCEPT ![i] = [state |-> "listed", ms |-> at.ms, us |-> at.us]]
        /\ entry[i].state = "absent" /\ ~Earlier(now, at)
        /\ UNCHANGED <<listKind, now, key, reader>>
    BY <1>3 DEF Appear
  <2>2. at.ms \in Nat /\ at.us \in Micro
    BY PagesAssumption
  <2>3. PagesTypeOK'
    BY <1>0, <2>1, <2>2 DEF PagesTypeOK, EntryRow
  <2>4. reader.got \cup reader.first \cup reader.ends \subseteq Entries \ {i}
    BY <1>0, <2>1 DEF ReaderRow, RowsAreDated
  <2>5. \A j \in Entries \ {i} : entry'[j] = entry[j]
    BY <1>0, <2>1
  <2>6. entry'[i] = [state |-> "listed", ms |-> at.ms, us |-> at.us]
    BY <1>0, <2>1
  <2>7. RowsAreDated'
    <3>1. ASSUME NEW j \in Entries, entry'[j].state # "absent" PROVE ~Earlier(now, entry'[j])
      BY <1>0, <2>1, <2>5, <2>6, <3>1 DEF RowsAreDated, Earlier
    <3>2. \A j \in reader.got \cup reader.first \cup reader.ends : entry'[j].state # "absent"
      BY <1>0, <2>4, <2>5 DEF RowsAreDated
    <3> QED BY <2>1, <3>1, <3>2 DEF RowsAreDated, Earlier
  <2> QED BY <2>1, <2>3, <2>5, <2>7, RowsStayInPlace
<1>4. CASE ChangeKey
  <2>1. key' = key + 1 /\ UNCHANGED <<listKind, now, entry, reader>>
    BY <1>4 DEF ChangeKey
  <2>2. PagesTypeOK' /\ RowsAreDated'
    BY <1>0, <2>1 DEF PagesTypeOK, RowsAreDated, Earlier
  <2> QED BY <2>1, <2>2, RowsStayInPlace
<1>5. CASE VerifyCurrentPassword
  <2>1. /\ reader' = [reader EXCEPT !.step = "verified", !.key = key] /\ reader.step = "asking"
        /\ UNCHANGED <<listKind, now, entry, key>>
    BY <1>5 DEF VerifyCurrentPassword
  <2>2. reader' \in ReaderRow /\ key \in Nat
    BY <1>0, <2>1 DEF ReaderRow, PagesTypeOK
  <2>3. /\ reader'.got = reader.got /\ reader'.first = reader.first
        /\ reader'.ends = reader.ends /\ reader'.lines = reader.lines
        /\ reader'.cursor = reader.cursor /\ reader'.step = "verified"
    BY <1>0, <2>1 DEF ReaderRow
  <2>4. PagesTypeOK' /\ RowsAreDated'
    BY <1>0, <2>1, <2>2, <2>3 DEF PagesTypeOK, RowsAreDated, Earlier
  <2> QED BY <2>1, <2>3, <2>4, RowsStayInPlace
<1>6. CASE ExportRefused
  <2>1. /\ reader' = [reader EXCEPT !.step = "asking"] /\ reader.step = "verified"
        /\ UNCHANGED <<listKind, now, entry, key>>
    BY <1>6 DEF ExportRefused
  <2>2. reader' \in ReaderRow
    BY <1>0, <2>1 DEF ReaderRow
  <2>3. /\ reader'.got = reader.got /\ reader'.first = reader.first
        /\ reader'.ends = reader.ends /\ reader'.lines = reader.lines
        /\ reader'.cursor = reader.cursor /\ reader'.step = "asking"
    BY <1>0, <2>1 DEF ReaderRow
  <2>4. PagesTypeOK' /\ RowsAreDated'
    BY <1>0, <2>1, <2>2, <2>3 DEF PagesTypeOK, RowsAreDated, Earlier
  <2> QED BY <2>1, <2>3, <2>4, RowsStayInPlace
<1>7. ASSUME NEW size \in PageSizes, ReadPage(size) PROVE PagesInv'
  BY <1>7, ReadPageStep
<1>8. CASE UNCHANGED pagesVars
  <2>1. UNCHANGED <<listKind, now, entry, key, reader>>
    BY <1>8 DEF pagesVars
  <2>2. PagesTypeOK' /\ RowsAreDated'
    BY <1>0, <2>1 DEF PagesTypeOK, RowsAreDated, Earlier
  <2> QED BY <2>1, <2>2, RowsStayInPlace
<1> QED BY <1>1, <1>2, <1>3, <1>4, <1>5, <1>6, <1>7, <1>8 DEF PagesNext

\* Of lists of any length, read in pages of any size while rows come and go: no row is
\* given twice, and none that stays is lost but for those that share the millisecond
\* of some page's last one; in the ledger, none.
THEOREM PagesComplete == PagesSpec => []PagesAreComplete
<1>1. PagesInv => PagesAreComplete
  BY DEF PagesInv, PagesAreComplete, NothingIsSkipped, CutOff
<1> QED BY <1>1, PagesInitially, PagesStep, PTL DEF PagesSpec

-----------------------------------------------------------------------------
(* Legal documents and consents.                                         *)

\* What was shown was published and has the words that were shown.
ShownStands ==
  \A n \in Newcomers : \A x \in newcomer[n].shown :
    paper[x[1]].state = "published" /\ paper[x[1]].words = x[2]

\* One customer's part of ConsentsAreInformed, of consents given on some day.
Informed(papers, row, recorded) ==
  /\ \A p \in recorded :
       /\ papers[p].state = "published"
       /\ papers[p].effective <= row.on
       /\ row.via = "form" \/ papers[p].type \in {"privacy", "terms"} \/ papers[p].required =>
            <<p, papers[p].words>> \in row.shown
       /\ \A q \in recorded : papers[q].type = papers[p].type => q = p
  /\ \A t \in {"privacy", "terms"} : \E p \in recorded : papers[p].type = t

AllInformed ==
  \A n \in Newcomers : newcomer[n].via # "none" => Informed(paper, newcomer[n], consents[n])

LEMMA InformedOneByOne == ConsentsAreInformed <=> AllInformed
  BY DEF ConsentsAreInformed, AllInformed, Informed, Basic

LegalInv == LegalTypeOK /\ ShownStands /\ AllInformed

LEMMA LegalInitially == LegalInit => LegalInv
<1> SUFFICES ASSUME LegalInit PROVE LegalInv
  OBVIOUS
<1>1. "privacy" \in PaperTypes /\ OwnLocale \in LegalLocales
  BY PaperTypesAssumption, LegalBoundsAssumption
<1>2. LegalTypeOK
  BY <1>1 DEF LegalInit, LegalTypeOK, PaperRow, NewcomerRow
<1>3. ShownStands /\ AllInformed
  BY DEF LegalInit, ShownStands, AllInformed
<1> QED BY <1>2, <1>3 DEF LegalInv

\* What is published does not change, whatever else of the documents does.
LEMMA PublishedStay ==
  ASSUME LegalInv, LegalTypeOK', UNCHANGED <<newcomer, consents>>,
         \A p \in Papers : paper[p].state = "published" => paper'[p] = paper[p]
  PROVE  LegalInv'
<1> USE DEF LegalInv
<1>0. /\ \A n \in Newcomers : \A x \in newcomer[n].shown : x[1] \in Papers
      /\ \A n \in Newcomers : consents[n] \subseteq Papers
  BY DEF LegalTypeOK, NewcomerRow
<1>1. ShownStands'
  BY <1>0 DEF ShownStands
<1>2. AllInformed'
  <2> SUFFICES ASSUME NEW n \in Newcomers, newcomer[n].via # "none"
               PROVE  Informed(paper', newcomer[n], consents[n])
    BY DEF AllInformed
  <2>1. Informed(paper, newcomer[n], consents[n])
    BY DEF AllInformed
  <2>2. \A p \in consents[n] : paper'[p] = paper[p]
    BY <1>0, <2>1 DEF Informed
  <2> QED BY <2>1, <2>2 DEF Informed
<1> QED BY <1>1, <1>2

\* The current documents are in effect, and one of each type.
LEMMA CurrentIsOfEachType ==
  ASSUME LegalTypeOK, NEW l \in LegalLocales, NEW page \in Current(l)
  PROVE  /\ page \subseteq Effective
         /\ \A p, q \in page : paper[q].type = paper[p].type => q = p
<1>1. page \subseteq UNION { First(l, t) : t \in PaperTypes }
  BY DEF Current
<1>2. \A p \in page : p \in Papers /\ p \in Effective /\ p \in First(l, paper[p].type)
  BY <1>1 DEF First, Effective
<1>3. ASSUME NEW p \in page, NEW q \in page, paper[q].type = paper[p].type PROVE q = p
  <2> DEFINE same == {r \in page : paper[r].type = paper[p].type}
  <2>1. paper[p].type \in PaperTypes /\ First(l, paper[p].type) # {}
    BY <1>2 DEF LegalTypeOK, PaperRow
  <2>2. Cardinality(same) = 1
    BY <2>1 DEF Current
  <2>3. IsFiniteSet(same)
    BY <1>2, LegalBoundsAssumption, FS_Subset
  <2>4. \E r : same = {r}
    <3> HIDE DEF same
    <3> QED BY <2>2, <2>3, FS_Singleton
  <2> QED BY <1>3, <2>4
<1> QED BY <1>2, <1>3

\* A newcomer is shown documents in effect.
LEMMA ShowStep ==
  ASSUME LegalInv, NEW n \in Newcomers, IsNew(n), NEW extra,
         \A x \in extra : \E p \in Effective : x = <<p, paper[p].words>>,
         UNCHANGED <<paper, day, consents>>,
         newcomer' = [newcomer EXCEPT ![n].shown = @ \cup extra]
  PROVE  LegalInv'
<1> USE DEF LegalInv
<1>1. \A x \in extra : /\ x \in Papers \X Nat
                       /\ paper[x[1]].state = "published" /\ paper[x[1]].words = x[2]
  BY DEF Effective, LegalTypeOK, PaperRow
<1>2. newcomer \in [Newcomers -> NewcomerRow]
  BY DEF LegalTypeOK
<1>3. /\ \A m \in Newcomers : newcomer'[m].via = newcomer[m].via /\ newcomer'[m].on = newcomer[m].on
      /\ \A m \in Newcomers \ {n} : newcomer'[m] = newcomer[m]
      /\ newcomer'[n].shown = newcomer[n].shown \cup extra
  BY <1>2 DEF NewcomerRow
<1>4. newcomer' \in [Newcomers -> NewcomerRow]
  BY <1>1, <1>2 DEF NewcomerRow
<1>5. LegalTypeOK'
  BY <1>4 DEF LegalTypeOK
<1>6. ShownStands'
  BY <1>1, <1>3 DEF ShownStands
<1>7. AllInformed'
  <2> SUFFICES ASSUME NEW m \in Newcomers, newcomer'[m].via # "none"
               PROVE  Informed(paper', newcomer'[m], consents'[m])
    BY DEF AllInformed
  <2>1. newcomer'[m] = newcomer[m] /\ newcomer[m].via # "none"
    BY <1>3 DEF IsNew
  <2> QED BY <2>1 DEF AllInformed
<1> QED BY <1>5, <1>6, <1>7

\* A newcomer registers; among what is recorded is all that was accepted.
LEMMA RegisterStep ==
  ASSUME LegalInv, NEW n \in Newcomers, NEW l \in LegalLocales, NEW page \in Current(l),
         NEW accepted \in SUBSET Seen(n), Validated(page, accepted),
         NEW via \in {"form", "identity"}, NEW recorded, accepted \subseteq recorded,
         recorded \subseteq page, via = "form" => recorded = accepted,
         UNCHANGED <<paper, day>>,
         newcomer' = [newcomer EXCEPT ![n].via = via, ![n].on = day],
         consents' = [consents EXCEPT ![n] = recorded]
  PROVE  LegalInv'
<1> USE DEF LegalInv
<1>1. /\ newcomer \in [Newcomers -> NewcomerRow] /\ consents \in [Newcomers -> SUBSET Papers]
      /\ day \in Nat
  BY DEF LegalTypeOK
<1>2. /\ page \subseteq Effective
      /\ \A p, q \in page : paper[q].type = paper[p].type => q = p
  BY CurrentIsOfEachType
<1>3. recorded \subseteq Papers
  BY <1>2 DEF Effective
<1>4. /\ \A m \in Newcomers \ {n} : newcomer'[m] = newcomer[m] /\ consents'[m] = consents[m]
      /\ newcomer'[n].via = via /\ newcomer'[n].on = day
      /\ newcomer'[n].shown = newcomer[n].shown
      /\ consents'[n] = recorded
  BY <1>1 DEF NewcomerRow
<1>5. newcomer' \in [Newcomers -> NewcomerRow]
  BY ZenonT(60), <1>1 DEF NewcomerRow
<1>6. LegalTypeOK'
  BY <1>1, <1>3, <1>5 DEF LegalTypeOK
<1>7. ShownStands'
  BY ZenonT(60), <1>4 DEF ShownStands
<1>8. \A p \in accepted : <<p, paper[p].words>> \in newcomer[n].shown
  BY DEF Seen, ShownStands
<1>9. \A p \in recorded : paper[p].state = "published" /\ paper[p].effective <= day
  BY <1>2 DEF Effective
<1>10. \A p \in recorded : Basic(p) \/ paper[p].required => p \in accepted
  BY DEF Validated
<1>11. \A t \in {"privacy", "terms"} : \E p \in recorded : paper[p].type = t
  BY DEF Validated, Basic
<1>12. AllInformed'
  <2> SUFFICES ASSUME NEW m \in Newcomers, newcomer'[m].via # "none"
               PROVE  Informed(paper, newcomer'[m], consents'[m])
    BY DEF AllInformed
  <2>1. CASE m = n
    <3>1. via = "form" => recorded = accepted
      OBVIOUS
    <3>2. \A p \in recorded : via = "form" \/ Basic(p) \/ paper[p].required => p \in accepted
      BY <1>10, <3>1
    <3>3. \A p, q \in recorded : paper[q].type = paper[p].type => q = p
      BY <1>2
    <3> QED BY <1>4, <1>8, <1>9, <1>11, <2>1, <3>2, <3>3 DEF Informed, Basic
  <2>2. CASE m # n
    BY <1>4, <2>2 DEF AllInformed
  <2> QED BY <2>1, <2>2
<1> QED BY <1>6, <1>7, <1>12

\* A row whose fields are changed within their types is a row.
LEMMA PapersChange ==
  ASSUME NEW row \in PaperRow, NEW words \in Nat, NEW required \in BOOLEAN, NEW from \in Nat
  PROVE  /\ [row EXCEPT !.words = words, !.required = required] \in PaperRow
         /\ [row EXCEPT !.state = "published", !.effective = from] \in PaperRow
         /\ [row EXCEPT !.state = "deleted"] \in PaperRow
BY DEF PaperRow

\* The number of a new version is a number.
LEMMA MaximumIsOneOfThem ==
  ASSUME NEW S, IsFiniteSet(S), S # {}, S \subseteq Nat
  PROVE  Max(S) \in S /\ \A x \in S : x <= Max(S)
<1> DEFINE R == {p \in S \X S : p[1] > p[2]}
<1>1. \A x, y \in S : <<x, y>> \in R <=> x > y
  OBVIOUS
<1>2. /\ \A x \in S : <<x, x>> \notin R
      /\ \A x, y, z \in S : <<x, y>> \in R /\ <<y, z>> \in R => <<x, z>> \in R
  <2> HIDE DEF R
  <2> QED BY <1>1
<1> HIDE DEF R
<1>3. PICK m \in S : \A x \in S : <<x, m>> \notin R
  BY <1>2, MinimalElement
<1>4. \A x \in S : m >= x
  <2> SUFFICES ASSUME NEW x \in S PROVE m >= x
    OBVIOUS
  <2>1. x \in Nat /\ m \in Nat /\ ~(x > m)
    BY <1>1, <1>3
  <2> QED BY <2>1
<1>5. Max(S) \in S /\ \A x \in S : Max(S) >= x
  BY <1>3, <1>4 DEF Max
<1> QED BY <1>5

LEMMA LegalStep == LegalInv /\ [LegalNext]_legalVars => LegalInv'
<1> SUFFICES ASSUME LegalInv, [LegalNext]_legalVars PROVE LegalInv'
  OBVIOUS
<1>0. LegalTypeOK /\ paper \in [Papers -> PaperRow]
  BY DEF LegalInv, LegalTypeOK
<1>1. CASE DayPasses
  BY <1>0, <1>1, PublishedStay DEF DayPasses, LegalTypeOK
<1>2. ASSUME NEW p \in Papers, NEW t \in PaperTypes, NEW l \in LegalLocales,
             NEW required \in BOOLEAN, CreateDraft(p, t, l, required)
      PROVE  LegalInv'
  <2> DEFINE no == 1 + Max({0} \cup { paper[q].no : q \in Versions(t, l) })
  <2>1. no \in Nat
    <3> DEFINE numbers == { paper[q].no : q \in Versions(t, l) }
               S == {0} \cup numbers
    <3>1. numbers \subseteq Nat
      BY <1>0 DEF Versions, PaperRow
    <3>2. IsFiniteSet(Versions(t, l))
      BY LegalBoundsAssumption, FS_Subset DEF Versions
    <3>3. IsFiniteSet(numbers)
      <4> DEFINE f == [q \in Versions(t, l) |-> paper[q].no]
      <4>1. numbers = { f[q] : q \in Versions(t, l) }
        OBVIOUS
      <4> HIDE DEF f, numbers
      <4>2. f \in [Versions(t, l) -> numbers]
        BY DEF f, numbers
      <4>3. f \in Surjection(Versions(t, l), numbers)
        BY <4>1, <4>2 DEF Surjection
      <4> QED BY <3>2, <4>3, FS_Surjection
    <3> HIDE DEF numbers
    <3>4. IsFiniteSet(S) /\ S # {} /\ S \subseteq Nat
      <4>1. IsFiniteSet({0})
        BY FS_Singleton
      <4>2. IsFiniteSet(S)
        BY <3>3, <4>1, FS_Union
      <4>3. S # {} /\ S \subseteq Nat
        BY <3>1
      <4> QED BY <4>2, <4>3
    <3> HIDE DEF S
    <3>5. Max(S) \in Nat
      BY <3>4, MaximumIsOneOfThem
    <3> QED BY <3>5 DEF S, numbers
  <2>2. /\ paper' = [paper EXCEPT ![p] = [state |-> "draft", type |-> t, locale |-> l, words |-> 0,
                        required |-> required, effective |-> 0, no |-> no]]
        /\ paper[p].state = "absent" /\ UNCHANGED <<day, newcomer, consents>>
    BY <1>2 DEF CreateDraft
  <2> HIDE DEF no
  <2>3. LegalTypeOK'
    BY <1>0, <2>1, <2>2 DEF LegalTypeOK, PaperRow
  <2> QED BY <1>0, <2>2, <2>3, PublishedStay
<1>3. ASSUME NEW p \in Papers, NEW required \in BOOLEAN, EditDraft(p, required) PROVE LegalInv'
  <2>1. LegalTypeOK'
    <3>1. paper[p] \in PaperRow /\ paper[p].words + 1 \in Nat
      <4>1. paper[p] \in PaperRow
        BY <1>0
      <4> QED BY <4>1 DEF PaperRow
    <3>3. paper' = [paper EXCEPT ![p] =
                      [paper[p] EXCEPT !.words = paper[p].words + 1, !.required = required]]
      BY <1>0, <1>3 DEF EditDraft
    <3>2. [paper[p] EXCEPT !.words = paper[p].words + 1, !.required = required] \in PaperRow
      <4> 0 \in Nat
        OBVIOUS
      <4> QED BY <3>1, PapersChange
    <3> QED BY <1>0, <1>3, <3>2, <3>3 DEF EditDraft, LegalTypeOK
  <2> QED BY <1>0, <1>3, <2>1, PublishedStay DEF EditDraft
<1>4. ASSUME NEW p \in Papers, NEW from \in 0 .. LegalDays, PublishDraft(p, from) PROVE LegalInv'
  <2>1. LegalTypeOK'
    <3>1. paper[p] \in PaperRow /\ from \in Nat
      BY <1>0, LegalBoundsAssumption
    <3>3. paper' = [paper EXCEPT ![p] =
                      [paper[p] EXCEPT !.state = "published", !.effective = from]]
      BY <1>0, <1>4 DEF PublishDraft
    <3>2. [paper[p] EXCEPT !.state = "published", !.effective = from] \in PaperRow
      <4> TRUE \in BOOLEAN /\ 0 \in Nat
        OBVIOUS
      <4> QED BY <3>1, PapersChange
    <3> QED BY <1>0, <1>4, <3>2, <3>3 DEF PublishDraft, LegalTypeOK
  <2> QED BY <1>0, <1>4, <2>1, PublishedStay DEF PublishDraft
<1>5. ASSUME NEW p \in Papers, RemoveDraft(p) PROVE LegalInv'
  <2>1. LegalTypeOK'
    BY <1>0, <1>5 DEF RemoveDraft, LegalTypeOK, PaperRow
  <2> QED BY <1>0, <1>5, <2>1, PublishedStay DEF RemoveDraft
<1>6. ASSUME NEW n \in Newcomers, NEW p \in Papers, SeeDetail(n, p) PROVE LegalInv'
  BY <1>6, ShowStep DEF SeeDetail
<1>7. ASSUME NEW n \in Newcomers, NEW l \in LegalLocales, NEW page \in Current(l), SeeCurrent(n, page)
      PROVE  LegalInv'
  <2>1. page \subseteq Effective
    BY <1>0, CurrentIsOfEachType
  <2> DEFINE extra == { <<p, paper[p].words>> : p \in page }
  <2>2. \A x \in extra : \E p \in Effective : x = <<p, paper[p].words>>
    BY <2>1
  <2>3. /\ IsNew(n) /\ UNCHANGED <<paper, day, consents>>
        /\ newcomer' = [newcomer EXCEPT ![n].shown = @ \cup extra]
    BY <1>7 DEF SeeCurrent
  <2> HIDE DEF extra
  <2> QED BY <2>2, <2>3, ShowStep
<1>8. ASSUME NEW n \in Newcomers, NEW l \in LegalLocales, NEW page \in Current(l),
             NEW accepted \in SUBSET Seen(n), RegisterByForm(n, page, accepted)
      PROVE  LegalInv'
  <2>1. /\ Validated(page, accepted) /\ UNCHANGED <<paper, day>>
        /\ newcomer' = [newcomer EXCEPT ![n].via = "form", ![n].on = day]
        /\ consents' = [consents EXCEPT ![n] = accepted]
    BY <1>8 DEF RegisterByForm
  <2>2. accepted \subseteq page
    BY <2>1 DEF Validated
  <2> QED BY <2>1, <2>2, RegisterStep
<1>9. ASSUME NEW n \in Newcomers, NEW l \in LegalLocales, NEW page \in Current(l),
             NEW accepted \in SUBSET Seen(n), RegisterByIdentity(n, page, accepted)
      PROVE  LegalInv'
  <2>1. /\ Validated(page, accepted) /\ UNCHANGED <<paper, day>>
        /\ newcomer' = [newcomer EXCEPT ![n].via = "identity", ![n].on = day]
        /\ consents' = [consents EXCEPT ![n] = page]
    BY <1>9 DEF RegisterByIdentity
  <2>2. accepted \subseteq page
    BY <2>1 DEF Validated
  <2> QED BY <2>1, <2>2, RegisterStep
<1>10. CASE UNCHANGED legalVars
  BY <1>0, <1>10, PublishedStay DEF legalVars, LegalTypeOK
<1> QED BY <1>1, <1>2, <1>3, <1>4, <1>5, <1>6, <1>7, <1>8, <1>9, <1>10 DEF LegalNext

\* Of any documents and newcomers, in any order of drafts, publications, readings and
\* registrations: consents are to what was read, is in force and has not changed.
THEOREM ConsentsInformed == LegalSpec => []ConsentsAreInformed
<1>1. LegalInv => ConsentsAreInformed
  BY InformedOneByOne DEF LegalInv
<1> QED BY <1>1, LegalInitially, LegalStep, PTL DEF LegalSpec

-----------------------------------------------------------------------------
(* Staff: who rotates a token, and who shows it afterwards.              *)

Early == {"none", "verified", "opening"}

\* A row of the history is about a token its session had, which it gets when
\* it is committed.
HistoryIsEarlier ==
  /\ \A s \in StaffLogins : staffSession[s].state \in Early => staffSession[s].token = 0
  /\ \A h \in tokenHistory : h.token < staffSession[h.session].token

\* One client rotated each token.
OneClientRotates ==
  \A g, h \in tokenHistory : g.session = h.session /\ g.token = h.token => g.client = h.client

\* Tokens are shown when they are rotated, or after.
ShownIsRotated ==
  \A x \in shown : \E h \in tokenHistory : x.session = h.session /\ x.token = h.token

\* As long as the session lives, by the client that rotated them.
ShownByItsClient ==
  \A x \in shown, h \in tokenHistory :
    InState(h.session, "live") /\ x.session = h.session /\ x.token = h.token
      => x.client = h.client

ReplayInv ==
  StaffTypeOK /\ HistoryIsEarlier /\ OneClientRotates /\ ShownIsRotated /\ ShownByItsClient

LEMMA ReplayInitially == StaffInit => ReplayInv
  BY MaxStaffTokensAssumption
     DEF StaffInit, ReplayInv, StaffTypeOK, HistoryIsEarlier, OneClientRotates, ShownIsRotated,
         ShownByItsClient, NoStaffSession

\* What steps that rotate and show no token keep.
LEMMA TokensKept ==
  ASSUME ReplayInv, StaffTypeOK', UNCHANGED <<tokenHistory, shown>>,
         \A s \in StaffLogins :
           /\ staffSession'[s].token = staffSession[s].token
           /\ staffSession'[s].state \in Early => staffSession[s].token = 0
           /\ staffSession'[s].state = "live" =>
                staffSession[s].state = "live" \/ staffSession[s].token = 0
  PROVE  ReplayInv'
<1>1. HistoryIsEarlier'
  BY DEF ReplayInv, StaffTypeOK, HistoryIsEarlier
<1>2. OneClientRotates' /\ ShownIsRotated'
  BY DEF ReplayInv, OneClientRotates, ShownIsRotated
<1>3. ShownByItsClient'
  <2> SUFFICES ASSUME NEW x \in shown, NEW h \in tokenHistory,
                      staffSession'[h.session].state = "live",
                      x.session = h.session, x.token = h.token
               PROVE  x.client = h.client
      BY DEF ShownByItsClient, InState
  <2>1. h.session \in StaffLogins /\ h.token \in Nat /\ h.token < staffSession[h.session].token
    BY DEF ReplayInv, StaffTypeOK, HistoryIsEarlier
  <2>2. staffSession[h.session].state = "live"
    BY <2>1
  <2> QED BY <2>2 DEF ReplayInv, ShownByItsClient, InState
<1> QED BY <1>1, <1>2, <1>3 DEF ReplayInv

LEMMA RotateStep ==
  ASSUME ReplayInv, NEW s \in StaffLogins, NEW c \in Clients, RotateSession(s, c)
  PROVE  ReplayInv'
<1> DEFINE t == staffSession[s].token
           h == [session |-> s, token |-> t, client |-> c, recent |-> TRUE]
           x == [session |-> s, token |-> t, client |-> c]
<1>1. /\ staffSession[s].state = "live"
      /\ t \in 0 .. MaxStaffTokens /\ t + 1 \in 0 .. MaxStaffTokens
      /\ tokenHistory' = tokenHistory \cup {h}
      /\ shown' = shown \cup {x}
      /\ UNCHANGED <<staffStatus, staffPassword, underWay>>
  BY MaxStaffTokensAssumption DEF RotateSession, Shows, InState, ReplayInv, StaffTypeOK
<1>2. \A r \in StaffLogins :
        /\ staffSession'[r].state = staffSession[r].state
        /\ staffSession'[r].token = IF r = s THEN t + 1 ELSE staffSession[r].token
  BY DEF RotateSession, ReplayInv, StaffTypeOK
<1>3. StaffTypeOK'
  <2>1. staffSession' \in [StaffLogins ->
          [state: {"none", "verified", "opening", "live", "revoked", "expired"},
           token: 0 .. MaxStaffTokens, knows: Nat]]
    BY <1>1 DEF RotateSession, ReplayInv, StaffTypeOK
  <2>2. h \in [session: StaffLogins, token: 0 .. MaxStaffTokens, client: Clients, recent: BOOLEAN]
        /\ x \in [session: StaffLogins, token: 0 .. MaxStaffTokens, client: Clients]
    BY <1>1
  <2> HIDE DEF h, x
  <2> QED BY <1>1, <2>1, <2>2 DEF ReplayInv, StaffTypeOK
<1>4. \A g \in tokenHistory : g.session \in StaffLogins /\ g.token \in Nat
                              /\ (g.session = s => g.token < t)
  BY DEF ReplayInv, StaffTypeOK, HistoryIsEarlier
<1>5. \A y \in shown : y.session = s => y.token # t
  BY <1>1, <1>4 DEF ReplayInv, ShownIsRotated
<1>6. h.session = s /\ h.token = t /\ h.client = c /\ x.session = s /\ x.token = t /\ x.client = c
  OBVIOUS
<1> HIDE DEF h, x
<1>7. HistoryIsEarlier'
  <2>1. \A r \in StaffLogins : staffSession'[r].state \in Early => staffSession'[r].token = 0
    BY <1>1, <1>2 DEF Early, ReplayInv, HistoryIsEarlier
  <2>2. \A g \in tokenHistory' : g.token < staffSession'[g.session].token
    BY <1>1, <1>2, <1>4, <1>6 DEF ReplayInv, HistoryIsEarlier
  <2> QED BY <2>1, <2>2 DEF HistoryIsEarlier
<1>8. OneClientRotates'
  BY <1>1, <1>4, <1>6 DEF ReplayInv, OneClientRotates
<1>9. ShownIsRotated'
  BY <1>1, <1>6 DEF ReplayInv, ShownIsRotated
<1>10. ShownByItsClient'
  <2> SUFFICES ASSUME NEW y \in shown', NEW g \in tokenHistory',
                      staffSession'[g.session].state = "live",
                      y.session = g.session, y.token = g.token
               PROVE  y.client = g.client
      BY DEF ShownByItsClient, InState
  <2>1. CASE g = h
    BY <1>1, <1>5, <1>6, <2>1
  <2>2. CASE g # h /\ y = x
    BY <1>1, <1>4, <1>6, <2>2
  <2>3. CASE g # h /\ y # x
    BY <1>1, <1>2, <1>4, <2>3 DEF ReplayInv, ShownByItsClient, InState
  <2> QED BY <2>1, <2>2, <2>3
<1> QED BY <1>3, <1>7, <1>8, <1>9, <1>10 DEF ReplayInv
LEMMA ReplayStep ==
  ASSUME ReplayInv, NEW h \in tokenHistory, NEW c \in Clients, ReplayToken(h, c)
  PROVE  ReplayInv'
<1> DEFINE x == [session |-> h.session, token |-> h.token, client |-> c]
<1>1. /\ h.session \in StaffLogins /\ h.token \in 0 .. MaxStaffTokens
      /\ shown' = shown \cup {x}
      /\ UNCHANGED <<staffStatus, staffPassword, tokenHistory, underWay>>
  BY DEF ReplayToken, Shows, ReplayInv, StaffTypeOK
<1>2. \A r \in StaffLogins :
        /\ staffSession'[r].token = staffSession[r].token
        /\ staffSession'[r].state \in {staffSession[r].state, "revoked"}
  BY <1>1 DEF ReplayToken, SetState, ReplayInv, StaffTypeOK
<1>3. StaffTypeOK'
  <2>1. staffSession' \in [StaffLogins ->
          [state: {"none", "verified", "opening", "live", "revoked", "expired"},
           token: 0 .. MaxStaffTokens, knows: Nat]]
    BY <1>1 DEF ReplayToken, SetState, ReplayInv, StaffTypeOK
  <2>2. x \in [session: StaffLogins, token: 0 .. MaxStaffTokens, client: Clients]
    BY <1>1
  <2> HIDE DEF x
  <2> QED BY <1>1, <2>1, <2>2 DEF ReplayInv, StaffTypeOK
<1>4. x.session = h.session /\ x.token = h.token /\ x.client = c
  OBVIOUS
<1> HIDE DEF x
<1>5. HistoryIsEarlier'
  BY <1>1, <1>2 DEF Early, ReplayInv, StaffTypeOK, HistoryIsEarlier
<1>6. OneClientRotates' /\ ShownIsRotated'
  BY <1>1, <1>4 DEF ReplayInv, OneClientRotates, ShownIsRotated
<1>7. ShownByItsClient'
  <2> SUFFICES ASSUME NEW y \in shown', NEW g \in tokenHistory,
                      staffSession'[g.session].state = "live",
                      y.session = g.session, y.token = g.token
               PROVE  y.client = g.client
      BY <1>1 DEF ShownByItsClient, InState
  <2>0. g.session \in StaffLogins /\ staffSession[g.session].state = "live"
    BY <1>2 DEF ReplayInv, StaffTypeOK
  <2>1. CASE y = x
    <3>1. g.session = h.session /\ g.client = h.client
      BY <1>4, <2>1 DEF ReplayInv, OneClientRotates
    <3>2. h.client = c
      BY <1>1, <2>0, <3>1 DEF ReplayToken, SetState, InState, SameClientRetries, ReplayInv,
                              StaffTypeOK
    <3> QED BY <1>4, <2>1, <3>1, <3>2
  <2>2. CASE y # x
    BY <1>1, <2>0, <2>2 DEF ReplayInv, ShownByItsClient, InState
  <2> QED BY <2>1, <2>2
<1> QED BY <1>3, <1>5, <1>6, <1>7 DEF ReplayInv

LEMMA FiveSecondsStep ==
  ASSUME ReplayInv, NEW h \in tokenHistory, FiveSecondsPass(h)
  PROVE  ReplayInv'
<1> DEFINE k == [h EXCEPT !.recent = FALSE]
<1>1. /\ tokenHistory' = (tokenHistory \ {h}) \cup {k}
      /\ UNCHANGED <<staffStatus, staffPassword, staffSession, shown, underWay>>
  BY DEF FiveSecondsPass
<1>2. /\ k \in [session: StaffLogins, token: 0 .. MaxStaffTokens, client: Clients, recent: BOOLEAN]
      /\ k.session = h.session /\ k.token = h.token /\ k.client = h.client
  BY DEF ReplayInv, StaffTypeOK
<1> HIDE DEF k
<1>3. StaffTypeOK'
  BY <1>1, <1>2 DEF ReplayInv, StaffTypeOK
<1>4. HistoryIsEarlier' /\ OneClientRotates'
  BY <1>1, <1>2 DEF ReplayInv, HistoryIsEarlier, OneClientRotates
<1>5. ShownIsRotated'
  <2> SUFFICES ASSUME NEW x \in shown
               PROVE  \E g \in tokenHistory' : x.session = g.session /\ x.token = g.token
      BY <1>1 DEF ShownIsRotated
  <2> PICK g \in tokenHistory : x.session = g.session /\ x.token = g.token
      BY DEF ReplayInv, ShownIsRotated
  <2>1. CASE g = h
    BY <1>1, <1>2, <2>1
  <2>2. CASE g # h
    BY <1>1, <2>2
  <2> QED BY <2>1, <2>2
<1>6. ShownByItsClient'
  BY <1>1, <1>2 DEF ReplayInv, ShownByItsClient, InState
<1> QED BY <1>3, <1>4, <1>5, <1>6 DEF ReplayInv

LEMMA LoginStep ==
  ASSUME ReplayInv, NEW s \in StaffLogins,
         \/ VerifyStaff(s) \/ OpenStaffSession(s) \/ CommitStaffSession(s)
         \/ StaffLogout(s) \/ StaffSessionExpires(s)
  PROVE  ReplayInv'
<1>1. StaffTypeOK' /\ UNCHANGED <<tokenHistory, shown>>
  BY MaxStaffTokensAssumption
     DEF VerifyStaff, OpenStaffSession, CommitStaffSession, StaffLogout, StaffSessionExpires,
         SetState, NoStaffSession, ReplayInv, StaffTypeOK
<1>2. staffSession[s].state \in Early => staffSession[s].token = 0
  BY DEF ReplayInv, HistoryIsEarlier
<1>3. \A r \in StaffLogins :
        /\ staffSession'[r].token = staffSession[r].token
        /\ staffSession'[r].state \in Early => staffSession[r].token = 0
        /\ staffSession'[r].state = "live" =>
             staffSession[r].state = "live" \/ staffSession[r].token = 0
  BY <1>2 DEF VerifyStaff, OpenStaffSession, CommitStaffSession, StaffLogout, StaffSessionExpires,
         InState, SetState, NoStaffSession, Early, ReplayInv, StaffTypeOK, HistoryIsEarlier
<1> QED BY <1>1, <1>3, TokensKept

LEMMA RevocationStep ==
  ASSUME ReplayInv, DisableStaff \/ EnableStaff \/ ResetStaffPassword \/ RevokeStaffSessions
  PROVE  ReplayInv'
<1>1. \A r \in StaffLogins :
        /\ staffSession'[r].token = staffSession[r].token
        /\ staffSession'[r].state \in Early => staffSession[r].token = 0
        /\ staffSession'[r].state = "live" => staffSession[r].state = "live"
  BY DEF DisableStaff, EnableStaff, ResetStaffPassword, RevokeStaffSessions, RevokeAllSessions,
         InState, Early, ReplayInv, StaffTypeOK, HistoryIsEarlier
<1>2. StaffTypeOK' /\ UNCHANGED <<tokenHistory, shown>>
  BY DEF DisableStaff, EnableStaff, ResetStaffPassword, RevokeStaffSessions, RevokeAllSessions,
         NoteUnderWay, ReplayInv, StaffTypeOK
<1> QED BY <1>1, <1>2, TokensKept

LEMMA StaffStep == ReplayInv /\ [StaffSessionsNext]_staffVars => ReplayInv'
<1> SUFFICES ASSUME ReplayInv, [StaffSessionsNext]_staffVars PROVE ReplayInv'
    OBVIOUS
<1>1. CASE UNCHANGED staffVars
  <2>1. StaffTypeOK' /\ UNCHANGED <<tokenHistory, shown, staffSession>>
    BY <1>1 DEF staffVars, ReplayInv, StaffTypeOK
  <2> QED BY <2>1, TokensKept DEF ReplayInv, HistoryIsEarlier
<1> QED BY <1>1, RotateStep, ReplayStep, FiveSecondsStep, LoginStep, RevocationStep
        DEF StaffSessionsNext

\* Of a session that lives, no two clients have shown one rotated token,
\* however refreshes race: AuthenticationRepository.handleRefreshTokenReplay.
THEOREM StolenTokensEndSessions == StaffSpec => []ReplaysEndSessions
<1>1. ReplayInv => ReplaysEndSessions
  <2> SUFFICES ASSUME ReplayInv, NEW x \in shown, NEW y \in shown,
                      x.session = y.session, x.token = y.token, InState(x.session, "live")
               PROVE  x.client = y.client
      BY DEF ReplaysEndSessions
  <2> PICK h \in tokenHistory : x.session = h.session /\ x.token = h.token
      BY DEF ReplayInv, ShownIsRotated
  <2> QED BY DEF ReplayInv, ShownByItsClient
<1> QED BY <1>1, ReplayInitially, StaffStep, PTL DEF StaffSpec

-----------------------------------------------------------------------------
(* Staff: logins that overlap a change of the account.                   *)

\* A login knows the password of now, or was under way when it was set; and
\* one that read an active account was under way when it was disabled.
LateLogins ==
  \A s \in StaffLogins :
    /\ staffSession[s].state \in {"verified", "opening", "live"}
         /\ staffSession[s].knows # staffPassword => s \in underWay
    /\ staffSession[s].state \in {"opening", "live"}
         /\ staffStatus = "disabled" => s \in underWay

LEMMA LateStep ==
  ASSUME ReplayInv, LateLogins, [StaffSessionsNext]_staffVars
  PROVE  LateLogins'
<1> USE DEF ReplayInv, StaffTypeOK
<1>1. ASSUME NEW s \in StaffLogins,
             \/ VerifyStaff(s) \/ OpenStaffSession(s) \/ CommitStaffSession(s)
             \/ StaffLogout(s) \/ StaffSessionExpires(s)
      PROVE  LateLogins'
  BY <1>1 DEF VerifyStaff, OpenStaffSession, CommitStaffSession, StaffLogout, StaffSessionExpires,
              InState, SetState, NoStaffSession, LateLogins
<1>2. ASSUME NEW s \in StaffLogins, NEW c \in Clients, RotateSession(s, c)
      PROVE  LateLogins'
  BY <1>2 DEF RotateSession, LateLogins
<1>3. ASSUME NEW h \in tokenHistory, NEW c \in Clients, ReplayToken(h, c)
      PROVE  LateLogins'
  BY <1>3 DEF ReplayToken, SetState, LateLogins
<1>4. ASSUME NEW h \in tokenHistory, FiveSecondsPass(h)
      PROVE  LateLogins'
  BY <1>4 DEF FiveSecondsPass, LateLogins
<1>5. CASE DisableStaff \/ ResetStaffPassword \/ RevokeStaffSessions
  <2>1. underWay' = {s \in StaffLogins : staffSession[s].state \in {"verified", "opening"}}
    BY <1>5 DEF DisableStaff, ResetStaffPassword, RevokeStaffSessions, NoteUnderWay
  <2>2. \A s \in StaffLogins : staffSession'[s].state # "live"
          /\ (staffSession'[s].state \in {"verified", "opening"} => s \in underWay')
    BY <1>5, <2>1 DEF DisableStaff, ResetStaffPassword, RevokeStaffSessions, RevokeAllSessions,
                      InState
  <2> QED BY <2>2 DEF LateLogins
<1>6. CASE EnableStaff
  BY <1>6 DEF EnableStaff, LateLogins
<1>7. CASE UNCHANGED staffVars
  BY <1>7 DEF staffVars, LateLogins
<1> QED BY <1>1, <1>2, <1>3, <1>4, <1>5, <1>6, <1>7 DEF StaffSessionsNext

\* Nothing but a login that overlapped it outlives a password reset or a
\* disabling: AuthenticationRepository.createSession, StaffManagementService.
THEOREM LoginsOutliveNothingElse == StaffSpec => []OnlyLoginsUnderWaySurvive
<1>1. StaffInit => LateLogins
  <2> SUFFICES ASSUME StaffInit, NEW s \in StaffLogins
               PROVE  staffSession[s].state = "none"
      BY DEF LateLogins
  <2> QED BY DEF StaffInit, NoStaffSession
<1>2. ReplayInv /\ LateLogins /\ [StaffSessionsNext]_staffVars => (ReplayInv /\ LateLogins)'
  BY LateStep, StaffStep
<1>3. LateLogins => OnlyLoginsUnderWaySurvive
  BY DEF LateLogins, OnlyLoginsUnderWaySurvive, InState
<1> QED BY <1>1, <1>2, <1>3, ReplayInitially, PTL DEF StaffSpec

\* What ended the sessions of a member of staff ended all that were not about to open.
THEOREM StaffSessionsStayEnded == StaffSpec => []EndedSessionsStayEnded
BY StolenTokensEndSessions, LoginsOutliveNothingElse, PTL DEF EndedSessionsStayEnded

-----------------------------------------------------------------------------
(* Customers: what a session knows and which challenge opened it.        *)

\* An account that was never active has no session, and the sessions a
\* challenge opened, and the request it may open one for, were found when it
\* was consumed.
NobodyHasNoSession == account = "none" => \A s \in SessionRows : ~IsLive(s)

OpenersAreConsumed ==
  /\ \A s \in SessionRows : session[s].via \in Challenges => challenge[session[s].via] = "consumed"
  /\ \A s \in SessionRows : session[s] = NoSession => session[s].via = NoRow

IdentitiesAreConsumed ==
  \A r \in Requests : request[r].kind = "identity" =>
    /\ request[r].row \in Challenges
    /\ challenge[request[r].row] = "consumed"
    /\ \A s \in SessionRows : session[s].via # request[r].row
    /\ \A q \in Requests :
         request[q].kind = "identity" /\ request[q].row = request[r].row => q = r

RequestsAreOfTheirKind ==
  \A r \in Requests :
    /\ request[r].kind = "login" => request[r].row = NoRow
    /\ request[r].kind = "vouched" => request[r].row \in Challenges
    /\ request[r].kind \in {"principal", "verified"} => request[r].row \in SessionRows

KnowInv ==
  /\ SessionTypeOK /\ NobodyHasNoSession /\ OpenersAreConsumed
  /\ IdentitiesAreConsumed /\ RequestsAreOfTheirKind /\ SessionsKnowThePassword

LEMMA KnowInitially == SessionInit => KnowInv
<1> SUFFICES ASSUME SessionInit PROVE KnowInv
    OBVIOUS
<1>1. /\ \A s \in SessionRows : session[s] = NoSession /\ session[s].state = "none"
                                /\ session[s].via = NoRow
      /\ \A r \in Requests : request[r] = NoRequest /\ request[r].kind = "none"
  BY DEF SessionInit, NoSession, NoRequest
<1>2. SessionTypeOK
  BY DEF SessionInit, SessionTypeOK, NoSession, NoRequest, Kinds
<1> QED BY <1>1, <1>2, NoRowAssumption
        DEF KnowInv, NobodyHasNoSession, OpenersAreConsumed, IdentitiesAreConsumed,
            RequestsAreOfTheirKind, SessionsKnowThePassword, IsLive

\* Steps that only end requests or carry them on by their own rules, revoke
\* sessions, and leave what a live one knows alone.
LEMMA KnowKept ==
  ASSUME KnowInv, SessionTypeOK', UNCHANGED challenge,
         account' = "none" => account = "none",
         password' = password \/ \A s \in SessionRows : session'[s].state = "live" =>
                                   session'[s].knows = password',
         \A s \in SessionRows :
           /\ session'[s].via = session[s].via
           /\ session'[s] = NoSession => session[s] = NoSession
           /\ session'[s].state = "live" =>
                session[s].state = "live" /\ (password' = password =>
                                                session'[s].knows = session[s].knows),
         \A r \in Requests : request'[r].kind = "identity" => request'[r] = request[r],
         RequestsAreOfTheirKind'
  PROVE  KnowInv'
<1>1. NobodyHasNoSession'
  BY DEF KnowInv, NobodyHasNoSession, IsLive
<1>2. OpenersAreConsumed'
  BY DEF KnowInv, OpenersAreConsumed
<1>3. IdentitiesAreConsumed'
  BY DEF KnowInv, IdentitiesAreConsumed
<1>4. SessionsKnowThePassword'
  BY DEF KnowInv, SessionsKnowThePassword, IsLive
<1> QED BY <1>1, <1>2, <1>3, <1>4 DEF KnowInv

Row == [state: {"none", "live", "revoked"}, device: DeviceRows \cup {NoRow}, rotations: Nat,
        age: {"fresh", "expired"}, knows: Nat, via: Challenges \cup {NoRow}]

LEMMA RevokedRows ==
  ASSUME SessionTypeOK, NEW ended
  PROVE  /\ Revoked(ended) \in [SessionRows -> Row]
         /\ \A s \in SessionRows :
              /\ Revoked(ended)[s].via = session[s].via
              /\ Revoked(ended)[s].knows = session[s].knows
              /\ Revoked(ended)[s].rotations = session[s].rotations
              /\ Revoked(ended)[s] = NoSession => session[s] = NoSession
              /\ Revoked(ended)[s].state = "live" => session[s].state = "live" /\ s \notin ended
              /\ session[s].state = "revoked" => Revoked(ended)[s] = session[s]
<1>1. \A s \in SessionRows : session[s] \in Row
  BY DEF SessionTypeOK, Row
<1>2. \A s \in SessionRows : Revoked(ended)[s] =
        IF session[s].state = "live" /\ s \in ended
        THEN [session[s] EXCEPT !.state = "revoked"] ELSE session[s]
  BY DEF Revoked, IsLive
<1>3. Revoked(ended) \in [SessionRows -> Row]
  BY <1>1 DEF Revoked, Row
<1>4. \A s \in SessionRows : session[s].state = "live" =>
        [session[s] EXCEPT !.state = "revoked"] # NoSession
  BY <1>1 DEF Row, NoSession
<1> QED BY <1>1, <1>2, <1>3, <1>4 DEF Row

RequestRecord == [kind: Kinds, saw: Nat, row: SessionRows \cup Challenges \cup {NoRow}]

Proper(k) ==
  /\ k \in RequestRecord
  /\ k.kind # "identity"
  /\ k.kind = "login" => k.row = NoRow
  /\ k.kind = "vouched" => k.row \in Challenges
  /\ k.kind \in {"principal", "verified"} => k.row \in SessionRows

LEMMA NoRequestIsProper == Proper(NoRequest)
  BY DEF Proper, NoRequest, RequestRecord, Kinds

LEMMA RequestBecomes ==
  ASSUME KnowInv, NEW r \in Requests, NEW k, Proper(k), request' = [request EXCEPT ![r] = k]
  PROVE  /\ RequestsAreOfTheirKind'
         /\ request' \in [Requests -> RequestRecord]
         /\ \A q \in Requests : request'[q].kind = "identity" => request'[q] = request[q]
<1>1. request \in [Requests -> RequestRecord] /\ k \in RequestRecord
  BY DEF KnowInv, SessionTypeOK, RequestRecord, Proper
<1>2. \A q \in Requests : request'[q] = IF q = r THEN k ELSE request[q]
  BY <1>1
<1>3. RequestsAreOfTheirKind'
  BY <1>2 DEF KnowInv, RequestsAreOfTheirKind, Proper
<1>4. \A q \in Requests : request'[q].kind = "identity" => request'[q] = request[q]
  BY <1>2 DEF Proper
<1> QED BY <1>1, <1>3, <1>4

\* Steps of requests that touch nothing else.
LEMMA RequestStep ==
  ASSUME KnowInv, NEW r \in Requests,
         \/ Login(r) \/ VerifyPassword(r) \/ RefuseRequest(r)
         \/ \E c \in Challenges : IdentityVouched(r, c)
         \/ \E s \in SessionRows : AuthenticateAccess(r, s)
  PROVE  KnowInv'
<1>1. UNCHANGED <<account, password, device, session, challenge>>
  BY DEF Login, VerifyPassword, RefuseRequest, IdentityVouched, AuthenticateAccess
<1>2. \E k : Proper(k) /\ request' = [request EXCEPT ![r] = k]
  <2>1. CASE Login(r)
    <3> DEFINE k == [kind |-> "login", saw |-> password, row |-> NoRow]
    <3>1. Proper(k)
      BY DEF Proper, RequestRecord, Kinds, KnowInv, SessionTypeOK
    <3> QED BY <2>1, <3>1 DEF Login
  <2>2. CASE VerifyPassword(r)
    <3> DEFINE k == [request[r] EXCEPT !.kind = "verified", !.saw = password]
    <3>1. request[r].kind = "principal" /\ request[r].row \in SessionRows
      BY <2>2 DEF VerifyPassword, KnowInv, RequestsAreOfTheirKind
    <3>2. request[r] \in RequestRecord /\ password \in Nat
      BY DEF KnowInv, SessionTypeOK, RequestRecord
    <3>3. Proper(k)
      BY <3>1, <3>2 DEF Proper, RequestRecord, Kinds
    <3>4. request' = [request EXCEPT ![r] = k]
      BY <2>2 DEF VerifyPassword, KnowInv, SessionTypeOK
    <3> HIDE DEF k
    <3> QED BY <3>3, <3>4
  <2>3. CASE RefuseRequest(r)
    BY <2>3, NoRequestIsProper DEF RefuseRequest, Answered
  <2>4. ASSUME NEW c \in Challenges, IdentityVouched(r, c)
        PROVE  \E k : Proper(k) /\ request' = [request EXCEPT ![r] = k]
    <3> DEFINE k == [kind |-> "vouched", saw |-> 0, row |-> c]
    <3>1. Proper(k)
      BY DEF Proper, RequestRecord, Kinds
    <3> QED BY <2>4, <3>1 DEF IdentityVouched
  <2>5. ASSUME NEW s \in SessionRows, AuthenticateAccess(r, s)
        PROVE  \E k : Proper(k) /\ request' = [request EXCEPT ![r] = k]
    <3> DEFINE k == [kind |-> "principal", saw |-> 0, row |-> s]
    <3>1. Proper(k)
      BY DEF Proper, RequestRecord, Kinds
    <3> QED BY <2>5, <3>1 DEF AuthenticateAccess
  <2> QED BY <2>1, <2>2, <2>3, <2>4, <2>5
<1> PICK k : Proper(k) /\ request' = [request EXCEPT ![r] = k]
    BY <1>2
<1>3. SessionTypeOK'
  BY <1>1, RequestBecomes DEF KnowInv, SessionTypeOK, RequestRecord
<1> QED BY <1>1, <1>3, RequestBecomes, KnowKept

\* Steps that end sessions, and requests with them.
LEMMA EndingStep ==
  ASSUME KnowInv,
         account' = account \/ account' \in {"disabled", "erasure_pending"},
         \E ended : session' = Revoked(ended) /\ (password' = password \/ ended = SessionRows),
         password' \in Nat, device' \in [DeviceRows -> {"none", "active", "revoked"}],
         request' = request \/ \E r \in Requests : Answered(r),
         UNCHANGED challenge
  PROVE  KnowInv'
<1> PICK ended : session' = Revoked(ended) /\ (password' = password \/ ended = SessionRows)
    OBVIOUS
<1> DEFINE Fits ==
      /\ RequestsAreOfTheirKind'
      /\ request' \in [Requests -> RequestRecord]
      /\ \A q \in Requests : request'[q].kind = "identity" => request'[q] = request[q]
<1>1. Fits
  <2>1. CASE request' = request
    BY <2>1 DEF KnowInv, SessionTypeOK, RequestRecord, RequestsAreOfTheirKind
  <2>2. ASSUME NEW r \in Requests, Answered(r)
        PROVE  Fits
    BY <2>2, NoRequestIsProper, RequestBecomes DEF Answered
  <2> QED BY <2>1, <2>2
<1>2. SessionTypeOK
  BY DEF KnowInv
<1>3. SessionTypeOK'
  <2>1. account' \in {"none", "active", "disabled", "erasure_pending"}
    BY <1>2 DEF SessionTypeOK
  <2>2. session' \in [SessionRows -> Row]
    BY <1>2, RevokedRows
  <2> QED BY <1>1, <1>2, <2>1, <2>2 DEF SessionTypeOK, RequestRecord, Row
<1> QED BY <1>1, <1>2, <1>3, RevokedRows, KnowKept

\* Staff let the customer in again, or the customer comes for the first time.
LEMMA AccountStep ==
  ASSUME KnowInv, Register \/ StaffEnables
  PROVE  KnowInv'
<1>1. SessionTypeOK' /\ account' = "active" /\ UNCHANGED <<device, session, challenge, request>>
  BY DEF Register, StaffEnables, KnowInv, SessionTypeOK
<1>2. password' = password \/ \A s \in SessionRows : session[s].state # "live"
  BY DEF Register, StaffEnables, KnowInv, NobodyHasNoSession, IsLive
<1>3. RequestsAreOfTheirKind'
  BY <1>1 DEF KnowInv, RequestsAreOfTheirKind
<1> QED BY <1>1, <1>2, <1>3, KnowKept

\* Steps that change one session and end none.
LEMMA TokenStep ==
  ASSUME KnowInv, NEW s \in SessionRows, Refresh(s) \/ SessionExpires(s)
  PROVE  KnowInv'
<1>1. session[s] \in Row /\ session[s].state # "none"
      /\ UNCHANGED <<account, password, device, challenge, request>>
  BY DEF KnowInv, SessionTypeOK, Row, Refresh, IsLive, SessionExpires
<1>2. \E row \in Row :
        /\ session' = [session EXCEPT ![s] = row]
        /\ row.state = session[s].state /\ row.knows = session[s].knows
        /\ row.via = session[s].via
  <2>1. CASE Refresh(s)
    <3> DEFINE row == [session[s] EXCEPT !.rotations = @ + 1]
    <3>1. row \in Row /\ row.state = session[s].state /\ row.knows = session[s].knows
          /\ row.via = session[s].via
      BY <1>1 DEF Row
    <3>2. session' = [session EXCEPT ![s] = row]
      BY <2>1 DEF Refresh, KnowInv, SessionTypeOK
    <3> HIDE DEF row
    <3> QED BY <3>1, <3>2
  <2>2. CASE SessionExpires(s)
    <3> DEFINE row == [session[s] EXCEPT !.age = "expired"]
    <3>1. row \in Row /\ row.state = session[s].state /\ row.knows = session[s].knows
          /\ row.via = session[s].via
      BY <1>1 DEF Row
    <3>2. session' = [session EXCEPT ![s] = row]
      BY <2>2 DEF SessionExpires, KnowInv, SessionTypeOK
    <3> HIDE DEF row
    <3> QED BY <3>1, <3>2
  <2> QED BY <2>1, <2>2
<1> PICK row \in Row :
      /\ session' = [session EXCEPT ![s] = row]
      /\ row.state = session[s].state /\ row.knows = session[s].knows
      /\ row.via = session[s].via
    BY <1>2
<1>3. row # NoSession
  BY <1>1 DEF NoSession
<1>4. session \in [SessionRows -> Row]
  BY DEF KnowInv, SessionTypeOK, Row
<1>5. SessionTypeOK'
  BY <1>1, <1>4 DEF KnowInv, SessionTypeOK, Row
<1>6. \A t \in SessionRows :
        /\ session'[t].via = session[t].via
        /\ session'[t] = NoSession => session[t] = NoSession
        /\ session'[t].state = "live" => session[t].state = "live"
                                         /\ session'[t].knows = session[t].knows
  BY <1>3, <1>4
<1>7. RequestsAreOfTheirKind'
  BY <1>1 DEF KnowInv, RequestsAreOfTheirKind
<1> QED BY <1>1, <1>5, <1>6, <1>7, KnowKept

\* The session that changed the password learns the new one, the others end.
LEMMA PasswordStep ==
  ASSUME KnowInv, NEW r \in Requests, ChangePassword(r)
  PROVE  KnowInv'
<1> DEFINE own == request[r].row
           mine == [session[own] EXCEPT !.knows = password + 1]
<1>1. own \in SessionRows /\ password \in Nat /\ session[own].state = "live"
      /\ SessionTypeOK /\ session[own] \in Row
  BY DEF ChangePassword, IsLive, KnowInv, SessionTypeOK, RequestsAreOfTheirKind, Row
<1>2. Revoked(SessionRows \ {own})[own] = session[own]
  BY <1>1 DEF Revoked
<1>3. mine \in Row /\ mine.state = "live" /\ mine.knows = password + 1
      /\ mine.via = session[own].via /\ mine # NoSession
  BY <1>1 DEF Row, NoSession
<1>4. session' = [Revoked(SessionRows \ {own}) EXCEPT ![own] = mine]
  BY <1>1, <1>2, RevokedRows DEF ChangePassword
<1> HIDE DEF mine, own
<1>5. \A s \in SessionRows :
        session'[s] = IF s = own THEN mine ELSE Revoked(SessionRows \ {own})[s]
  BY <1>1, <1>4, RevokedRows
<1>6. password' = password + 1 /\ Answered(r) /\ UNCHANGED <<account, device, challenge>>
  BY DEF ChangePassword
<1>7. RequestsAreOfTheirKind' /\ request' \in [Requests -> RequestRecord] /\
      \A q \in Requests : request'[q].kind = "identity" => request'[q] = request[q]
  BY <1>6, NoRequestIsProper, RequestBecomes DEF Answered
<1>8. session' \in [SessionRows -> Row]
  BY <1>1, <1>3, <1>4, RevokedRows
<1>9. SessionTypeOK'
  BY <1>1, <1>6, <1>7, <1>8 DEF SessionTypeOK, RequestRecord, Row
<1>10. \A s \in SessionRows :
         /\ session'[s].via = session[s].via
         /\ session'[s] = NoSession => session[s] = NoSession
         /\ session'[s].state = "live" => session[s].state = "live" /\ session'[s].knows = password'
  BY <1>1, <1>3, <1>5, <1>6, RevokedRows
<1>11. password' # password
  BY <1>1, <1>6
<1> QED BY <1>6, <1>7, <1>9, <1>10, <1>11, KnowKept

LEMMA ChallengeStep ==
  ASSUME KnowInv, NEW c \in Challenges, IdentityChallenge(c)
  PROVE  KnowInv'
<1>1. /\ challenge[c] = "none" /\ challenge' = [challenge EXCEPT ![c] = "open"]
      /\ UNCHANGED <<account, password, device, session, request>>
  BY DEF IdentityChallenge
<1>2. SessionTypeOK' /\ \A d \in Challenges : challenge[d] = "consumed" => challenge'[d] = "consumed"
  BY <1>1 DEF KnowInv, SessionTypeOK
<1> QED BY <1>1, <1>2
        DEF KnowInv, NobodyHasNoSession, OpenersAreConsumed, IdentitiesAreConsumed,
            RequestsAreOfTheirKind, SessionsKnowThePassword, IsLive, SessionTypeOK

LEMMA IdentityStep ==
  ASSUME KnowInv, NEW r \in Requests, IdentityLogin(r)
  PROVE  KnowInv'
<1> DEFINE c == request[r].row
           k == [request[r] EXCEPT !.kind = "identity"]
<1>1. /\ c \in Challenges /\ challenge[c] = "open"
      /\ challenge' = [challenge EXCEPT ![c] = "consumed"]
      /\ request' = [request EXCEPT ![r] = k]
      /\ UNCHANGED <<device, session>>
      /\ SessionTypeOK /\ request[r] \in RequestRecord
  BY DEF IdentityLogin, KnowInv, RequestsAreOfTheirKind, SessionTypeOK, RequestRecord
<1>2. k.kind = "identity" /\ k.row = c /\ k \in RequestRecord
  BY <1>1 DEF RequestRecord, Kinds
<1> HIDE DEF k, c
<1>3. \A q \in Requests : request'[q] = IF q = r THEN k ELSE request[q]
  BY <1>1 DEF SessionTypeOK
<1>4. \A d \in Challenges : challenge'[d] = IF d = c THEN "consumed" ELSE challenge[d]
  BY <1>1 DEF SessionTypeOK
<1>5. SessionTypeOK'
  <2>1. account' \in {"none", "active", "disabled", "erasure_pending"} /\ password' \in Nat
    BY <1>1 DEF IdentityLogin, SessionTypeOK
  <2>2. challenge' \in [Challenges -> {"none", "open", "consumed"}]
    BY <1>1 DEF SessionTypeOK
  <2>3. request' \in [Requests -> RequestRecord]
    BY <1>1, <1>2 DEF SessionTypeOK, RequestRecord
  <2> QED BY <1>1, <2>1, <2>2, <2>3 DEF SessionTypeOK, RequestRecord
<1>6. NobodyHasNoSession' /\ SessionsKnowThePassword'
  BY <1>1 DEF IdentityLogin, KnowInv, NobodyHasNoSession, SessionsKnowThePassword, IsLive
<1>7. OpenersAreConsumed'
  BY <1>1, <1>4 DEF KnowInv, OpenersAreConsumed
<1>8. \A s \in SessionRows : session[s].via # c
  BY <1>1 DEF KnowInv, OpenersAreConsumed
<1>9. \A q \in Requests : request[q].kind = "identity" => request[q].row # c
  BY <1>1 DEF KnowInv, IdentitiesAreConsumed
<1>10. IdentitiesAreConsumed'
  BY <1>1, <1>2, <1>3, <1>4, <1>8, <1>9 DEF KnowInv, IdentitiesAreConsumed
<1>11. RequestsAreOfTheirKind'
  BY <1>2, <1>3 DEF KnowInv, RequestsAreOfTheirKind
<1> QED BY <1>5, <1>6, <1>7, <1>10, <1>11 DEF KnowInv

LEMMA OpenStep ==
  ASSUME KnowInv, NEW r \in Requests, NEW d \in DeviceRows, NEW evicted \in SUBSET DeviceRows,
         request[r].kind \in {"login", "identity"}, StillProven(r), Open(r, d, evicted)
  PROVE  KnowInv'
<1> DEFINE ended == SessionsOn(evicted \cup {d})
           row == [state |-> "live", device |-> d, rotations |-> 0, age |-> "fresh",
                   knows |-> IF request[r].kind = "identity" THEN password ELSE request[r].saw,
                   via |-> request[r].row]
<1> PICK s \in SessionRows :
      /\ session[s] = NoSession
      /\ device' = [e \in DeviceRows |-> IF e = d THEN "active"
                                         ELSE IF e \in evicted THEN "revoked" ELSE device[e]]
      /\ session' = [Revoked(ended) EXCEPT ![s] = row]
      /\ Answered(r)
      /\ UNCHANGED <<account, password, challenge>>
    BY DEF Open
<1>1. SessionTypeOK /\ request[r] \in RequestRecord /\ account = "active"
  BY DEF KnowInv, SessionTypeOK, RequestRecord, StillProven
<1>2. row.knows = password /\ row.via = request[r].row /\ row.state = "live"
  BY DEF StillProven
<1>3. request[r].row \in Challenges \cup {NoRow}
  BY DEF KnowInv, RequestsAreOfTheirKind, IdentitiesAreConsumed
<1>4. row \in Row
  BY <1>1, <1>3 DEF Row, RequestRecord, SessionTypeOK
<1>5. row # NoSession
  BY DEF NoSession
<1> HIDE DEF row, ended
<1>6. \A t \in SessionRows : session'[t] = IF t = s THEN row ELSE Revoked(ended)[t]
  BY <1>1, RevokedRows
<1>7. RequestsAreOfTheirKind' /\ request' \in [Requests -> RequestRecord] /\
      (\A q \in Requests : request'[q].kind = "identity" => request'[q] = request[q] /\ q # r)
  BY NoRequestIsProper, RequestBecomes DEF Answered, NoRequest, KnowInv, SessionTypeOK
<1>8. SessionTypeOK'
  <2>1. session' \in [SessionRows -> Row]
    BY <1>1, <1>4, RevokedRows
  <2>2. device' \in [DeviceRows -> {"none", "active", "revoked"}]
    BY <1>1 DEF SessionTypeOK
  <2> QED BY <1>1, <1>7, <2>1, <2>2 DEF SessionTypeOK, RequestRecord, Row
<1>9. NobodyHasNoSession'
  BY <1>1 DEF NobodyHasNoSession
<1>10. session[s].via = NoRow
  BY DEF KnowInv, OpenersAreConsumed
<1>11. request[r].row \in Challenges => request[r].kind = "identity"
  BY NoRowAssumption DEF KnowInv, RequestsAreOfTheirKind
<1>12. OpenersAreConsumed'
  BY <1>1, <1>2, <1>5, <1>6, <1>11, RevokedRows
     DEF KnowInv, OpenersAreConsumed, IdentitiesAreConsumed
<1>13. IdentitiesAreConsumed'
  <2> SUFFICES ASSUME NEW q \in Requests, request[q].kind = "identity", q # r,
                      request'[q] = request[q]
               PROVE  /\ request[q].row \in Challenges
                      /\ challenge[request[q].row] = "consumed"
                      /\ \A t \in SessionRows : session'[t].via # request[q].row
                      /\ \A p \in Requests :
                           request'[p].kind = "identity" /\ request'[p].row = request[q].row => p = q
      BY <1>7 DEF IdentitiesAreConsumed
  <2>1. row.via # request[q].row
    BY <1>2, <1>11 DEF KnowInv, IdentitiesAreConsumed
  <2> QED BY <1>1, <1>6, <1>7, <2>1, RevokedRows DEF KnowInv, IdentitiesAreConsumed
<1>14. SessionsKnowThePassword'
  <2>1. \A t \in SessionRows : session'[t].state = "live" => session'[t].knows = password
    BY <1>1, <1>2, <1>6, RevokedRows DEF KnowInv, SessionsKnowThePassword, IsLive
  <2>2. \A t \in SessionRows : t # s /\ row.via # NoRow => session[t].via # row.via
    BY <1>2, <1>3, <1>11 DEF KnowInv, IdentitiesAreConsumed
  <2>3. \A t, u \in SessionRows :
          session'[t].via # NoRow /\ session'[t].via = session'[u].via => t = u
    BY <1>1, <1>6, <2>2, RevokedRows DEF KnowInv, SessionsKnowThePassword
  <2> QED BY <2>1, <2>3 DEF SessionsKnowThePassword, IsLive
<1> QED BY <1>7, <1>8, <1>9, <1>12, <1>13, <1>14 DEF KnowInv

LEMMA RevokingStep ==
  ASSUME KnowInv,
         \/ ResetPassword \/ StaffDisables \/ StaffRevokesSessions
         \/ \E s \in SessionRows : RefreshReplay(s) \/ Logout(s)
         \/ \E d \in DeviceRows : StaffRevokesDevice(d)
         \/ \E r \in Requests : DisableOwnAccount(r) \/ RequestErasure(r)
         \/ \E r \in Requests, d \in DeviceRows : RevokeDevice(r, d)
  PROVE  KnowInv'
<1>0. password \in Nat /\ device \in [DeviceRows -> {"none", "active", "revoked"}]
  BY DEF KnowInv, SessionTypeOK
<1>1. account' = account \/ account' \in {"disabled", "erasure_pending"}
  BY DEF ResetPassword, StaffDisables, StaffRevokesSessions, RefreshReplay, Logout,
         StaffRevokesDevice, DisableOwnAccount, RequestErasure, RevokeDevice
<1>2. \E ended : session' = Revoked(ended) /\ (password' = password \/ ended = SessionRows)
  BY DEF ResetPassword, StaffDisables, StaffRevokesSessions, RefreshReplay, Logout,
         StaffRevokesDevice, DisableOwnAccount, RequestErasure, RevokeDevice, CloseAll
<1>3. password' \in Nat /\ device' \in [DeviceRows -> {"none", "active", "revoked"}]
  <2>1. password' = password \/ password' = password + 1
    BY DEF ResetPassword, StaffDisables, StaffRevokesSessions, RefreshReplay, Logout,
           StaffRevokesDevice, DisableOwnAccount, RequestErasure, RevokeDevice
  <2>2. CASE device' = device
    BY <1>0, <2>1, <2>2
  <2>3. CASE CloseAll
    BY <1>0, <2>1, <2>3 DEF CloseAll
  <2>4. ASSUME NEW d \in DeviceRows, device' = [device EXCEPT ![d] = "revoked"]
        PROVE  password' \in Nat /\ device' \in [DeviceRows -> {"none", "active", "revoked"}]
    BY <1>0, <2>1, <2>4
  <2> QED BY <2>2, <2>3, <2>4
          DEF ResetPassword, StaffDisables, StaffRevokesSessions, RefreshReplay, Logout,
              StaffRevokesDevice, DisableOwnAccount, RequestErasure, RevokeDevice
<1>4. UNCHANGED challenge /\ (request' = request \/ \E r \in Requests : Answered(r))
  BY DEF ResetPassword, StaffDisables, StaffRevokesSessions, RefreshReplay, Logout,
         StaffRevokesDevice, DisableOwnAccount, RequestErasure, RevokeDevice
<1> QED BY <1>1, <1>2, <1>3, <1>4, EndingStep

LEMMA KnowStep == KnowInv /\ [SessionNext]_accountVars => KnowInv'
<1> SUFFICES ASSUME KnowInv, [SessionNext]_accountVars PROVE KnowInv'
    OBVIOUS
<1>1. ASSUME NEW r \in Requests, RequestNext(r) PROVE KnowInv'
  <2>1. ASSUME NEW d \in DeviceRows, IssueOnKnownDevice(r, d) PROVE KnowInv'
    BY <2>1, OpenStep DEF IssueOnKnownDevice
  <2>2. ASSUME NEW d \in DeviceRows, IssueOnNewDevice(r, d) PROVE KnowInv'
    BY <2>2, OpenStep DEF IssueOnNewDevice, ActiveDevices
  <2> QED BY <1>1, <2>1, <2>2, RequestStep, IdentityStep, PasswordStep, RevokingStep
          DEF RequestNext
<1>2. CASE UNCHANGED accountVars
  BY <1>2 DEF accountVars, KnowInv, SessionTypeOK, NobodyHasNoSession, OpenersAreConsumed,
              IdentitiesAreConsumed, RequestsAreOfTheirKind, SessionsKnowThePassword, IsLive
<1> QED BY <1>1, <1>2, AccountStep, ChallengeStep, TokenStep, RevokingStep DEF SessionNext

\* Nobody is let in by a password that is not the account's any more, or twice
\* by one answer of an identity provider, whatever happens between the check
\* and the insert: CustomerAuthenticationService.issueCustomerSession.
THEOREM OldPasswordsLetNobodyIn == SessionSpec => []SessionsKnowThePassword
<1>1. KnowInv => SessionsKnowThePassword
  BY DEF KnowInv
<1> QED BY <1>1, KnowInitially, KnowStep, PTL DEF SessionSpec

\* What the action property says of a step.
EndedStayEnded ==
  \A s \in SessionRows : session[s].state = "revoked" =>
    /\ session'[s].state = "revoked"
    /\ session'[s].rotations = session[s].rotations

LEMMA EndedStep == KnowInv /\ SessionNext => EndedStayEnded
<1> SUFFICES ASSUME KnowInv, SessionNext, NEW s \in SessionRows, session[s].state = "revoked"
             PROVE  session'[s].state = "revoked" /\ session'[s].rotations = session[s].rotations
    BY DEF EndedStayEnded
<1>1. SessionTypeOK /\ session \in [SessionRows -> Row]
  BY DEF KnowInv, SessionTypeOK, Row
<1>2. ASSUME NEW ended, session' = Revoked(ended)
      PROVE  session'[s].state = "revoked" /\ session'[s].rotations = session[s].rotations
  BY <1>1, <1>2, RevokedRows
<1>3. ASSUME NEW ended, NEW t \in SessionRows, t # s, NEW row,
             session' = [Revoked(ended) EXCEPT ![t] = row]
      PROVE  session'[s].state = "revoked" /\ session'[s].rotations = session[s].rotations
  BY <1>1, <1>3, RevokedRows
<1>4. ASSUME NEW t \in SessionRows, Refresh(t)
      PROVE  session'[s].state = "revoked" /\ session'[s].rotations = session[s].rotations
  BY <1>1, <1>4 DEF Refresh, IsLive
<1>5. ASSUME NEW t \in SessionRows, SessionExpires(t)
      PROVE  session'[s].state = "revoked" /\ session'[s].rotations = session[s].rotations
  <2>1. CASE t = s
    <3>1. session'[s] = [session[s] EXCEPT !.age = "expired"] /\ session[s] \in Row
      BY <1>1, <1>5, <2>1 DEF SessionExpires
    <3> QED BY <3>1 DEF Row
  <2>2. CASE t # s
    BY <1>1, <1>5, <2>2 DEF SessionExpires
  <2> QED BY <2>1, <2>2
<1>6. ASSUME NEW r \in Requests, RequestNext(r)
      PROVE  session'[s].state = "revoked" /\ session'[s].rotations = session[s].rotations
  <2>1. CASE UNCHANGED session
    BY <2>1
  <2>2. ASSUME NEW d \in DeviceRows, NEW evicted, Open(r, d, evicted)
        PROVE  session'[s].state = "revoked" /\ session'[s].rotations = session[s].rotations
    <3>1. NoSession.state # "revoked"
      BY DEF NoSession
    <3>2. \E t \in SessionRows : \E row, ended :
            session[t] = NoSession /\ session' = [Revoked(ended) EXCEPT ![t] = row]
      BY <2>2, ZenonT(60) DEF Open
    <3> QED BY <1>3, <3>1, <3>2
  <2>3. CASE ChangePassword(r)
    <3>1. request[r].row \in SessionRows /\ session[request[r].row].state = "live"
      BY <2>3 DEF ChangePassword, IsLive, KnowInv, RequestsAreOfTheirKind
    <3>2. \E row : session' = [Revoked(SessionRows \ {request[r].row}) EXCEPT ![request[r].row] = row]
      BY <2>3, Zenon DEF ChangePassword
    <3> QED BY <1>3, <3>1, <3>2
  <2>4. ASSUME NEW d \in DeviceRows, RevokeDevice(r, d)
        PROVE  session'[s].state = "revoked" /\ session'[s].rotations = session[s].rotations
    BY <1>2, <2>4 DEF RevokeDevice
  <2>5. CASE DisableOwnAccount(r) \/ RequestErasure(r)
    BY <1>2, <2>5 DEF DisableOwnAccount, RequestErasure, CloseAll
  <2>6. Login(r) \/ VerifyPassword(r) \/ RefuseRequest(r) \/ IdentityLogin(r)
        \/ (\E c \in Challenges : IdentityVouched(r, c))
        \/ (\E t \in SessionRows : AuthenticateAccess(r, t)) => UNCHANGED session
    BY DEF Login, VerifyPassword, RefuseRequest, IdentityLogin, IdentityVouched, AuthenticateAccess
  <2> QED BY <1>6, <2>1, <2>2, <2>3, <2>4, <2>5, <2>6
          DEF RequestNext, IssueOnKnownDevice, IssueOnNewDevice
<1>7. (\E c \in Challenges : IdentityChallenge(c)) \/ Register \/ StaffEnables => UNCHANGED session
  BY DEF IdentityChallenge, Register, StaffEnables
<1>8. CASE \/ ResetPassword \/ StaffDisables \/ StaffRevokesSessions
           \/ \E t \in SessionRows : RefreshReplay(t) \/ Logout(t)
           \/ \E d \in DeviceRows : StaffRevokesDevice(d)
  BY <1>2, <1>8 DEF ResetPassword, StaffDisables, StaffRevokesSessions, RefreshReplay, Logout,
                    StaffRevokesDevice, CloseAll
<1> QED BY <1>4, <1>5, <1>6, <1>7, <1>8 DEF SessionNext

\* What ended a session ended it for good, and its refresh token with it,
\* whichever requests were on their way: CustomerAuthenticationService.refresh.
THEOREM RevocationsLast == SessionSpec => RevokedForGood
<1>1. KnowInv /\ [SessionNext]_accountVars => KnowInv' /\ [EndedStayEnded]_accountVars
  BY KnowStep, EndedStep
<1> QED BY <1>1, KnowInitially, PTL DEF SessionSpec, RevokedForGood, EndedStayEnded

-----------------------------------------------------------------------------
(* Customers: the sessions and devices there are.                        *)

\* No session is opened, none stays on a device that is given up, and none when the
\* account is no longer active.
NoneOpened ==
  /\ \A s \in SessionRows : session'[s].state = "live" =>
       /\ session[s].state = "live" /\ session'[s].device = session[s].device
       /\ account' = "active" /\ device'[session[s].device] = "active"
  /\ \A d \in DeviceRows : device'[d] = "active" => device[d] = "active"

LEMMA ActiveAreFinite ==
  ASSUME NEW S, S \subseteq DeviceRows
  PROVE  IsFiniteSet(S) /\ Cardinality(S) \in Nat
  BY DeviceRowsAssumption, FS_Subset, FS_CardinalityType

LEMMA NoneOpenedKeeps ==
  ASSUME DevicesAreAccountable, NoneOpened PROVE DevicesAreAccountable'
<1>1. ActiveDevices' \subseteq ActiveDevices /\ ActiveDevices \subseteq DeviceRows
  BY DEF NoneOpened, ActiveDevices
<1>2. Cardinality(ActiveDevices') <= Cardinality(ActiveDevices)
  BY <1>1, ActiveAreFinite, FS_Subset
<1>3. Cardinality(ActiveDevices') \in Nat /\ Cardinality(ActiveDevices) \in Nat
  BY <1>1, ActiveAreFinite
<1>4. Cardinality(ActiveDevices') <= MaxActiveDevices
  BY <1>2, <1>3, MaxActiveDevicesAssumption DEF DevicesAreAccountable
<1>5. ASSUME NEW s \in SessionRows, IsLive(s)'
      PROVE  /\ account' = "active" /\ session'[s].device \in ActiveDevices'
             /\ \A t \in SessionRows : IsLive(t)' /\ session'[t].device = session'[s].device => t = s
  BY <1>5 DEF NoneOpened, DevicesAreAccountable, IsLive, ActiveDevices
<1> QED BY <1>4, <1>5 DEF DevicesAreAccountable

\* Sessions are revoked: all of them, those on a device that is given up, or some
\* while account and devices stay.
LEMMA RevokingKeeps ==
  ASSUME SessionTypeOK, DevicesAreAccountable, NEW ended, session' = Revoked(ended),
         \A d \in DeviceRows : device'[d] = "active" => device[d] = "active",
         \/ SessionRows \subseteq ended
         \/ account' = account /\ device' = device
         \/ /\ account' = account
            /\ \E d \in DeviceRows : /\ ended = SessionsOn({d})
                                     /\ \A e \in DeviceRows \ {d} : device'[e] = device[e]
  PROVE  DevicesAreAccountable'
<1>1. ASSUME NEW s \in SessionRows, session'[s].state = "live"
      PROVE  /\ session[s].state = "live" /\ s \notin ended /\ session'[s].device = session[s].device
             /\ account = "active" /\ session[s].device \in ActiveDevices
  <2>1. session[s].state = "live" /\ s \notin ended
    BY <1>1, RevokedRows
  <2>2. session'[s] = session[s]
    BY <2>1 DEF Revoked
  <2> QED BY <2>1, <2>2 DEF DevicesAreAccountable, IsLive
<1>2. ASSUME NEW s \in SessionRows, session'[s].state = "live"
      PROVE  account' = "active" /\ device'[session[s].device] = "active"
  BY <1>1, <1>2 DEF SessionsOn, ActiveDevices
<1>3. NoneOpened
  BY <1>1, <1>2 DEF NoneOpened
<1> QED BY <1>3, NoneOpenedKeeps

LEMMA RevocationsKeep ==
  ASSUME SessionTypeOK, DevicesAreAccountable,
         \/ ResetPassword \/ StaffDisables \/ StaffRevokesSessions
         \/ \E s \in SessionRows : RefreshReplay(s) \/ Logout(s)
         \/ \E d \in DeviceRows : StaffRevokesDevice(d)
         \/ \E r \in Requests : DisableOwnAccount(r) \/ RequestErasure(r)
         \/ \E r \in Requests, d \in DeviceRows : RevokeDevice(r, d)
  PROVE  DevicesAreAccountable'
<1>0. device \in [DeviceRows -> {"none", "active", "revoked"}]
  BY DEF SessionTypeOK
<1>1. CASE CloseAll
  <2>1. \A d \in DeviceRows : device'[d] = "active" => device[d] = "active"
    BY <1>0, <1>1 DEF CloseAll
  <2>2. session' = Revoked(SessionRows)
    BY <1>1 DEF CloseAll
  <2> QED BY <2>1, <2>2, RevokingKeeps
<1>2. CASE StaffDisables \/ StaffRevokesSessions
  BY <1>2, RevokingKeeps DEF StaffDisables, StaffRevokesSessions
<1>3. ASSUME NEW s \in SessionRows, RefreshReplay(s) \/ Logout(s)
      PROVE  DevicesAreAccountable'
  <2>1. session' = Revoked({s}) /\ account' = account /\ device' = device
    BY <1>3 DEF RefreshReplay, Logout
  <2> QED BY <2>1, RevokingKeeps
<1>4. ASSUME NEW d \in DeviceRows, account' = account, device' = [device EXCEPT ![d] = "revoked"],
             session' = Revoked(SessionsOn({d}))
      PROVE  DevicesAreAccountable'
  <2>1. \A e \in DeviceRows \ {d} : device'[e] = device[e]
    BY <1>0, <1>4
  <2>2. device'[d] = "revoked"
    BY <1>0, <1>4
  <2>3. \A e \in DeviceRows : device'[e] = "active" => device[e] = "active"
    BY <2>1, <2>2
  <2> QED BY <1>4, <2>1, <2>3, RevokingKeeps
<1> QED BY <1>1, <1>2, <1>3, <1>4
        DEF ResetPassword, DisableOwnAccount, RequestErasure, RevokeDevice, StaffRevokesDevice

\* A session goes on with another token, older, or knowing a new password.
LEMMA GoingOnKeeps ==
  ASSUME KnowInv, DevicesAreAccountable, account' = account, device' = device,
         NEW s \in SessionRows, NEW row \in Row, NEW rows, rows = session \/ \E ended : rows = Revoked(ended),
         session' = [rows EXCEPT ![s] = row],
         row.state = session[s].state, row.device = session[s].device
  PROVE  DevicesAreAccountable'
<1>1. SessionTypeOK /\ session \in [SessionRows -> Row]
  BY DEF KnowInv, SessionTypeOK, Row
<1>2. rows \in [SessionRows -> Row] /\ \A t \in SessionRows :
        rows[t].state = "live" => rows[t] = session[t]
  <2>1. CASE rows = session
    BY <1>1, <2>1
  <2>2. ASSUME NEW ended, rows = Revoked(ended)
        PROVE  rows \in [SessionRows -> Row] /\ \A t \in SessionRows :
                 rows[t].state = "live" => rows[t] = session[t]
    <3>1. \A t \in SessionRows : rows[t].state = "live" => t \notin ended
      BY <1>1, <2>2, RevokedRows
    <3>2. \A t \in SessionRows : t \notin ended => rows[t] = session[t]
      BY <2>2 DEF Revoked
    <3> QED BY <1>1, <2>2, <3>1, <3>2, RevokedRows
  <2> QED BY <2>1, <2>2
<1>3. \A t \in SessionRows : session'[t].state = "live" =>
        session[t].state = "live" /\ session'[t].device = session[t].device
  BY <1>2
<1>4. NoneOpened
  BY <1>3 DEF NoneOpened, DevicesAreAccountable, IsLive, ActiveDevices
<1> QED BY <1>4, NoneOpenedKeeps

LEMMA TokensKeep ==
  ASSUME KnowInv, DevicesAreAccountable,
         \/ \E s \in SessionRows : Refresh(s) \/ SessionExpires(s)
         \/ \E r \in Requests : ChangePassword(r)
  PROVE  DevicesAreAccountable'
<1>1. ASSUME NEW s \in SessionRows, Refresh(s) PROVE DevicesAreAccountable'
  <2> DEFINE row == [session[s] EXCEPT !.rotations = session[s].rotations + 1]
  <2>1. session[s] \in Row
    BY DEF KnowInv, SessionTypeOK, Row
  <2>2. row \in Row /\ row.state = session[s].state /\ row.device = session[s].device
    BY <2>1 DEF Row
  <2>3. /\ session' = [session EXCEPT ![s] = row]
        /\ account' = account /\ device' = device
    BY <1>1 DEF Refresh, KnowInv, SessionTypeOK
  <2> HIDE DEF row
  <2> QED BY <2>2, <2>3, GoingOnKeeps
<1>2. ASSUME NEW s \in SessionRows, SessionExpires(s) PROVE DevicesAreAccountable'
  <2> DEFINE row == [session[s] EXCEPT !.age = "expired"]
  <2>1. session[s] \in Row
    BY DEF KnowInv, SessionTypeOK, Row
  <2>2. row \in Row /\ row.state = session[s].state /\ row.device = session[s].device
    BY <2>1 DEF Row
  <2>3. /\ session' = [session EXCEPT ![s] = row]
        /\ account' = account /\ device' = device
    BY <1>2 DEF SessionExpires, KnowInv, SessionTypeOK
  <2> HIDE DEF row
  <2> QED BY <2>2, <2>3, GoingOnKeeps
<1>3. ASSUME NEW r \in Requests, ChangePassword(r) PROVE DevicesAreAccountable'
  <2> DEFINE own  == request[r].row
             rows == Revoked(SessionRows \ {own})
             row  == [session[own] EXCEPT !.knows = password + 1]
  <2>1. own \in SessionRows /\ session[own] \in Row /\ password \in Nat
    BY <1>3 DEF ChangePassword, KnowInv, RequestsAreOfTheirKind, SessionTypeOK, Row
  <2>2. row \in Row /\ row.state = session[own].state /\ row.device = session[own].device
    BY <2>1 DEF Row
  <2>3. rows[own] = session[own] /\ rows \in [SessionRows -> Row]
    BY <2>1, RevokedRows DEF Revoked, KnowInv
  <2>4. session' = [rows EXCEPT ![own] = row] /\ account' = account /\ device' = device
    BY <1>3, <2>1, <2>3 DEF ChangePassword
  <2>5. \E ended : rows = Revoked(ended)
    OBVIOUS
  <2> HIDE DEF row, rows, own
  <2> QED BY <2>1, <2>2, <2>4, <2>5, GoingOnKeeps
<1> QED BY <1>1, <1>2, <1>3

\* A session is opened on a device that has no other, which takes the place of those
\* that make room for it.
LEMMA OpenKeeps ==
  ASSUME KnowInv, DevicesAreAccountable, NEW r \in Requests, NEW d \in DeviceRows,
         NEW evicted \in SUBSET ActiveDevices, StillProven(r), Open(r, d, evicted),
         \/ device[d] = "active" /\ evicted = {}
         \/ device[d] = "none" /\ Cardinality(evicted) = IF Excess > 0 THEN Excess ELSE 0
  PROVE  DevicesAreAccountable'
<1> DEFINE ended == SessionsOn(evicted \cup {d})
           row == [state |-> "live", device |-> d, rotations |-> 0, age |-> "fresh",
                   knows |-> IF request[r].kind = "identity" THEN password ELSE request[r].saw,
                   via |-> request[r].row]
<1> PICK s \in SessionRows :
      /\ session[s] = NoSession
      /\ device' = [e \in DeviceRows |-> IF e = d THEN "active"
                                         ELSE IF e \in evicted THEN "revoked" ELSE device[e]]
      /\ session' = [Revoked(ended) EXCEPT ![s] = row]
      /\ account' = account
    BY DEF Open
<1>1. row.state = "live" /\ row.device = d /\ account = "active"
  BY DEF StillProven
<1>2. SessionTypeOK
  BY DEF KnowInv
<1>3. ActiveDevices' = (ActiveDevices \ evicted) \cup {d}
  <2>1. d \notin evicted
    BY DEF ActiveDevices
  <2> QED BY <2>1 DEF ActiveDevices
<1> HIDE DEF row
<1>4. \A t \in SessionRows : session'[t] = IF t = s THEN row ELSE Revoked(ended)[t]
  BY <1>2, RevokedRows
<1>5. ASSUME NEW t \in SessionRows, t # s, session'[t].state = "live"
      PROVE  /\ session'[t] = session[t] /\ session[t].state = "live"
             /\ session[t].device \in ActiveDevices /\ session[t].device \notin evicted \cup {d}
  <2>1. session'[t] = Revoked(ended)[t]
    BY <1>4, <1>5
  <2>2. session[t].state = "live" /\ t \notin ended
    BY <1>2, <1>5, <2>1, RevokedRows
  <2>3. session'[t] = session[t]
    BY <2>1, <2>2 DEF Revoked
  <2> QED BY <2>2, <2>3 DEF SessionsOn, DevicesAreAccountable, IsLive
<1>6. session'[s] = row
  BY <1>4
<1>7. ASSUME NEW t \in SessionRows, IsLive(t)'
      PROVE  /\ account' = "active" /\ session'[t].device \in ActiveDevices'
             /\ \A u \in SessionRows : IsLive(u)' /\ session'[u].device = session'[t].device => u = t
  <2>1. session'[t].device \in ActiveDevices'
    <3>1. CASE t = s
      BY <1>1, <1>3, <1>6, <3>1
    <3>2. CASE t # s
      <4>1. session'[t].device \in ActiveDevices \ evicted
        BY <1>5, <1>7, <3>2 DEF IsLive
      <4> QED BY <1>3, <4>1
    <3> QED BY <3>1, <3>2
  <2>2. ASSUME NEW u \in SessionRows, IsLive(u)', session'[u].device = session'[t].device
        PROVE  u = t
    BY ZenonT(60), <1>1, <1>5, <1>6, <1>7, <2>2 DEF IsLive, DevicesAreAccountable
  <2> QED BY <1>1, <2>1, <2>2
<1>8. Cardinality(ActiveDevices') <= MaxActiveDevices
  <2>1. /\ IsFiniteSet(ActiveDevices) /\ Cardinality(ActiveDevices) \in Nat
        /\ Cardinality(ActiveDevices) <= MaxActiveDevices
    BY ActiveAreFinite DEF ActiveDevices, DevicesAreAccountable
  <2>2. CASE device[d] = "active" /\ evicted = {}
    <3>1. ActiveDevices' = ActiveDevices
      BY <1>3, <2>2 DEF ActiveDevices
    <3> QED BY <2>1, <3>1
  <2>3. CASE device[d] = "none" /\ Cardinality(evicted) = IF Excess > 0 THEN Excess ELSE 0
    <3> DEFINE rest == ActiveDevices \ evicted
    <3>1. IsFiniteSet(evicted) /\ Cardinality(evicted) \in Nat /\ IsFiniteSet(rest)
            /\ Cardinality(rest) \in Nat
      BY <2>1, FS_Subset, FS_CardinalityType
    <3>2. Cardinality(rest) = Cardinality(ActiveDevices) - Cardinality(evicted)
      <4>1. ActiveDevices \cap evicted = evicted
        OBVIOUS
      <4> QED BY <2>1, <4>1, FS_Difference
    <3>3. d \notin rest
      BY <2>3 DEF ActiveDevices
    <3>4. Cardinality(ActiveDevices') = Cardinality(rest) + 1
      BY <1>3, <3>1, <3>3, FS_AddElement
    <3> HIDE DEF rest
    <3> QED BY <2>1, <2>3, <3>1, <3>2, <3>4, MaxActiveDevicesAssumption DEF Excess
  <2> QED BY <2>2, <2>3
<1> QED BY <1>7, <1>8 DEF DevicesAreAccountable

LEMMA AccountableStep ==
  ASSUME KnowInv, DevicesAreAccountable, [SessionNext]_accountVars
  PROVE  DevicesAreAccountable'
<1>1. CASE UNCHANGED <<device, session>> /\ (account' = account \/ account' = "active")
  BY <1>1 DEF DevicesAreAccountable, ActiveDevices, IsLive
<1>2. ASSUME NEW r \in Requests, RequestNext(r) PROVE DevicesAreAccountable'
  <2>1. ASSUME NEW d \in DeviceRows, IssueOnKnownDevice(r, d) PROVE DevicesAreAccountable'
    BY <2>1, OpenKeeps DEF IssueOnKnownDevice
  <2>2. ASSUME NEW d \in DeviceRows, IssueOnNewDevice(r, d) PROVE DevicesAreAccountable'
    BY <2>2, OpenKeeps DEF IssueOnNewDevice
  <2>3. CASE \/ Login(r) \/ IdentityLogin(r) \/ VerifyPassword(r) \/ RefuseRequest(r)
             \/ \E c \in Challenges : IdentityVouched(r, c)
             \/ \E s \in SessionRows : AuthenticateAccess(r, s)
    BY <1>1, <2>3 DEF Login, IdentityLogin, VerifyPassword, RefuseRequest, IdentityVouched,
                      AuthenticateAccess
  <2> QED BY <1>2, <2>1, <2>2, <2>3, TokensKeep, RevocationsKeep DEF RequestNext, KnowInv
<1>3. CASE \/ Register \/ StaffEnables \/ (\E c \in Challenges : IdentityChallenge(c))
  BY <1>1, <1>3 DEF Register, StaffEnables, IdentityChallenge
<1>4. CASE UNCHANGED accountVars
  BY <1>1, <1>4 DEF accountVars
<1> QED BY <1>2, <1>3, <1>4, TokensKeep, RevocationsKeep DEF SessionNext, KnowInv

\* Of any number of devices, sessions and requests: no session outlives its device or its
\* account's being active, no device has two, and no more devices are active than may be.
THEOREM SessionsAccountable == SessionSpec => []SessionsAreAccountable
<1>1. SessionInit => DevicesAreAccountable
  <2> SUFFICES ASSUME SessionInit PROVE DevicesAreAccountable
    OBVIOUS
  <2>1. ActiveDevices = {}
    BY DEF SessionInit, ActiveDevices
  <2>2. \A s \in SessionRows : ~IsLive(s)
    BY DEF SessionInit, IsLive, NoSession
  <2> QED BY <2>1, <2>2, FS_EmptySet, MaxActiveDevicesAssumption DEF DevicesAreAccountable
<1>2. KnowInv /\ DevicesAreAccountable /\ [SessionNext]_accountVars
        => KnowInv' /\ DevicesAreAccountable'
  BY KnowStep, AccountableStep
<1>3. KnowInv /\ DevicesAreAccountable => SessionsAreAccountable
  BY DEF KnowInv, SessionsAreAccountable
<1> QED BY <1>1, <1>2, <1>3, KnowInitially, PTL DEF SessionSpec

=============================================================================
