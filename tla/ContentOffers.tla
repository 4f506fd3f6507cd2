----------------------------- MODULE ContentOffers -----------------------------
(*************************************************************************)
(* What a merchant offers and how it is sold: the catalogue              *)
(* (CommerceCatalogService), the merchant's decisions about a title of   *)
(* the public pool (PublicDramaPoolService), and the part of an order or *)
(* a point unlock that reads them (CommerceOrderService.loadQuote,       *)
(* PointUnlockService).                                                  *)
(*                                                                       *)
(* A sale is one transaction that locks row after row FOR SHARE; all it  *)
(* read must still be so when it has read the last of them.              *)
(*************************************************************************)
EXTENDS ContentLicensing, Sequences

CONSTANTS
  ForSale,  (* The title customers ask for.                              *)
  Fees,     (* Amounts of prices.                                        *)
  NoBasis

ASSUME OffersAssumption ==
  ForSale \in Works /\ "publication" \notin Licences /\ NoBasis \notin Licences \cup {"publication"}

VARIABLES
  listing,  (* tenant_public_drama_publications.status for the title.                *)
  plan,     (* The status of a row of membership_plans and of points_topup_packages. *)
  price,    (* Their prices, and the title's in money and in points.                 *)
  sale

offersVars == <<listing, plan, price, sale>>

Made == {"membership", "topup"}   \* What the merchant itself makes.
MadeRow == [membership |-> "plan", topup |-> "package"]

\* The rows a sale locks after the merchant's, in the order of the code.
Path == [membership |-> <<"plan", "price">>,
         topup      |-> <<"package", "price">>,
         cash       |-> <<"title", "price", "basis">>,
         points     |-> <<"title", "basis", "price">>]

NoSale == [kind |-> "none", taken |-> 0, amount |-> 0, basis |-> NoBasis, opened |-> 0]

OffersTypeOK ==
  /\ LicensingTypeOK
  /\ listing \in {"none", "approved", "rejected", "published", "unpublished"}
  /\ plan \in [Made -> {"none", "active", "disabled"}]
  /\ price \in [Kinds -> [status: {"none", "active", "disabled"}, amount: Fees \cup {0}]]
  /\ sale \in [Sales -> [kind: Kinds \cup {"none", "done"}, taken: 0 .. 3,
       amount: Fees \cup {0}, basis: Licences \cup {"publication", NoBasis}, opened: Days]]

OffersInit ==
  /\ LicensingInit
  /\ listing = "none" /\ plan = [k \in Made |-> "none"]
  /\ price = [k \in Kinds |-> [status |-> "none", amount |-> 0]]
  /\ sale = [s \in Sales |-> NoSale]

Selling(s, row) == sale[s].kind \in Kinds /\ sale[s].taken < Len(Path[sale[s].kind]) /\
                   Path[sale[s].kind][sale[s].taken + 1] = row

(*************************************************************************)
(* The merchant's staff.                                                 *)
(*************************************************************************)
StaffTurn == Turn /\ UNCHANGED <<today, merchant, pack, edition, licence, deed, shared>>

TitleIsOn == Grantable(ForSale) /\ ~title[ForSale].takenDown
\* app.tenant_has_drama_license, and the rows lockPublicDistribution lets pass.
Visible(statuses) == listing \in statuses \/ Licensed(ForSale)
Reviewed == {"approved", "published", "unpublished"}
Distributed(statuses) == IF listing = "none" THEN Licensed(ForSale) ELSE listing \in statuses

\* requireTenant waits for a grant that holds the merchant.
MerchantRead == InTerm /\ \A e \in Editors : ~HoldsMerchant(e)

Review(decision) ==
  /\ StaffTurn /\ MerchantRead /\ Unshared("publication")
  /\ listing # "published" /\ ~title[ForSale].deleted
  /\ listing' = decision
  /\ UNCHANGED <<title, plan, price, sale>>

\* publish, with freeze_public_release, which updates the drama's row, and
\* upsertPointPrices.
Publish(points) ==
  /\ StaffTurn /\ MerchantRead /\ Unshared("publication") /\ Unshared(ForSale)
  /\ listing \in {"approved", "unpublished"} /\ TitleIsOn
  /\ listing' = "published"
  /\ price' = [price EXCEPT !["points"] = points]
  /\ points # price["points"] => points.status = "active" /\ Unshared("points")
  /\ UNCHANGED <<title, plan, sale>>

Unpublish ==
  /\ StaffTurn /\ Unshared("publication")
  /\ listing = "published"
  /\ listing' = "unpublished"
  /\ UNCHANGED <<title, plan, price, sale>>

SetStatus(kind, status) ==
  /\ StaffTurn /\ InTerm /\ Unshared(MadeRow[kind])
  /\ plan' = [plan EXCEPT ![kind] = status] /\ plan' # plan
  /\ UNCHANGED <<title, listing, price, sale>>

CreateMembershipPlan(status)      == plan["membership"] = "none" /\ SetStatus("membership", status)
CreatePointsTopupPackage(status)  == plan["topup"] = "none" /\ SetStatus("topup", status)
UpdateMembershipPlanStatus(status) == plan["membership"] # "none" /\ SetStatus("membership", status)
UpdateTopupPackageStatus(status)  == plan["topup"] # "none" /\ SetStatus("topup", status)

SetPrice(kind, new) ==
  /\ StaffTurn /\ InTerm /\ Unshared(kind)
  /\ price' = [price EXCEPT ![kind] = new] /\ price' # price
  /\ UNCHANGED <<title, listing, plan, sale>>

\* The plan, or the package, is locked.
SetMadePrice(kind, new) ==
  plan[kind] # "none" /\ Unshared(MadeRow[kind]) /\ SetPrice(kind, new)

UpsertMembershipPlanPrice(new) == SetMadePrice("membership", new)
UpsertTopupPackagePrice(new)   == SetMadePrice("topup", new)

\* upsertContentPrice, whose trigger asks for a licence.
UpsertContentPrice(new) == TitleIsOn /\ Visible(Reviewed) /\ Licensed(ForSale) /\ SetPrice("cash", new)

\* upsertContentPointPrice
UpsertPointPrice(new) ==
  TitleIsOn /\ Visible(Reviewed) /\ Distributed(Reviewed) /\ SetPrice("points", new)

(*************************************************************************)
(* A customer's purchase.                                                *)
(*************************************************************************)
SaleStep == UNCHANGED <<today, title, merchant, pack, edition, licence, deed, turns,
                        listing, plan, price>>
Share(s, row) == shared' = [shared EXCEPT ![s] = @ \cup {row}]

\* lockAvailableCustomer, lockCustomerAvailability
OpenSale(s, kind) ==
  /\ SaleStep /\ sale[s].kind = "none" /\ MerchantRead
  /\ sale' = [sale EXCEPT ![s].kind = kind, ![s].opened = today]
  /\ Share(s, "merchant")

\* The drama, and its episode: for an order it has to be visible too.
TakeTitle(s) ==
  /\ SaleStep /\ Selling(s, "title")
  /\ TitleIsOn /\ (sale[s].kind = "cash" => Visible(Reviewed))
  /\ sale' = [sale EXCEPT ![s].taken = @ + 1]
  /\ Share(s, ForSale)

TakeProduct(s) ==
  /\ SaleStep /\ sale[s].kind \in Made /\ sale[s].taken = 0
  /\ plan[sale[s].kind] = "active"
  /\ sale' = [sale EXCEPT ![s].taken = 1]
  /\ Share(s, MadeRow[sale[s].kind])

\* Mutant: the price is read without FOR SHARE.
GlanceAtPrice(s) ==
  /\ SaleStep /\ Selling(s, "price") /\ price[sale[s].kind].status = "active"
  /\ sale' = [sale EXCEPT ![s].taken = @ + 1, ![s].amount = price[sale[s].kind].amount]
  /\ UNCHANGED shared

TakePrice(s) ==
  /\ SaleStep /\ Selling(s, "price") /\ price[sale[s].kind].status = "active"
  /\ sale' = [sale EXCEPT ![s].taken = @ + 1, ![s].amount = price[sale[s].kind].amount]
  /\ Share(s, sale[s].kind)

\* lockPublicDistribution: a decision about the title comes before a licence.
TakeBasis(s) ==
  /\ SaleStep /\ Selling(s, "basis")
  /\ \E row \in IF listing = "none"
                THEN { l \in Licences : InForce(l) /\ ForSale \in licence[l].items }
                ELSE { r \in {"publication"} : listing = "published" } :
       /\ sale' = [sale EXCEPT ![s].taken = @ + 1, ![s].basis = row]
       /\ Share(s, row)

Ready(s) == sale[s].kind \in Kinds /\ sale[s].taken = Len(Path[sale[s].kind])

\* enforce_point_unlock_snapshot looks again, at the time the transaction began.
SnapshotHolds(s) ==
  /\ price["points"].status = "active" /\ price["points"].amount = sale[s].amount
  /\ TitleIsOn
  /\ IF listing # "none" THEN listing = "published"
     ELSE \E l \in Licences : /\ ForSale \in licence[l].items /\ licence[l].status = "active"
                              /\ licence[l].from <= sale[s].opened
                              /\ licence[l].until > sale[s].opened

EndSale(s) ==
  /\ SaleStep
  /\ sale' = [sale EXCEPT ![s] = [NoSale EXCEPT !.kind = "done"]]
  /\ shared' = [shared EXCEPT ![s] = {}]

CommitSale(s) == Ready(s) /\ (sale[s].kind = "points" => SnapshotHolds(s)) /\ EndSale(s)

\* A condition fails, a deadlock is resolved, or the connection breaks.
AbandonSale(s) == sale[s].kind \in Kinds /\ EndSale(s)

Prices == [status: {"active", "disabled"}, amount: Fees]

OffersNext ==
  \/ LicensingNext /\ UNCHANGED offersVars
  \/ \E decision \in {"approved", "rejected"} : Review(decision)
  \/ \E points \in Prices \cup {price["points"]} : Publish(points)
  \/ Unpublish
  \/ \E status \in {"active", "disabled"} :
       \/ CreateMembershipPlan(status) \/ UpdateMembershipPlanStatus(status)
       \/ CreatePointsTopupPackage(status) \/ UpdateTopupPackageStatus(status)
  \/ \E new \in Prices :
       \/ UpsertMembershipPlanPrice(new) \/ UpsertTopupPackagePrice(new)
       \/ UpsertContentPrice(new) \/ UpsertPointPrice(new)
  \/ \E s \in Sales :
       \/ \E kind \in Kinds : OpenSale(s, kind)
       \/ TakeTitle(s) \/ TakeProduct(s) \/ TakePrice(s) \/ TakeBasis(s)
       \/ CommitSale(s) \/ AbandonSale(s)

OffersSpec == OffersInit /\ [][OffersNext]_<<licensingVars, offersVars>>

(*************************************************************************)
(* Properties.                                                           *)
(*************************************************************************)
\* When a sale has read the last row it needs, all it read is true at once: the
\* merchant is active, the price is active and the one charged, the title is on,
\* and what the sale rests on, the merchant's publication or a licence, stands.
\* Staff change each of these in transactions of their own meanwhile.
SalesAreCovered ==
  \A s \in Sales : Ready(s) =>
    /\ merchant.active
    /\ price[sale[s].kind].status = "active" /\ price[sale[s].kind].amount = sale[s].amount
    /\ IF sale[s].kind \in Made THEN plan[sale[s].kind] = "active" ELSE TitleIsOn
    /\ sale[s].basis = "publication" => listing = "published"
    /\ sale[s].basis \in Licences => licence[sale[s].basis].status = "active"
=============================================================================
