--------------------------- MODULE ContentLicensing ---------------------------
(*************************************************************************)
(* Licences of the platform's dramas for one merchant:                   *)
(* ContentLicensingService, with what MerchantService and                *)
(* PlatformContentLibraryService do to the merchant and to the titles.   *)
(*                                                                       *)
(* A grant is a transaction that locks the merchant, and the package if  *)
(* it is of one, before it reads what it depends on; every other         *)
(* operation locks the one row it changes and is a step.  Customers'     *)
(* purchases hold rows for share and so keep them as they are (module    *)
(* ContentOffers).                                                       *)
(*************************************************************************)
EXTENDS Integers

CONSTANTS
  Works,       (* Dramas of the platform.                                *)
  Licences,    (* content_licenses that may be granted.                  *)
  Editors,     (* Transactions of platform staff.                        *)
  Sales,       (* Transactions of customers.                             *)
  MaxEditions, (* Bound on the package's version.                        *)
  MaxTurns,    (* Bound on the other changes staff make.                 *)
  LastDay      (* The clock's bound.                                     *)

ASSUME LicensingAssumption == MaxEditions \in Nat /\ MaxTurns \in Nat /\ LastDay \in Nat \ {0}
ASSUME ScopeAssumption == "package" \notin Works

Days   == 0 .. LastDay
Scopes == Works \cup {"package"}
Kinds  == {"membership", "topup", "cash", "points"} \* What is sold, and the rows of the prices.
Rows   == Works \cup Licences \cup Kinds \cup {"merchant", "publication", "plan", "package"}

VARIABLES
  today,
  title,     (* dramas                                                   *)
  merchant,  (* The merchant's row of tenants.                           *)
  pack,      (* A row of content_license_packages with its items.        *)
  edition,   (* The items of each version of the package so far.         *)
  licence,   (* content_licenses with their items.                       *)
  deed,      (* The grants and replacements under way.                   *)
  shared,    (* Rows each sale holds FOR SHARE.                          *)
  turns      (* Changes staff made so far.                               *)

licensingVars == <<today, title, merchant, pack, edition, licence, deed, shared, turns>>

NoLicence == [status |-> "none", scope |-> "package", from |-> 0, until |-> 0,
              items |-> {}, edition |-> 0]
NoDeed    == [step |-> "none", licence |-> NoLicence, row |-> "merchant"]

LicensingTypeOK ==
  /\ today \in Days /\ turns \in 0 .. MaxTurns
  /\ title \in [Works -> [status: {"published", "unpublished"}, deleted: BOOLEAN, takenDown: BOOLEAN]]
  /\ merchant \in [active: BOOLEAN, until: Days]
  /\ pack \in [made: BOOLEAN, version: 0 .. MaxEditions, items: SUBSET Works]
  /\ edition \in [0 .. MaxEditions -> SUBSET Works]
  /\ licence \in [Licences -> [status: {"none", "active", "revoked"}, scope: Scopes,
       from: Days, until: Days, items: SUBSET Works, edition: 0 .. MaxEditions]]
  /\ deed \in [Editors ->
       [step: {"none", "merchant", "package", "scoped", "replacing"},
        licence: [status: {"none", "active"}, scope: Scopes, from: Days, until: Days,
                  items: SUBSET Works, edition: 0 .. MaxEditions],
        row: Licences \cup {"merchant"}]]
  /\ shared \in [Sales -> SUBSET Rows]

LicensingInit ==
  /\ today = 0 /\ turns = 0
  /\ title = [t \in Works |-> [status |-> "published", deleted |-> FALSE, takenDown |-> FALSE]]
  /\ merchant = [active |-> TRUE, until |-> LastDay]
  /\ pack = [made |-> FALSE, version |-> 0, items |-> {}]
  /\ edition = [v \in 0 .. MaxEditions |-> {}]
  /\ licence = [l \in Licences |-> NoLicence]
  /\ deed = [e \in Editors |-> NoDeed]
  /\ shared = [s \in Sales |-> {}]

(*************************************************************************)
(* Locks.                                                                *)
(*************************************************************************)
HoldsMerchant(e) == deed[e].step \in {"merchant", "package", "scoped"}
NeverHoldsPackage(e) == FALSE \* Mutant: the package is read without FOR UPDATE.
HoldsPackage(e) ==
  \/ deed[e].step \in {"package", "replacing"}
  \/ deed[e].step = "scoped" /\ deed[e].licence.scope = "package"

Unshared(row)   == \A s \in Sales : row \notin shared[s]
MerchantIsFree  == Unshared("merchant") /\ \A e \in Editors : ~HoldsMerchant(e)
PackageIsFree   == \A e \in Editors : ~HoldsPackage(e)

(*************************************************************************)
(* What the service's conditions say.                                    *)
(*************************************************************************)
InTerm      == merchant.active /\ merchant.until > today
Grantable(t) == title[t].status = "published" /\ ~title[t].deleted
InForce(l)  == licence[l].status = "active" /\ licence[l].from <= today /\ licence[l].until > today
Licensed(t) == \E l \in Licences : t \in licence[l].items /\ InForce(l)

(*************************************************************************)
(* The package.                                                          *)
(*************************************************************************)
CreatePackage ==
  /\ ~pack.made
  /\ pack' = [pack EXCEPT !.made = TRUE]
  /\ UNCHANGED <<today, title, merchant, edition, licence, deed, shared, turns>>

\* replacePackageItems: the package is locked, the version compared, every drama
\* looked up.
BeginReplacement(e, items) ==
  /\ deed[e].step = "none" /\ pack.made /\ PackageIsFree /\ pack.version < MaxEditions
  /\ \A t \in items : ~title[t].deleted
  /\ deed' = [deed EXCEPT ![e] = [NoDeed EXCEPT !.step = "replacing", !.licence.items = items]]
  /\ UNCHANGED <<today, title, merchant, pack, edition, licence, shared, turns>>

CommitReplacement(e) ==
  /\ deed[e].step = "replacing" /\ pack.version < MaxEditions
  /\ pack' = [pack EXCEPT !.version = @ + 1, !.items = deed[e].licence.items]
  /\ edition' = [edition EXCEPT ![pack'.version] = pack'.items]
  /\ deed' = [deed EXCEPT ![e] = NoDeed]
  /\ UNCHANGED <<today, title, merchant, licence, shared, turns>>

(*************************************************************************)
(* grantLicense, one statement with a lock or a read after the other.    *)
(*************************************************************************)
BeginGrant(e, l, scope, from, until) ==
  /\ deed[e].step = "none" /\ licence[l].status = "none"
  /\ \A d \in Editors : deed[d].row # l
  /\ MerchantIsFree /\ InTerm
  /\ from < until /\ today < until /\ until <= merchant.until
  /\ deed' = [deed EXCEPT ![e] =
       [step |-> "merchant", row |-> l,
        licence |-> [NoLicence EXCEPT !.status = "active", !.scope = scope,
                                      !.from = from, !.until = until]]]
  /\ UNCHANGED <<today, title, merchant, pack, edition, licence, shared, turns>>

ReadTitle(e) ==
  /\ deed[e].step = "merchant" /\ deed[e].licence.scope # "package"
  /\ Grantable(deed[e].licence.scope)
  /\ deed' = [deed EXCEPT ![e].step = "scoped", ![e].licence.items = {deed[e].licence.scope}]
  /\ UNCHANGED <<today, title, merchant, pack, edition, licence, shared, turns>>

LockPackage(e) ==
  /\ deed[e].step = "merchant" /\ deed[e].licence.scope = "package"
  /\ pack.made /\ PackageIsFree
  /\ deed' = [deed EXCEPT ![e].step = "package", ![e].licence.edition = pack.version]
  /\ UNCHANGED <<today, title, merchant, pack, edition, licence, shared, turns>>

ReadItems(e) ==
  /\ deed[e].step = "package"
  /\ pack.items # {} /\ \A t \in pack.items : Grantable(t)
  /\ deed' = [deed EXCEPT ![e].step = "scoped", ![e].licence.items = pack.items]
  /\ UNCHANGED <<today, title, merchant, pack, edition, licence, shared, turns>>

CommitGrant(e) ==
  /\ deed[e].step = "scoped"
  /\ licence' = [licence EXCEPT ![deed[e].row] = deed[e].licence]
  /\ deed' = [deed EXCEPT ![e] = NoDeed]
  /\ UNCHANGED <<today, title, merchant, pack, edition, shared, turns>>

\* A condition fails, or the connection.
AbandonDeed(e) ==
  /\ deed[e].step # "none"
  /\ deed' = [deed EXCEPT ![e] = NoDeed]
  /\ UNCHANGED <<today, title, merchant, pack, edition, licence, shared, turns>>

RevokeLicence(l) ==
  /\ licence[l].status = "active" /\ Unshared(l)
  /\ licence' = [licence EXCEPT ![l].status = "revoked"]
  /\ UNCHANGED <<today, title, merchant, pack, edition, deed, shared, turns>>

(*************************************************************************)
(* Merchant, titles and time.                                            *)
(*************************************************************************)
Turn == turns < MaxTurns /\ turns' = turns + 1

\* MerchantService.update
UpdateMerchant(active, until) ==
  /\ Turn /\ MerchantIsFree
  /\ merchant' = [active |-> active, until |-> until] /\ merchant' # merchant
  /\ UNCHANGED <<today, title, pack, edition, licence, deed, shared>>

TurnTitle(t, new) ==
  /\ Turn /\ Unshared(t)
  /\ title' = [title EXCEPT ![t] = new]
  /\ UNCHANGED <<today, merchant, pack, edition, licence, deed, shared>>

PublishTitle(t) ==
  /\ ~title[t].deleted /\ title[t].status = "unpublished"
  /\ TurnTitle(t, [title[t] EXCEPT !.status = "published"])

UnpublishTitle(t) ==
  /\ ~title[t].deleted /\ title[t].status = "published"
  /\ TurnTitle(t, [title[t] EXCEPT !.status = "unpublished"])

\* A licence whose time is over still has to be revoked first.
DeleteTitle(t) ==
  /\ ~title[t].deleted /\ title[t].status # "published"
  /\ \A l \in Licences : licence[l].status = "active" => t \notin licence[l].items
  /\ TurnTitle(t, [title[t] EXCEPT !.deleted = TRUE])

RestoreTitle(t) ==
  /\ title[t].deleted
  /\ TurnTitle(t, [title[t] EXCEPT !.deleted = FALSE])

\* PublicDramaPoolService.emergencyTakedown
EmergencyTakedown(t) ==
  /\ ~title[t].deleted /\ ~title[t].takenDown
  /\ TurnTitle(t, [title[t] EXCEPT !.status = "unpublished", !.takenDown = TRUE])

NextDay ==
  /\ today < LastDay
  /\ today' = today + 1
  /\ UNCHANGED <<title, merchant, pack, edition, licence, deed, shared, turns>>

LicensingNext ==
  \/ CreatePackage \/ NextDay
  \/ \E e \in Editors :
       \/ \E items \in SUBSET Works : BeginReplacement(e, items)
       \/ CommitReplacement(e)
       \/ \E l \in Licences, scope \in Scopes, from, until \in Days :
            BeginGrant(e, l, scope, from, until)
       \/ ReadTitle(e) \/ LockPackage(e) \/ ReadItems(e) \/ CommitGrant(e) \/ AbandonDeed(e)
  \/ \E l \in Licences : RevokeLicence(l)
  \/ \E active \in BOOLEAN, until \in Days : UpdateMerchant(active, until)
  \/ \E t \in Works : \/ PublishTitle(t) \/ UnpublishTitle(t) \/ DeleteTitle(t)
                       \/ RestoreTitle(t) \/ EmergencyTakedown(t)

(*************************************************************************)
(* Properties.                                                           *)
(*************************************************************************)
\* A licence of a package covers what the package held in the version the
\* licence records: a replacement of the package's items, however it meets the
\* grant, is in it as a whole or not at all (scope_snapshot_json).
ScopesAreEditions ==
  \A l \in Licences : licence[l].status # "none" /\ licence[l].scope = "package" =>
    licence[l].items = edition[licence[l].edition]

\* At the moment a licence is written the merchant is active and its term is at
\* least the licence's, though the merchant was read some statements before.
GrantsAreInTerm ==
  \A l \in Licences : licence[l].status = "none" /\ licence'[l].status # "none" =>
    merchant.active /\ licence'[l].until <= merchant.until

\* What a licence covers and for how long is settled when it is granted.
LicencesAreSound == [][ScopesAreEditions' /\ GrantsAreInTerm]_licensingVars
=============================================================================
