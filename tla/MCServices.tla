------------------------------ MODULE MCServices ------------------------------
(*************************************************************************)
(* Instances of the services beside payments and merchants' accounts.    *)
(* No two of them write the same rows here, so a behaviour is one        *)
(* service's, and scene says whose.                                      *)
(*************************************************************************)
EXTENDS AppBuild, ContentLibrary, CustomerSessions, CashProvenance, MediaStorage,
        CampaignDelivery, PrivacyErasure, StaffSessions, PaymentRouting, CursorPages,
        LegalConsents

CONSTANTS
  topup, ti1, ti2, (* A top-up order, and two titles.                         *)
  d1, d2, r1, r2,  (* Rows, of which the second is inserted after the first.  *)
  pc1, pc2,        (* A configuration of the fake adapter, and one of Stripe. *)
  shop, q1,        (* A merchant, and a request that tests credentials.       *)
  lp1, lp2, lp3,   (* Documents, the first two of privacy and of terms.       *)
  s2               (* A scheduler that starts late.                           *)

VARIABLE scene

otherVars == <<routingVars, pagesVars, legalVars>>

\* A purchase of 5 of which the store refunds 2 and then all, and a charge of 3.
Amounts  == [s \in {1, topup} |-> IF s = 1 THEN 5 ELSE 3]
Nets     == [s \in {1, topup} |-> IF s = 1 THEN 4 ELSE Unknown]
Paid     == [s \in {1, topup} |-> IF s = 1 THEN 3 ELSE 1]
Bonus    == [s \in {1, topup} |-> IF s = 1 THEN 1 ELSE 0]
Prices   == [u \in {ti1, ti2} |-> IF u = ti1 THEN 2 ELSE 3]
Refunds  == [s \in {1} |-> <<2, 5>>]
Policies == {[hq |-> 4000, creator |-> 4000]}
Payees   == [c \in {pc1, pc2} |-> IF c = pc1 THEN Headquarters ELSE shop]

MCInit ==
  /\ scene \in {"builds", "content", "customers", "cash", "storage", "campaign", "erasure", "staff",
                "routing", "pages", "consents"}
  /\ BuildInit /\ ContentInit /\ SessionInit /\ CashInit /\ StorageInit /\ CampaignInit
  /\ ErasureInit /\ StaffInit /\ RoutingInit /\ PagesInit /\ LegalInit
  \* One initial state for the scenes in which these play no part.
  /\ scene # "content" => owner = "platform"
  /\ scene # "pages" => listKind = "list"
  /\ scene # "storage" => \A p \in Providers : provider[p].bucket = SourceBucket

\* Bounds: time passes before the first page is read, and but one row comes and goes
\* afterwards; only exports ask for a password that changes.
PagesBounds ==
  /\ now' # now => reader.cursor = NoCursor
  /\ entry' # entry => reader.cursor = NoCursor \/ entry'[1] # entry[1]
  /\ key' # key => listKind = "export"

\* Bounds: the first two documents are of privacy and of terms, in the merchant's
\* locale, and they stay; a third, which is not of terms, follows.
LegalBounds ==
  LET Plain(p, t) == paper'[p].state # "absent" =>
        /\ paper'[p].type = t /\ paper'[p].locale = OwnLocale
        /\ ~paper'[p].required /\ paper'[p].state # "deleted"
  IN
  /\ Plain(lp1, "privacy") /\ Plain(lp2, "terms") /\ paper'[lp3].type # "terms"
  /\ paper'[lp2].state # "absent" => paper'[lp1].state # "absent"
  /\ paper'[lp3].state # "absent" => paper'[lp2].state = "published"

\* Bounds: a second test of credentials is begun during the first.
OthersNext ==
  \/ /\ scene = "routing" /\ RoutingNext /\ UNCHANGED <<pagesVars, legalVars>>
     /\ \A t \in Testers \ {q1} : testing'[t] # NoTest => testing[q1] # NoTest
  \/ scene = "pages" /\ PagesNext /\ PagesBounds /\ UNCHANGED <<routingVars, legalVars>>
  \/ scene = "consents" /\ LegalNext /\ LegalBounds /\ UNCHANGED <<routingVars, pagesVars>>

\* Bounds: rows of one table, which are alike, are inserted in order; a second
\* scheduler starts once a lock is old, and only for tenants, the platform
\* publishes once, and its scheduler does not stop; months pass and top-ups are
\* refunded only once points were used.
MCNext ==
  \/ /\ scene = "builds" /\ BuildNext
     /\ UNCHANGED <<scene, contentVars, accountVars, cashVars, storageVars, campaignVars,
                    erasureVars, staffVars, otherVars>>
  \/ /\ scene = "content" /\ ContentNext
     /\ owner = "platform" => publication' <= 1 /\ ~schedulerUp'[s2] /\ schedulerStops' = 0
     /\ schedulerUp'[s2] => schedulerUp[s2] \/ lockOld # {}
     /\ UNCHANGED <<scene, buildVars, accountVars, cashVars, storageVars, campaignVars,
                    erasureVars, staffVars, otherVars>>
  \/ /\ scene = "customers" /\ SessionNext
     /\ session'[r2] # NoSession => session'[r1] # NoSession
     /\ device'[d2] # "none" => device'[d1] # "none"
     /\ UNCHANGED <<scene, buildVars, contentVars, cashVars, storageVars, campaignVars,
                    erasureVars, staffVars, otherVars>>
  \/ /\ scene = "cash" /\ CashNext
     /\ month' # month => revenues # {}
     /\ reserves' # reserves => revenues # {}
     /\ UNCHANGED <<scene, buildVars, contentVars, accountVars, storageVars, campaignVars,
                    erasureVars, staffVars, otherVars>>
  \/ /\ scene = "storage" /\ StorageNext
     /\ UNCHANGED <<scene, buildVars, contentVars, accountVars, cashVars, campaignVars,
                    erasureVars, staffVars, otherVars>>
  \/ /\ scene = "campaign" /\ CampaignNext
     /\ UNCHANGED <<scene, buildVars, contentVars, accountVars, cashVars, storageVars,
                    erasureVars, staffVars, otherVars>>
  \/ /\ scene = "erasure" /\ ErasureNext
     /\ UNCHANGED <<scene, buildVars, contentVars, accountVars, cashVars, storageVars,
                    campaignVars, staffVars, otherVars>>
  \/ /\ scene = "staff" /\ StaffSessionsNext
     /\ UNCHANGED <<scene, buildVars, contentVars, accountVars, cashVars, storageVars,
                    campaignVars, erasureVars, otherVars>>
  \/ /\ OthersNext
     /\ UNCHANGED <<scene, buildVars, contentVars, accountVars, cashVars, storageVars,
                    campaignVars, erasureVars, staffVars>>

MCSpec == MCInit /\ [][MCNext]_<<scene, buildVars, contentVars, accountVars, cashVars,
                                 storageVars, campaignVars, erasureVars, staffVars,
                                 otherVars>>
=============================================================================
