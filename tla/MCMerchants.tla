------------------------------ MODULE MCMerchants ------------------------------
(*************************************************************************)
(* Instances of what a merchant, its staff and its customers meet:       *)
(* accounts and withdrawals, comments and their moderation, invitations, *)
(* staff, rights to watch, files of dramas, licences and offers, edits   *)
(* of a drama, the hosts a site answers on, and the pages and streams of *)
(* a drama.  No two of these services write the same rows here, so a     *)
(* behaviour is one service's, and scene says whose.                     *)
(*************************************************************************)
EXTENDS MerchantFinance, Interactions, Referrals, StaffDirectory, Rights, ContentImport,
         ContentOffers, DramaEditing, MerchantSites, CustomerViewing

CONSTANTS
  c1, c2, c3,      (* Charges.                                                  *)
  p1, p2,          (* Comments, of which the second is written after the first. *)
  amy, ben, cho,   (* Customers.                                                *)
  o1, o2,          (* Orders, the first of them Ben's.                          *)
  q1,              (* A request, or a transaction, of staff.                    *)
  t1, t2,          (* Titles of the platform, of which the first is on sale.    *)
  f1, f2,          (* Files, of which the first holds the second's drama too.   *)
  n1, v1           (* A process of the API, and a request it is asked.          *)

VARIABLE scene

moneyVars  == <<financeVars, referralVars, rightsVars>>
peopleVars == <<communityVars, directoryVars>>
pageVars   == <<sitesVars, viewingVars>>
shelfVars  == <<importVars, licensingVars, offersVars, editingVars>>

\* Two equal charges and one that is worth both.
Amounts == c1 :> 1 @@ c2 :> 1 @@ c3 :> 2
Buyers  == o1 :> ben
Worths  == o1 :> 10
Sold    == o1 :> "episode" @@ o2 :> "membership"

HeldBy  == f1 :> {"x", "y"} @@ f2 :> {"y"}

\* Sheets of one row or one column, in which a cell has every kind of character.
Characters == {"a", "q", "c", "n", "=", "'"}
Cells      == UNION { [1 .. n -> Characters] : n \in 0 .. 2 }
Filled     == Cells \ {<<>>}
TwoCells   == { <<<<c, d>>>> : c \in Filled, d \in Cells } \cup { <<<<c>>, <<d>>>> : c, d \in Filled }

\* One drama or two, with one locale or two and up to two episodes.
Locales  == {<<"en">>, <<"en", "fr">>}
Episodes == { <<>> } \cup { <<[no |-> 1, locales |-> l]>> : l \in Locales } \cup
            { <<[no |-> 2, locales |-> l], [no |-> 1, locales |-> m]>> : l, m \in Locales }
Dramas(c) == { [code |-> c, locales |-> l, episodes |-> e] : l \in Locales, e \in Episodes }
Shelves   == { <<d>> : d \in Dramas("x") } \cup { <<d, e>> : d \in Dramas("x"), e \in Dramas("y") }

MCInit ==
  /\ scene \in {"finance", "community", "referrals", "staff", "rights", "import", "export",
               "licences", "offers", "editing", "domains", "hosts", "viewing"}
  /\ FinanceInit /\ CommunityInit /\ ReferralInit /\ DirectoryInit /\ RightsInit
  /\ ImportInit /\ OffersInit /\ EditingInit /\ SitesInit /\ ViewingInit
  /\ IF scene = "editing" THEN place.drama = place.entry \/ place.kind = "category"
     ELSE place = [drama |-> "tenant", entry |-> "tenant", kind |-> "tag"]
  /\ scene # "viewing" =>
       whose = "tenant" /\ priced /\ held = {} /\ chapter.preview = "clip"

\* Bounds: decisions are taken about the first comment, and about the second
\* only once; feedback and likes, which touch no comment, come before comments;
\* a drama taken down or an account closed is one case, without a second comment.
CommunityBounds ==
  /\ post'[p2] # NoPost => post'[p1] # NoPost /\ Len(decisions'[p1]) <= 1
  /\ decisions'[p2] = <<>>
  /\ post'[p1] # NoPost => likes' = {} /\ \A a \in Authors : feedback'[a] = "none"
  /\ ~watchable' \/ welcome' # Authors =>
       post'[p2] = NoPost /\ decisions'[p1] = <<>>

\* Bounds: roles are defined and changed before staff are, and not while staff
\* are being changed; nobody is changed after a role that was changed and is still
\* active, which could have been made so; the second of two requests is one that
\* could take away an owner.
DirectoryBounds ==
  LET idle == \A q \in AdminRequests : adminRequest[q] = NoAdminRequest IN
  /\ roleRow' # roleRow => idle /\ \A s \in StaffRows : staffRow[s].version = 0
  /\ \A r \in CustomRoles : roleRow[r].status = "active" /\ roleRow[r].version > 0 =>
       staffRow' = staffRow /\ assigned' = assigned /\ adminRequest' = adminRequest
  /\ \A q \in AdminRequests :
       adminRequest[q] = NoAdminRequest /\ adminRequest'[q] # NoAdminRequest =>
         IF idle THEN q = q1 ELSE EndsOwnership(adminRequest'[q])
  /\ adminRequest' = adminRequest => \E q \in AdminRequests : adminRequest[q] = NoAdminRequest

\* Bounds: a customer who subscribed at the store watches no advertisements.
RightsBounds == store' # "none" => \A c \in AdChallenges : reward'[c] = "none"

\* Bounds: where titles are sold, they are licensed one by one, and the merchant
\* offers the title, or a membership plan, or a package of points; where packages
\* of titles are licensed, staff change titles and merchant twice.
OffersBounds ==
  /\ \A k \in Made : plan'[k] # "none" =>
       listing' = "none" /\ title' = title /\ deed' = deed /\
       \A other \in Kinds \ {k} : price'[other].status = "none"
  /\ \E k \in Made : plan'[k] = "none"
  /\ ~pack'.made
  /\ \A e \in Editors : deed'[e] # NoDeed => e = q1 /\ deed'[e].licence.scope = ForSale
  /\ \A t \in Works \ {ForSale} : title'[t] = title[t]

\* Bounds: of two transactions one deletes the category or tag, of a draft; texts
\* change while a transaction runs, or when the category is out of use; subtitles
\* change of a drama filed nowhere, and with them nothing but its publication.
EditingBounds ==
  LET Idle      == redaction = [r \in Redactors |-> NoRedaction]
      Begins(r) == redaction[r] = NoRedaction /\ redaction'[r] # NoRedaction
      Untouched == \A l \in Tongues : tracks[l] = "none" IN
  /\ \A r \in Redactors : Begins(r) =>
       /\ r = q1 <=> Idle
       /\ r # q1 => /\ "remove" \in {redaction[q1].kind, redaction'[r].kind}
                    /\ ~piece.deleted /\ entry.status = "active"
       /\ redaction'[r].kind = "remove" => piece.status \in {"none", "draft"}
       /\ ~Untouched => redaction'[r].kind = "publish"
  /\ piece'.deleted # piece.deleted \/ entry'.status # entry.status => Idle
  /\ piece'.named # piece.named /\ piece'.filed = piece.filed =>
       ~Idle \/ entry.status # "active"
  /\ tracks' # tracks => ~piece.filed /\ entry.version = 0
  /\ ~Untouched => entry' = entry /\ ~piece'.filed

\* Bounds: all of a domain's life but one request at a time, and a second one while
\* a first that leaves the domain enabled is under way, which takes the primary place.
DomainBounds ==
  LET Begins(q) == siteEdit[q] = NoSiteEdit /\ siteEdit'[q] # NoSiteEdit IN
  /\ \A q \in SiteEditors : Begins(q) =>
       /\ siteEdit'[q].step = "page" /\ siteEdit'[q].process = n1
       /\ siteEdit'[q].host = HomeHost => siteEdit'[q].kind = "update"
       /\ \A r \in SiteEditors \ {q} : siteEdit[r] # NoSiteEdit =>
            /\ r = q1 /\ siteEdit[r].kind = "update" /\ siteEdit[r].enabled = "same"
            /\ siteEdit'[q].primary = "yes" /\ siteEdit'[q].enabled = "same"
  /\ siteEdit' = siteEdit => siteEdit = [q \in SiteEditors |-> NoSiteEdit]
  /\ txtRecord \subseteq txtRecord'

\* Bounds: hosts are asked for of one process, by a second request only while the
\* first is under way; a subdomain is disabled and enabled, or the merchant is
\* suspended, by way of either process.
HostBounds ==
  /\ \A h \in Hosts : ~hostRow'[h].custom
  /\ hostRow'[HomeHost] = hostRow[HomeHost] /\ siteRow'.user /\ siteRow'.platform
  /\ \A h \in Hosts : 2 * siteRow'.version + hostRow'[h].version <= 2
  /\ \A q \in SiteEditors : siteEdit'[q] # NoSiteEdit =>
       /\ q = q1
       /\ siteEdit'[q].step # "settings" =>
            /\ siteEdit'[q].host # HomeHost /\ siteEdit'[q].kind = "update"
            /\ siteEdit'[q].primary = "same"
  /\ \A v \in Visitors : lookup[v] # lookup'[v] /\ lookup'[v] # NoLookup =>
       /\ lookup'[v].process = n1
       /\ v = v1 \/ lookup[v1] # NoLookup

\* Bounds: one stream at a time, one change by others, while a request runs; what a
\* customer keeps of the drama is one thing, and changes nothing else.
KeptNothing == kept = [seconds |-> "none", completed |-> FALSE, favourite |-> FALSE,
                       followed |-> FALSE]
ViewingBounds ==
  /\ \A k, l \in links' : k = l
  /\ kept' # kept => KeptNothing /\ shopTurns = 0 /\ links = {}
  /\ ~KeptNothing => view' = [v \in Views |-> NoView] /\ shopTurns' = 0
  /\ shopTurns' # shopTurns => \E v \in Views : view[v] # NoView

MoneyNext ==
  \/ scene = "finance" /\ FinanceNext /\ UNCHANGED <<referralVars, rightsVars>>
  \/ scene = "referrals" /\ ReferralNext /\ UNCHANGED <<financeVars, rightsVars>>
  \/ scene = "rights" /\ RightsNext /\ RightsBounds /\ UNCHANGED <<financeVars, referralVars>>

PeopleNext ==
  \/ scene = "community" /\ CommunityNext /\ CommunityBounds /\ UNCHANGED directoryVars
  \/ scene = "staff" /\ DirectoryNext /\ DirectoryBounds /\ UNCHANGED communityVars

\* A file is exported once, and nothing else happens to it.
ShelfNext ==
  \/ /\ scene \in {"import", "export"} /\ UNCHANGED <<licensingVars, offersVars, editingVars>>
     /\ \/ scene = "import" /\ ImportNext
        \/ scene = "export" /\ sheet.rows = <<>> /\ shelf.dramas = <<>> /\ ExportNext
  \/ /\ scene = "licences" /\ LicensingNext /\ turns' <= 2
     /\ UNCHANGED <<importVars, offersVars, editingVars>>
  \/ /\ scene = "offers" /\ OffersNext /\ OffersBounds
     /\ UNCHANGED <<importVars, editingVars>>
  \/ /\ scene = "editing" /\ EditingNext /\ EditingBounds
     /\ UNCHANGED <<importVars, licensingVars, offersVars>>

PageNext ==
  \/ scene = "domains" /\ HostsNext /\ DomainBounds /\ UNCHANGED viewingVars
  \/ scene = "hosts" /\ SitesNext /\ HostBounds /\ UNCHANGED viewingVars
  \/ scene = "viewing" /\ ViewingNext /\ ViewingBounds /\ UNCHANGED sitesVars

MCNext ==
  \/ MoneyNext /\ UNCHANGED <<scene, peopleVars, shelfVars, pageVars>>
  \/ PeopleNext /\ UNCHANGED <<scene, moneyVars, shelfVars, pageVars>>
  \/ ShelfNext /\ UNCHANGED <<scene, moneyVars, peopleVars, pageVars>>
  \/ PageNext /\ UNCHANGED <<scene, moneyVars, peopleVars, shelfVars>>

MCSpec == MCInit /\ [][MCNext]_<<scene, moneyVars, peopleVars, shelfVars, pageVars>>
=============================================================================
