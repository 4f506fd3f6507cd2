---------------------------- MODULE CustomerViewing ----------------------------
(*************************************************************************)
(* What a customer is shown and may watch: one drama with one episode,   *)
(* of the merchant or of the platform's pool, and the requests of a      *)
(* customer or a guest for it (CustomerContentCatalogService,            *)
(* CustomerPlaybackAccessService, CustomerPlaybackUrlService,            *)
(* HlsPlaybackService, PlaybackService).                                 *)
(*                                                                       *)
(* A request decides in one transaction of several statements, each of   *)
(* which locks the rows it relied on in share mode until the end;        *)
(* whoever changes such a row waits.  A stream is decided anew for each  *)
(* of its files.                                                         *)
(*************************************************************************)
EXTENDS Integers

CONSTANTS
  Views,           (* Requests of viewers.                               *)
  MaxShopTurns,    (* Bound on what others change.                       *)
  NoView

ASSUME ViewingAssumption == MaxShopTurns \in Nat

VARIABLES
  shop,      (* Rows the viewer's standing depends on: shop, account, region.       *)
  whose,     (* Whose the drama is.                                                 *)
  drama,     (* The drama's row.                                                    *)
  chapter,   (* The episode's row, with its media.                                  *)
  pool,      (* The merchant's publication of the platform's drama.                 *)
  licensed,  (* Is a licence in force?                                              *)
  priced,    (* Has the drama or the episode an active price?                       *)
  held,      (* Rights of the customer that were not revoked.                       *)
  lapsed,    (* Those of them whose time is over.                                   *)
  supply,    (* Is the storage provider active?                                     *)
  view,      (* Requests under way.                                                 *)
  links,     (* Tokens of streams that were handed out and are not over.            *)
  kept,     (* What the customer keeps of the drama: progress, favourite, followed. *)
  shopTurns

offerVars   == <<shop, whose, drama, chapter, pool, licensed, priced, held, lapsed, supply>>
viewingVars == <<offerVars, view, links, kept, shopTurns>>

Viewers == {"guest", "customer"}
Stages  == [open |-> 1, target |-> 2, priced |-> 3, distributed |-> 4, decided |-> 5, signed |-> 6]
ViewRow == [step: DOMAIN Stages, who: Viewers, asks: {"url", "track", "segment", "progress"},
            medium: {"full", "preview"}, priced: BOOLEAN, by: {"tenant", "licence", "pool"},
            forGood: BOOLEAN, access: {"full", "preview", "locked"}]
NewView == [step |-> "open", who |-> "guest", asks |-> "url", medium |-> "full",
            priced |-> FALSE, by |-> "tenant", forGood |-> FALSE, access |-> "locked"]

ViewingTypeOK ==
  /\ shop \in [open: BOOLEAN, account: BOOLEAN, region: BOOLEAN]
  /\ drama \in [published: BOOLEAN, takenDown: BOOLEAN, due: {"now", "over"}]
  /\ chapter \in [published: BOOLEAN, due: {"now", "over"}, ready: BOOLEAN,
                  preview: {"none", "seconds", "clip"}, track: BOOLEAN]
  /\ whose \in {"tenant", "platform"} /\ pool \in {"none", "approved", "published", "unpublished"}
  /\ {licensed, priced, supply} \subseteq BOOLEAN
  /\ lapsed \subseteq held /\ held \subseteq {"membership", "rental", "forever"}
  /\ links \subseteq [who: Viewers, medium: {"full", "preview"}]
  /\ view \in [Views -> ViewRow \cup {NoView}]
  /\ kept \in [seconds: {"none", "preview", "beyond"}, completed: BOOLEAN, favourite: BOOLEAN,
               followed: BOOLEAN]
  /\ shopTurns \in 0 .. MaxShopTurns

ViewingInit ==
  /\ shop = [open |-> TRUE, account |-> TRUE, region |-> TRUE]
  /\ drama = [published |-> TRUE, takenDown |-> FALSE, due |-> "now"]
  /\ chapter \in [published: {TRUE}, due: {"now"}, ready: {TRUE},
                  preview: {"seconds", "clip"}, track: {TRUE}]
  /\ whose \in {"tenant", "platform"}
  /\ pool \in IF whose = "tenant" THEN {"none"} ELSE {"none", "published", "unpublished"}
  /\ licensed = (whose = "platform" /\ pool = "none")
  /\ priced \in BOOLEAN /\ supply = TRUE
  /\ held \in {{}, {"membership"}, {"forever"}} /\ lapsed = {}
  /\ view = [v \in Views |-> NoView] /\ links = {}
  /\ kept = [seconds |-> "none", completed |-> FALSE, favourite |-> FALSE, followed |-> FALSE]
  /\ shopTurns = 0

(*************************************************************************)
(* What the rows say.                                                    *)
(*************************************************************************)
Standing(who) == shop.open /\ (who = "customer" => shop.account)
ValidRights   == held \ lapsed

\* app.tenant_has_drama_license
MayHandle == licensed \/ pool \in {"approved", "published", "unpublished"}
\* app.tenant_drama_published
OnOffer   == IF pool = "none" THEN licensed ELSE pool = "published"

\* lockPublicDistribution with the statuses a caller admits.
Distributes(statuses) == IF pool = "none" THEN licensed ELSE pool \in statuses

\* listDramas: the drama is on the shelves.
Displayed ==
  /\ drama.published /\ ~drama.takenDown /\ shop.region /\ drama.due = "now"
  /\ whose = "platform" => OnOffer

\* getDrama: its page opens, also for who bought it for good even after the merchant took it off.
PageOpens(who) ==
  /\ drama.published /\ ~drama.takenDown /\ shop.region /\ drama.due = "now"
  /\ whose = "platform" =>
       /\ \/ OnOffer
          \/ who = "customer" /\ pool = "unpublished" /\ "forever" \in held
       /\ Distributes(IF who = "customer" THEN {"published", "unpublished"} ELSE {"published"})
PageLists(who) == PageOpens(who) /\ chapter.published /\ chapter.due = "now" /\ chapter.ready

\* issue of CustomerAssetService: who sees the drama on the shelves sees its cover.
CoverShown ==
  /\ shop.open /\ drama.published /\ ~drama.takenDown /\ shop.region /\ drama.due = "now"
  /\ whose = "platform" => OnOffer /\ Distributes({"published"})

\* resolveInTransaction: the episode, the drama and the medium a request finds.
TargetFound ==
  /\ chapter.published /\ drama.published /\ ~drama.takenDown /\ shop.region /\ chapter.ready
  /\ whose = "platform" => MayHandle

\* The rights that count, and the access they give.
Entitling(forGood) == IF forGood THEN ValidRights \cap {"forever"} ELSE ValidRights
AccessFor(who, hasPrice, forGood) ==
  IF \/ ~forGood /\ ~hasPrice
     \/ who = "customer" /\ Entitling(forGood) # {}
  THEN "full"
  ELSE IF ~forGood /\ chapter.preview # "none" THEN "preview" ELSE "locked"

-----------------------------------------------------------------------------
(* One request, statement by statement.                                  *)

Reached(v, stage) == view[v] # NoView /\ Stages[view[v].step] >= Stages[stage]

\* Mutant: the rights are read, not locked.
LocksButRights(v) ==
  (IF Reached(v, "open") THEN {"site"} ELSE {})
    \cup (IF Reached(v, "open") /\ view[v].who = "customer" THEN {"account"} ELSE {})
    \cup (IF Reached(v, "target") THEN {"title", "chapter"} ELSE {})
    \cup (IF Reached(v, "priced") /\ view[v].priced THEN {"price"} ELSE {})
    \cup (IF Reached(v, "distributed") THEN {view[v].by} ELSE {})
    \cup (IF Reached(v, "signed") THEN {"supply"} ELSE {})

\* The rows a transaction holds in share mode.
ViewLocks(v) ==
  (IF Reached(v, "open") THEN {"site"} ELSE {})
    \cup (IF Reached(v, "open") /\ view[v].who = "customer" THEN {"account"} ELSE {})
    \cup (IF Reached(v, "target") THEN {"title", "chapter"} ELSE {})
    \cup (IF Reached(v, "priced") /\ view[v].priced THEN {"price"} ELSE {})
    \cup (IF Reached(v, "distributed") THEN {view[v].by} ELSE {})
    \cup (IF Reached(v, "decided") /\ view[v].who = "customer" /\ (view[v].priced \/ view[v].forGood)
          THEN {"rights"} ELSE {})
    \cup (IF Reached(v, "signed") THEN {"supply"} ELSE {})

UnlockedRow(row) == \A v \in Views : row \notin ViewLocks(v)
OffersStay    == UNCHANGED <<offerVars, shopTurns>>

Proceed(v, from, ok, x) ==
  /\ view[v] # NoView /\ view[v].step = from
  /\ view' = [view EXCEPT ![v] = IF ok THEN x ELSE NoView]
  /\ OffersStay

\* lockAvailableCustomer, for a URL, a track's URL or a position; a file of a stream
\* names the token it comes with.
OpenView(v, who, asks, medium) ==
  /\ view[v] = NoView /\ Standing(who)
  /\ asks = "segment" => [who |-> who, medium |-> medium] \in links
  /\ asks = "progress" => who = "customer"
  /\ asks # "segment" => medium = "full"
  /\ view' = [view EXCEPT ![v] = [NewView EXCEPT !.who = who, !.asks = asks, !.medium = medium]]
  /\ OffersStay /\ UNCHANGED <<links, kept>>

ReadTarget(v) ==
  /\ Proceed(v, "open", TargetFound, [view[v] EXCEPT !.step = "target"])
  /\ UNCHANGED <<links, kept>>

ReadPrices(v) ==
  /\ Proceed(v, "target", TRUE, [view[v] EXCEPT !.step = "priced", !.priced = priced])
  /\ UNCHANGED <<links, kept>>

LockDistribution(v) ==
  /\ Proceed(v, "priced", whose = "platform" => Distributes({"published", "unpublished"}),
       [view[v] EXCEPT !.step = "distributed",
                       !.by = IF whose = "tenant" THEN "tenant"
                              ELSE IF pool = "none" THEN "licence" ELSE "pool",
                       !.forGood = whose = "platform" /\ pool = "unpublished"])
  /\ UNCHANGED <<links, kept>>

DecideAccess(v) ==
  /\ Proceed(v, "distributed", TRUE,
       [view[v] EXCEPT !.step = "decided",
                       !.access = AccessFor(view[v].who, view[v].priced, view[v].forGood)])
  /\ UNCHANGED <<links, kept>>

\* issue: the URL of the episode or of its preview, or a token for their stream.
IssueUrl(v) ==
  LET medium == IF view[v].access = "full" THEN "full" ELSE "preview" IN
  /\ view[v] # NoView /\ view[v].asks = "url"
  /\ Proceed(v, "decided",
       /\ view[v].access # "locked" /\ supply
       /\ view[v].access = "preview" => chapter.preview = "clip",
       [view[v] EXCEPT !.step = "signed", !.medium = medium])
  /\ links' = IF view'[v] = NoView THEN links
              ELSE links \cup {[who |-> view[v].who, medium |-> medium]}
  /\ UNCHANGED kept

\* issueTrack
IssueTrack(v) ==
  /\ view[v] # NoView /\ view[v].asks = "track"
  /\ Proceed(v, "decided", view[v].access = "full" /\ chapter.track /\ supply,
       [view[v] EXCEPT !.step = "signed"])
  /\ UNCHANGED <<links, kept>>

\* read: the medium that may be watched now has to be the token's.
ReadSegment(v) ==
  /\ view[v] # NoView /\ view[v].asks = "segment"
  /\ Proceed(v, "decided",
       /\ view[v].medium = "full" => view[v].access = "full"
       /\ view[v].medium = "preview" => view[v].access = "preview" /\ chapter.preview = "clip"
       /\ supply,
       [view[v] EXCEPT !.step = "signed"])
  /\ UNCHANGED <<links, kept>>

\* upsertProgress: beyond the preview, and the end, only with full access.
UpsertProgress(v, seconds, completed) ==
  /\ view[v] # NoView /\ view[v].asks = "progress"
  /\ Proceed(v, "decided",
       /\ view[v].access # "locked"
       /\ view[v].access = "preview" => seconds = "preview" /\ ~completed,
       [view[v] EXCEPT !.step = "signed",
                       !.medium = IF view[v].access = "full" THEN "full" ELSE "preview"])
  /\ kept' = IF view'[v] = NoView THEN kept
              ELSE [kept EXCEPT !.seconds = seconds, !.completed = completed]
  /\ UNCHANGED links

\* The transaction ends and its locks with it, at any step if something fails.
EndView(v) ==
  /\ view[v] # NoView
  /\ view' = [view EXCEPT ![v] = NoView]
  /\ OffersStay /\ UNCHANGED <<links, kept>>

LinkEnds(l) ==
  /\ l \in links /\ links' = links \ {l}
  /\ OffersStay /\ UNCHANGED <<view, kept>>

-----------------------------------------------------------------------------
(* What a customer keeps.                                                *)

Shelve(field, value) ==
  /\ shop.open /\ kept[field] # value
  /\ kept' = [kept EXCEPT ![field] = value]
  /\ OffersStay /\ UNCHANGED <<view, links>>

\* The rule of favourites asks for less than the catalogue's.
Favourable == drama.published /\ (whose = "platform" => pool = "published" \/ licensed)
AddFavorite    == Favourable /\ Shelve("favourite", TRUE)
RemoveFavorite == Shelve("favourite", FALSE)
SetFollowing(followed) == (followed => Displayed) /\ Shelve("followed", followed)

-----------------------------------------------------------------------------
(* What others change meanwhile; each needs its row to itself.           *)

Changes(row) ==
  /\ shopTurns < MaxShopTurns /\ UnlockedRow(row)
  /\ shopTurns' = shopTurns + 1
  /\ UNCHANGED <<whose, view, links, kept>>

\* The merchant or the platform closes the shop, staff disable the account.
TurnStanding(open, account) ==
  /\ shop' = [shop EXCEPT !.open = open, !.account = account]
  /\ Changes(IF shop.open # open THEN "site" ELSE "account")
  /\ (shop.open = open) # (shop.account = account)
  /\ UNCHANGED <<drama, chapter, pool, licensed, priced, held, lapsed, supply>>

\* The app's countries are changed; no request holds that row.
TurnRegion ==
  /\ shop' = [shop EXCEPT !.region = ~@]
  /\ Changes("region")
  /\ UNCHANGED <<drama, chapter, pool, licensed, priced, held, lapsed, supply>>

\* The drama is published, withdrawn, taken down or given back.
TurnDrama(published, takenDown) ==
  /\ drama' = [drama EXCEPT !.published = published, !.takenDown = takenDown]
  /\ drama' # drama /\ Changes("title")
  /\ UNCHANGED <<shop, chapter, pool, licensed, priced, held, lapsed, supply>>

\* The episode is published or withdrawn, its medium or its track replaced.
TurnChapter(published, ready, track) ==
  /\ chapter' = [chapter EXCEPT !.published = published, !.ready = ready, !.track = track]
  /\ chapter' # chapter /\ Changes("chapter")
  /\ UNCHANGED <<shop, drama, pool, licensed, priced, held, lapsed, supply>>

TurnPool(status) ==
  /\ whose = "platform" /\ pool # status /\ pool' = status
  /\ pool = "none" => status = "approved"
  /\ status = "published" => pool \in {"approved", "unpublished"}
  /\ status = "unpublished" => pool = "published"
  /\ IF pool = "none" THEN Changes("insert") ELSE Changes("pool")
  /\ UNCHANGED <<shop, drama, chapter, licensed, priced, held, lapsed, supply>>

TurnLicence ==
  /\ whose = "platform" /\ licensed' = ~licensed
  /\ IF licensed THEN Changes("licence") ELSE Changes("insert")
  /\ UNCHANGED <<shop, drama, chapter, pool, priced, held, lapsed, supply>>

\* A price is made, which nobody can have locked, or disabled.
TurnPrice ==
  /\ priced' = ~priced
  /\ IF priced THEN Changes("price") ELSE Changes("insert")
  /\ UNCHANGED <<shop, drama, chapter, pool, licensed, held, lapsed, supply>>

\* A right is bought or taken back.
TurnRight(right) ==
  /\ held' = IF right \in held THEN held \ {right} ELSE held \cup {right}
  /\ lapsed' = lapsed \ {right}
  /\ IF right \in held THEN Changes("rights") ELSE Changes("insert")
  /\ UNCHANGED <<shop, drama, chapter, pool, licensed, priced, supply>>

TurnSupply ==
  /\ supply' = ~supply /\ Changes("supply")
  /\ UNCHANGED <<shop, drama, chapter, pool, licensed, priced, held, lapsed>>

\* Time runs: out of a right, or into or past what was planned for the drama or the episode.
TimeRuns ==
  \/ /\ lapsed # held \cap {"membership", "rental"}
     /\ lapsed' = held \cap {"membership", "rental"} /\ Changes("time")
     /\ UNCHANGED <<shop, drama, chapter, pool, licensed, priced, held, supply>>
  \/ /\ drama.due = "now" /\ drama' = [drama EXCEPT !.due = "over"] /\ Changes("time")
     /\ UNCHANGED <<shop, chapter, pool, licensed, priced, held, lapsed, supply>>
  \/ /\ chapter.due = "now" /\ chapter' = [chapter EXCEPT !.due = "over"] /\ Changes("time")
     /\ UNCHANGED <<shop, drama, pool, licensed, priced, held, lapsed, supply>>

-----------------------------------------------------------------------------
ViewNext ==
  \E v \in Views :
    \/ \E who \in Viewers, asks \in {"url", "track", "segment", "progress"},
         medium \in {"full", "preview"} : OpenView(v, who, asks, medium)
    \/ ReadTarget(v) \/ ReadPrices(v) \/ LockDistribution(v) \/ DecideAccess(v)
    \/ IssueUrl(v) \/ IssueTrack(v) \/ ReadSegment(v)
    \/ \E seconds \in {"preview", "beyond"}, completed \in BOOLEAN :
         UpsertProgress(v, seconds, completed)
    \/ EndView(v)

OthersNext ==
  \/ \E open, account \in BOOLEAN : TurnStanding(open, account)
  \/ TurnRegion \/ TurnLicence \/ TurnPrice \/ TurnSupply \/ TimeRuns
  \/ \E published, takenDown \in BOOLEAN : TurnDrama(published, takenDown)
  \/ \E published, ready, track \in BOOLEAN : TurnChapter(published, ready, track)
  \/ \E status \in {"approved", "published", "unpublished"} : TurnPool(status)
  \/ \E right \in {"membership", "rental", "forever"} : TurnRight(right)

ViewingNext ==
  \/ ViewNext \/ OthersNext
  \/ \E l \in links : LinkEnds(l)
  \/ AddFavorite \/ RemoveFavorite \/ \E followed \in BOOLEAN : SetFollowing(followed)

ViewingSpec == ViewingInit /\ [][ViewingNext]_viewingVars

-----------------------------------------------------------------------------
(* Properties.                                                           *)

\* While something is signed, sent or booked, all that it rests on still holds,
\* although it was read in five statements: nobody watches a drama that was taken
\* down, off a provider that was disabled, or by a right that was taken back while
\* the request ran.  What can change under a request is the app's list of countries,
\* a price or a publication that was not there, and the time.
SignedIsAllowed ==
  \A v \in Views : view[v] # NoView /\ view[v].step = "signed" =>
    /\ Standing(view[v].who)
    /\ drama.published /\ ~drama.takenDown /\ chapter.published /\ chapter.ready
    /\ view[v].asks # "progress" => supply
    /\ whose = "platform" => licensed \/ pool \in {"published", "unpublished"}
    /\ view[v].medium = "full" =>
         \/ ~view[v].priced /\ ~view[v].forGood
         \/ view[v].who = "customer" /\ "forever" \in held
         \/ view[v].who = "customer" /\ ~view[v].forGood /\ held # {}

\* The different rules agree: what the catalogue shows has a page and a cover, what the
\* page lists can be asked for, and what was bought for good plays in full.
ShownIsPlayable ==
  \A who \in Viewers : Standing(who) =>
    /\ Displayed => PageOpens(who) /\ CoverShown
    /\ PageLists(who) => TargetFound /\ (whose = "platform" => Distributes({"published", "unpublished"}))
    /\ PageLists(who) /\ who = "customer" /\ "forever" \in held =>
         AccessFor(who, priced, whose = "platform" /\ pool = "unpublished") = "full"

ViewsAreAllowed == SignedIsAllowed /\ ShownIsPlayable
=============================================================================
