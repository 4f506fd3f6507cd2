----------------------------- MODULE DramaEditing -----------------------------
(*************************************************************************)
(* Staff of the platform, or of a merchant, edit one drama and one       *)
(* category or tag it may be filed under (PlatformContentLibraryService, *)
(* ContentService, TenantContentTaxonomyService), or import it           *)
(* (TenantContentPortability).                                           *)
(*                                                                       *)
(* A request names the version it was made for, and is refused, changing *)
(* nothing, when the row has another; a transaction that reads several   *)
(* rows takes as many steps.  Row-level security applies to a merchant's *)
(* reads, and the policies of UPDATE to its reads FOR SHARE.             *)
(*************************************************************************)
EXTENDS Naturals

CONSTANTS
  Redactors,    (* Transactions that may run at one time.                *)
  Tongues,      (* Locales of the subtitles of the drama's episode.      *)
  MaxRevisions, (* Bound on the drama's version.                         *)
  MaxEntries,   (* Bound on the version of the category or tag.          *)
  MaxCuts,      (* Bound on the changes of its episodes.                 *)
  NoRedaction

ASSUME EditingAssumption ==
  MaxRevisions \in Nat /\ MaxEntries \in Nat /\ MaxCuts \in Nat \ {0}

VARIABLES
  place,      (* Whose the drama is, whose the category or tag is, and which.    *)
  entry,      (* The row of categories or tags.                                  *)
  piece,      (* The drama; named: what its own fields say, cuts: its episodes'. *)
  tracks,     (* episode_media_tracks of its first episode.                      *)
  recorded,   (* What the drama's last row of content_versions says of it.       *)
  redaction   (* The transaction, or the request, of each redactor.              *)

editingVars == <<place, entry, piece, tracks, recorded, redaction>>

Owners   == {"platform", "tenant"}
Editable == {"draft", "unpublished"}
Listed   == {"approved", "published"}
\* app.scope_can_reference: the platform's dramas name the platform's entries.
MayReference(owner, of) == owner = "platform" => of = "platform"
NotRecorded == [named |-> 0, cuts |-> 0, filing |-> "untold"]
Seen     == [version: 0 .. MaxRevisions, named: 0 .. MaxRevisions, cuts: 0 .. MaxCuts,
             tracks: [Tongues -> {"none", "active", "default", "disabled"}]]

EditingTypeOK ==
  /\ place \in [drama: Owners, entry: Owners, kind: {"category", "tag"}]
  /\ entry \in [status: {"active", "disabled"}, deleted: BOOLEAN, version: 0 .. MaxEntries]
  /\ piece \in [status: {"none"} \cup Editable \cup Listed, deleted: BOOLEAN, filed: BOOLEAN,
       imported: BOOLEAN, version: 0 .. MaxRevisions, named: 0 .. MaxRevisions, cuts: 0 .. MaxCuts]
  /\ tracks \in [Tongues -> {"none", "active", "default", "disabled"}]
  /\ recorded \in [named: 0 .. MaxRevisions, cuts: 0 .. MaxCuts,
                  filing: {"filed", "unfiled", "untold"}]
  /\ redaction \in [Redactors -> {NoRedaction} \cup
       [kind: {"create", "import", "file", "publish", "remove"},
        step: {"asked", "locked", "checked"}, saw: Seen]]

\* The entry is as createTaxonomy, or create, left it.
EditingInit ==
  /\ place \in [drama: Owners, entry: Owners, kind: {"category", "tag"}]
  /\ MayReference(place.drama, place.entry)
  /\ entry = [status |-> "active", deleted |-> FALSE, version |-> 0]
  /\ piece = [status |-> "none", deleted |-> FALSE, filed |-> FALSE, imported |-> FALSE,
              version |-> 0, named |-> 0, cuts |-> 0]
  /\ tracks = [l \in Tongues |-> "none"] /\ recorded = NotRecorded
  /\ redaction = [r \in Redactors |-> NoRedaction]

(*************************************************************************)
(* Locks, each held to the end of its transaction.                       *)
(*************************************************************************)
Runs(r, kinds, steps) ==
  redaction[r] # NoRedaction /\ redaction[r].kind \in kinds /\ redaction[r].step \in steps

HoldsDrama(r)  == Runs(r, {"file", "publish"}, {"locked", "checked"})
HoldsEntry(r)  == Runs(r, {"remove"}, {"locked", "checked"})

\* Read without FOR SHARE.
SharesNothing(r) == FALSE

\* assertCategory and assertTenantCategory read FOR SHARE; assertTags does not.  A
\* merchant's publication reads neither.
SharesEntry(r) ==
  /\ place.kind = "category"
  /\ \/ Runs(r, {"create", "file"}, {"checked"})
     \/ Runs(r, {"publish"}, {"checked"}) /\ place.drama = "platform" /\ piece.filed

DramaFree    == \A r \in Redactors : ~HoldsDrama(r)
EntryFree    == \A r \in Redactors : ~HoldsEntry(r) /\ ~SharesEntry(r)
EntryUnheld  == \A r \in Redactors : ~HoldsEntry(r)

(*************************************************************************)
(* What a merchant sees of an entry, and what may be named.              *)
(*************************************************************************)
InUse == entry.status = "active" /\ ~entry.deleted
Sees  == place.drama = "platform" \/ place.entry = "tenant" \/ InUse
\* A merchant may not lock the platform's categories.
CanShare == place.drama = "platform" \/ place.entry = "tenant"

\* The foreign key of what is written locks the entry; the triggers of the scope
\* have seen it.
MayName == EntryUnheld /\ Sees

(*************************************************************************)
(* The drama.                                                            *)
(*************************************************************************)
Filing(new) == IF new.filed THEN "filed" ELSE "unfiled"
Version(new, filing) == [named |-> new.named, cuts |-> new.cuts, filing |-> filing]
\* The version of the platform's drama, and of one a merchant creates or imports.
InFull(new) == Version(new, Filing(new))
\* loadDramaSnapshot reads the drama's row, of which the category is a column, and
\* what belongs to it, but not its tags.
MerchantsTag  == place.drama = "tenant" /\ place.kind = "tag"
Snapshot(new) == IF MerchantsTag THEN Version(new, "untold") ELSE InFull(new)
\* A merchant's drama is recorded when it is created, and its edits at once; the
\* platform's dramas when they are published.
RecordsOpened(new) == recorded' = IF place.drama = "tenant" THEN InFull(new) ELSE recorded
Records(new)       == recorded' = IF place.drama = "tenant" THEN Snapshot(new) ELSE recorded

Changed(new) == piece' = [new EXCEPT !.version = @ + 1]
Edits(new)   == LET edited == [new EXCEPT !.named = @ + 1] IN Changed(edited) /\ Records(edited)

\* lockEditableDrama, of a request that names the drama's version.
MayEdit ==
  /\ piece.status \in Editable /\ ~piece.deleted /\ DramaFree
  /\ piece.version < MaxRevisions

Aside     == UNCHANGED <<place, entry, tracks, redaction>>
OnlyPiece == Aside /\ UNCHANGED recorded

Open(filed, imported) ==
  [status |-> "draft", deleted |-> FALSE, filed |-> filed, imported |-> imported,
   version |-> 0, named |-> 0, cuts |-> IF imported THEN 1 ELSE 0]

\* createDrama, createTenantDrama and importDrama, of a drama filed nowhere; an
\* imported one comes with its episodes.
CreateUnfiled(imported) ==
  /\ piece.status = "none" /\ (imported => place.drama = "tenant")
  /\ piece' = Open(FALSE, imported) /\ RecordsOpened(piece') /\ Aside

\* updateDrama and updateTenantDrama, which write category_id even when it stays:
\* the trigger looks at the category again.
Retitle ==
  /\ MayEdit
  /\ piece.filed /\ place.kind = "category" => Sees
  /\ Edits(piece) /\ Aside

Unfile == MayEdit /\ piece.filed /\ Edits([piece EXCEPT !.filed = FALSE]) /\ Aside

AddEpisode ==
  /\ MayEdit /\ piece.cuts < MaxCuts
  /\ Changed([piece EXCEPT !.cuts = @ + 1]) /\ OnlyPiece

\* A request names the episode's version; the platform's leaves the drama's.
UpdateEpisode ==
  /\ place.drama = "platform" /\ MayEdit /\ piece.cuts \in 1 .. MaxCuts - 1
  /\ piece' = [piece EXCEPT !.cuts = @ + 1] /\ OnlyPiece

UpdateTenantEpisode ==
  /\ place.drama = "tenant" /\ MayEdit /\ piece.cuts \in 1 .. MaxCuts - 1
  /\ Changed([piece EXCEPT !.cuts = @ + 1]) /\ OnlyPiece

\* upsertEpisodeTrack, saveTenantEpisodeTrack.
SaveTrack(l, isDefault) ==
  /\ MayEdit /\ piece.cuts > 0
  /\ tracks' = [m \in Tongues |->
       IF m = l THEN (IF isDefault THEN "default" ELSE "active")
       ELSE IF isDefault /\ tracks[m] = "default" THEN "active" ELSE tracks[m]]
  /\ Changed(piece) /\ UNCHANGED <<place, entry, recorded, redaction>>

DisableTrack(l) ==
  /\ MayEdit /\ tracks[l] \in {"active", "default"}
  /\ tracks' = [tracks EXCEPT ![l] = "disabled"]
  /\ Changed(piece) /\ UNCHANGED <<place, entry, recorded, redaction>>

UnpublishDrama ==
  /\ piece.status \in Listed /\ DramaFree /\ piece.version < MaxRevisions
  /\ Changed([piece EXCEPT !.status = "unpublished"]) /\ Records(piece) /\ Aside

\* The worker, when a publication is due.
PublishDue ==
  /\ piece.status = "approved" /\ DramaFree /\ piece.version < MaxRevisions
  /\ Changed([piece EXCEPT !.status = "published"]) /\ OnlyPiece

DeleteDrama  == MayEdit /\ Changed([piece EXCEPT !.deleted = TRUE]) /\ OnlyPiece

RestoreDrama ==
  /\ piece.deleted /\ DramaFree /\ piece.version < MaxRevisions
  /\ Changed([piece EXCEPT !.deleted = FALSE]) /\ OnlyPiece

(*************************************************************************)
(* The category or tag.                                                  *)
(*************************************************************************)
ChangesEntry(new) ==
  /\ EntryFree /\ entry.version < MaxEntries
  /\ entry' = [new EXCEPT !.version = @ + 1]
  /\ UNCHANGED <<place, piece, tracks, recorded, redaction>>

UpdateEntry(status) == ~entry.deleted /\ ChangesEntry([entry EXCEPT !.status = status])
\* Within thirty days.
RestoreEntry        == entry.deleted /\ ChangesEntry([entry EXCEPT !.deleted = FALSE])

(*************************************************************************)
(* Transactions of several steps.                                        *)
(*************************************************************************)
Now == [version |-> piece.version, named |-> piece.named, cuts |-> piece.cuts, tracks |-> tracks]

Step(r, kind, from, to) ==
  /\ IF from = "none" THEN redaction[r] = NoRedaction ELSE Runs(r, {kind}, {from})
  /\ redaction' = [redaction EXCEPT ![r] =
       [kind |-> kind, step |-> to, saw |-> IF from = "none" THEN Now ELSE @.saw]]
  /\ UNCHANGED <<place, entry, piece, tracks, recorded>>

Ends(r, kind, from) ==
  /\ Runs(r, {kind}, {from})
  /\ redaction' = [redaction EXCEPT ![r] = NoRedaction]
  /\ UNCHANGED <<place, tracks>>

\* assertCategory, or assertTags.
ReadEntry == InUse /\ (place.kind = "category" => CanShare /\ EntryUnheld)

CreateReads(r)  == piece.status = "none" /\ ReadEntry /\ Step(r, "create", "none", "checked")
CreateWrites(r) ==
  /\ piece.status = "none" /\ MayName
  /\ piece' = Open(TRUE, FALSE) /\ RecordsOpened(piece')
  /\ UNCHANGED entry /\ Ends(r, "create", "checked")

\* validateDatabaseReferences locks nothing.
ImportReads(r) ==
  /\ place.drama = "tenant" /\ piece.status = "none" /\ InUse
  /\ Step(r, "import", "none", "checked")
ImportWrites(r) ==
  /\ piece.status = "none" /\ MayName
  /\ piece' = Open(TRUE, TRUE) /\ RecordsOpened(piece')
  /\ UNCHANGED entry /\ Ends(r, "import", "checked")

FileLocks(r)  == MayEdit /\ Step(r, "file", "none", "locked")
FileReads(r)  == ReadEntry /\ Step(r, "file", "locked", "checked")
FileWrites(r) ==
  /\ MayName /\ Edits([piece EXCEPT !.filed = TRUE])
  /\ UNCHANGED entry /\ Ends(r, "file", "checked")

\* Staff see the drama, and ask for its publication.
PublishAsked(r) ==
  /\ piece.status \in Editable \cup {"approved"} /\ ~piece.deleted
  /\ Step(r, "publish", "none", "asked")

\* lockDrama and assertPublicationReady, and setTenantDramaPublication, which
\* looks at no entry and takes no drama that is to be published.
Publishable ==
  /\ ~piece.deleted /\ piece.cuts > 0
  /\ IF place.drama = "platform"
       THEN piece.status \in Editable \cup {"approved"} /\ (piece.filed => ReadEntry)
       ELSE piece.status \in Editable

PublishReads(r) ==
  /\ DramaFree /\ Publishable /\ Step(r, "publish", "asked", "checked")
  /\ redaction[r].saw.version = piece.version /\ piece.version < MaxRevisions

PublishWrites(r, status) ==
  /\ Changed([piece EXCEPT !.status = status]) /\ recorded' = Snapshot(piece)
  /\ UNCHANGED entry
  /\ Ends(r, "publish", "checked")

RemoveLocks(r) ==
  /\ EntryFree /\ ~entry.deleted /\ entry.version < MaxEntries
  /\ Step(r, "remove", "none", "locked")

\* The references read: dramas FOR SHARE by their category; drama_tags, whose rows
\* a merchant may not lock.
Referenced == piece.filed /\ (place.kind = "tag" => place.entry = "platform")
RemoveReads(r) ==
  /\ ~Referenced
  /\ Step(r, "remove", "locked", "checked")
RemoveWrites(r) ==
  /\ entry' = [entry EXCEPT !.deleted = TRUE, !.version = @ + 1]
  /\ UNCHANGED <<piece, recorded>> /\ Ends(r, "remove", "checked")

\* Refused, chosen as a deadlock's victim, or the process stops: nothing was written.
Abandon(r) ==
  /\ redaction[r] # NoRedaction
  /\ redaction' = [redaction EXCEPT ![r] = NoRedaction]
  /\ UNCHANGED <<place, entry, piece, tracks, recorded>>

RedactorNext(r) ==
  \/ CreateReads(r) \/ CreateWrites(r) \/ ImportReads(r) \/ ImportWrites(r)
  \/ FileLocks(r) \/ FileReads(r) \/ FileWrites(r)
  \/ PublishAsked(r) \/ PublishReads(r) \/ (\E s \in Listed : PublishWrites(r, s))
  \/ RemoveLocks(r) \/ RemoveReads(r) \/ RemoveWrites(r) \/ Abandon(r)

EditingNext ==
  \/ \E imported \in BOOLEAN : CreateUnfiled(imported)
  \/ Retitle \/ Unfile \/ AddEpisode \/ UpdateEpisode \/ UpdateTenantEpisode
  \/ \E l \in Tongues : (\E d \in BOOLEAN : SaveTrack(l, d)) \/ DisableTrack(l)
  \/ UnpublishDrama \/ PublishDue \/ DeleteDrama \/ RestoreDrama
  \/ (\E s \in {"active", "disabled"} : UpdateEntry(s)) \/ RestoreEntry
  \/ \E r \in Redactors : RedactorNext(r)

EditingSpec == EditingInit /\ [][EditingNext]_editingVars

(*************************************************************************)
(* Properties.                                                           *)
(*************************************************************************)
\* A category a drama is filed under is not deleted (deleteTaxonomy, remove:
\* "Referenced ... cannot be deleted"), an imported drama's excepted; the platform's
\* drama is neither listed with a tag that is.
FiledIsKept ==
  piece.filed /\ entry.deleted =>
    \/ place.drama = "tenant" /\ (place.kind = "tag" \/ piece.imported)
    \/ place.kind = "tag" /\ piece.status \notin Listed

\* What is published is what staff saw when they asked for it, but for episodes of
\* the platform, whose edits leave the drama's version.
SeenIsPublished ==
  \A r \in Redactors :
    Runs(r, {"publish"}, {"checked"}) /\ piece'.status \in Listed /\ piece.status # piece'.status =>
      /\ redaction[r].saw.named = piece'.named /\ redaction[r].saw.tracks = tracks'
      /\ place.drama = "tenant" => redaction[r].saw.cuts = piece'.cuts

\* What customers may see of a drama, its episodes and what it is filed under is the
\* last version on record, which may be silent on a merchant's tag but is never wrong.
RecordIsListed ==
  piece.status \in Listed =>
    /\ recorded.named = piece.named /\ recorded.cuts = piece.cuts
    /\ \/ recorded.filing = Filing(piece)
       \/ MerchantsTag /\ recorded.filing = "untold"

\* Edits made at one time neither leave a drama filed under nothing nor put before
\* customers what nobody looked at, or what is not on record.
EditsAreSound == [][FiledIsKept' /\ SeenIsPublished /\ RecordIsListed']_editingVars

=============================================================================
