--------------------------- MODULE ContentProofs ----------------------------
(*************************************************************************)
(* Proofs about a drama on its way from an editor to a buyer:            *)
(* DramaEditing, ContentLicensing and ContentOffers.  The invariants say *)
(* what each transaction's locks keep as the transaction read it.        *)
(*************************************************************************)
EXTENDS DramaEditing, ContentOffers, TLAPS

-----------------------------------------------------------------------------
(* Editing: a drama, its texts, its category or tag.                     *)

\* Texts are edited no more often than the drama is.
EditsAreVersions == piece.named <= piece.version

\* What was never created is not deleted.
NoneIsDeleted == piece.status = "none" => ~piece.deleted /\ ~piece.filed

\* One transaction holds the drama, one the category or tag, and nobody shares a
\* category that is to be deleted.
LocksExclude ==
  \A r, s \in Redactors :
    /\ HoldsDrama(r) /\ HoldsDrama(s) => r = s
    /\ HoldsEntry(r) /\ HoldsEntry(s) => r = s
    /\ HoldsEntry(r) => ~SharesEntry(s)

\* What a transaction checked under its locks is still so.
CreateStands(r) ==
  Runs(r, {"create"}, {"checked"}) /\ place.kind = "category" => InUse
ImportStands(r) == Runs(r, {"import"}, {"checked"}) => place.drama = "tenant"
FileStands(r) ==
  /\ Runs(r, {"file"}, {"locked", "checked"}) =>
       piece.status \in Editable /\ ~piece.deleted /\ piece.version < MaxRevisions
  /\ Runs(r, {"file"}, {"checked"}) /\ place.kind = "category" => InUse
PublishStands(r) ==
  /\ Runs(r, {"publish"}, {"asked", "locked", "checked"}) =>
       /\ piece.status # "none"
       /\ redaction[r].saw.version <= piece.version
       /\ redaction[r].saw.version = piece.version =>
            /\ redaction[r].saw.named = piece.named /\ redaction[r].saw.tracks = tracks
            /\ place.drama = "tenant" => redaction[r].saw.cuts = piece.cuts
  /\ Runs(r, {"publish"}, {"checked"}) =>
       /\ redaction[r].saw.version = piece.version /\ piece.version < MaxRevisions
       /\ place.drama = "platform" /\ piece.filed => ~entry.deleted
RemoveStands(r) ==
  /\ Runs(r, {"remove"}, {"locked", "checked"}) => ~entry.deleted /\ entry.version < MaxEntries
  /\ Runs(r, {"remove"}, {"checked"}) => ~Referenced

ChecksStand ==
  \A r \in Redactors :
    CreateStands(r) /\ ImportStands(r) /\ FileStands(r) /\ PublishStands(r) /\ RemoveStands(r)

EditingInv ==
  /\ EditingTypeOK /\ MayReference(place.drama, place.entry) /\ EditsAreVersions
  /\ NoneIsDeleted /\ LocksExclude /\ ChecksStand
  /\ FiledIsKept /\ RecordIsListed

LEMMA EditingInitially == EditingInit => EditingInv
<1> SUFFICES ASSUME EditingInit PROVE EditingInv
  OBVIOUS
<1>1. \A r \in Redactors : redaction[r] = NoRedaction
  BY DEF EditingInit
<1>2. EditingTypeOK
  BY EditingAssumption DEF EditingInit, EditingTypeOK, NotRecorded
<1>3. LocksExclude /\ ChecksStand
  BY <1>1 DEF LocksExclude, ChecksStand, CreateStands, ImportStands, FileStands, PublishStands,
       RemoveStands, HoldsDrama, HoldsEntry, Runs
<1> QED BY <1>2, <1>3
    DEF EditingInit, EditingInv, EditsAreVersions, NoneIsDeleted, FiledIsKept, RecordIsListed, Listed

\* The fields of the drama, which is a record.
LEMMA PieceFields ==
  ASSUME EditingTypeOK
  PROVE  /\ piece = [status |-> piece.status, deleted |-> piece.deleted, filed |-> piece.filed,
                     imported |-> piece.imported, version |-> piece.version,
                     named |-> piece.named, cuts |-> piece.cuts]
         /\ piece.status \in {"none"} \cup Editable \cup Listed
         /\ piece.deleted \in BOOLEAN /\ piece.filed \in BOOLEAN /\ piece.imported \in BOOLEAN
         /\ piece.version \in 0 .. MaxRevisions /\ piece.named \in 0 .. MaxRevisions
         /\ piece.cuts \in 0 .. MaxCuts
  BY DEF EditingTypeOK

\* What the edits that are one statement, or made under one lock, do to the drama.
DramaKept ==
  /\ \/ piece.status = "none" /\ piece'.status = "draft" /\ ~piece'.filed
     \/ /\ DramaFree /\ piece.status # "none" /\ piece'.status # "none"
        /\ piece.version <= piece'.version
        /\ piece.version = piece'.version =>
             /\ piece'.named = piece.named /\ tracks' = tracks
             /\ place.drama = "tenant" => piece'.cuts = piece.cuts
        /\ piece'.filed => piece.filed
        /\ piece'.imported = piece.imported
        /\ piece'.status \in Listed => piece.status \in Listed
  /\ UNCHANGED <<place, entry, redaction>>
  /\ piece' \in [status: {"none"} \cup Editable \cup Listed, deleted: BOOLEAN, filed: BOOLEAN,
       imported: BOOLEAN, version: 0 .. MaxRevisions, named: 0 .. MaxRevisions, cuts: 0 .. MaxCuts]
  /\ tracks' \in [Tongues -> {"none", "active", "default", "disabled"}]
  /\ recorded' \in [named: 0 .. MaxRevisions, cuts: 0 .. MaxCuts,
                   filing: {"filed", "unfiled", "untold"}]
  /\ EditsAreVersions'
  /\ RecordIsListed'

DramaActions ==
  \/ \E imported \in BOOLEAN : CreateUnfiled(imported)
  \/ Retitle \/ Unfile \/ AddEpisode \/ UpdateEpisode \/ UpdateTenantEpisode
  \/ \E l \in Tongues : (\E d \in BOOLEAN : SaveTrack(l, d)) \/ DisableTrack(l)
  \/ UnpublishDrama \/ PublishDue \/ DeleteDrama \/ RestoreDrama

LEMMA DramaActionsKeep == EditingInv /\ DramaActions => DramaKept
<1> SUFFICES ASSUME EditingInv, DramaActions PROVE DramaKept
  OBVIOUS
<1> USE EditingAssumption, PieceFields
    DEF EditingInv, EditsAreVersions, NoneIsDeleted, RecordIsListed, Listed, Editable, Snapshot,
        InFull, Version, Filing, MerchantsTag
<1>0. EditingTypeOK /\ tracks \in [Tongues -> {"none", "active", "default", "disabled"}]
      /\ recorded \in [named: 0 .. MaxRevisions, cuts: 0 .. MaxCuts,
                      filing: {"filed", "unfiled", "untold"}]
  BY DEF EditingTypeOK
<1> USE <1>0
<1>1. ASSUME NEW imported \in BOOLEAN, CreateUnfiled(imported) PROVE DramaKept
  BY <1>1 DEF CreateUnfiled, DramaKept, Open, RecordsOpened, Aside
<1>2. CASE Retitle
  <2>1. piece' = [status |-> piece.status, deleted |-> piece.deleted, filed |-> piece.filed,
                imported |-> piece.imported, version |-> piece.version + 1, named |-> piece.named + 1,
                cuts |-> piece.cuts]
    BY <1>2 DEF Retitle, MayEdit, Edits, Changed, Records, Aside
  <2> QED BY <1>2, <2>1 DEF Retitle, MayEdit, Edits, Changed, Records, Aside, DramaKept
<1>3. CASE Unfile
  <2>1. /\ piece' = [status |-> piece.status, deleted |-> piece.deleted, filed |-> FALSE,
                imported |-> piece.imported, version |-> piece.version + 1, named |-> piece.named + 1,
                cuts |-> piece.cuts]
        /\ piece.status \in Editable /\ DramaFree /\ piece.version < MaxRevisions
        /\ recorded' = IF place.drama = "tenant"
                         THEN [named |-> piece.named + 1, cuts |-> piece.cuts,
                               filing |-> IF MerchantsTag THEN "untold" ELSE "unfiled"]
                         ELSE recorded
        /\ UNCHANGED <<place, entry, tracks, redaction>>
    BY <1>3 DEF Unfile, MayEdit, Edits, Changed, Records, Aside
  <2> QED BY <2>1 DEF DramaKept
<1>4. CASE AddEpisode \/ UpdateTenantEpisode
  <2>1. piece' = [status |-> piece.status, deleted |-> piece.deleted, filed |-> piece.filed,
                imported |-> piece.imported, version |-> piece.version + 1, named |-> piece.named,
                cuts |-> piece.cuts + 1]
    BY <1>4 DEF AddEpisode, UpdateTenantEpisode, MayEdit, Changed, OnlyPiece, Aside
  <2> QED BY <1>4, <2>1 DEF AddEpisode, UpdateTenantEpisode, MayEdit, Changed, OnlyPiece, Aside, DramaKept
<1>5. CASE UpdateEpisode
  BY <1>5 DEF UpdateEpisode, MayEdit, DramaKept, OnlyPiece, Aside
<1>6. ASSUME NEW l \in Tongues, NEW d \in BOOLEAN, SaveTrack(l, d) PROVE DramaKept
  BY <1>6 DEF SaveTrack, MayEdit, Changed, DramaKept
<1>7. ASSUME NEW l \in Tongues, DisableTrack(l) PROVE DramaKept
  BY <1>7 DEF DisableTrack, MayEdit, Changed, DramaKept
<1>8. CASE UnpublishDrama
  <2>1. piece' = [status |-> "unpublished", deleted |-> piece.deleted, filed |-> piece.filed,
                imported |-> piece.imported, version |-> piece.version + 1, named |-> piece.named,
                cuts |-> piece.cuts]
    BY <1>8 DEF UnpublishDrama, Changed, Records, Aside
  <2> QED BY <1>8, <2>1 DEF UnpublishDrama, Changed, Records, Aside, DramaKept
<1>9. CASE PublishDue
  <2>1. /\ piece' = [status |-> "published", deleted |-> piece.deleted, filed |-> piece.filed,
                imported |-> piece.imported, version |-> piece.version + 1, named |-> piece.named,
                cuts |-> piece.cuts]
        /\ piece.status = "approved" /\ DramaFree /\ piece.version < MaxRevisions
        /\ UNCHANGED <<place, entry, tracks, recorded, redaction>>
    BY <1>9 DEF PublishDue, Changed, OnlyPiece, Aside
  <2> QED BY <2>1 DEF DramaKept
<1>10. CASE DeleteDrama
  <2>1. /\ piece' = [status |-> piece.status, deleted |-> TRUE, filed |-> piece.filed,
                imported |-> piece.imported, version |-> piece.version + 1, named |-> piece.named,
                cuts |-> piece.cuts]
        /\ piece.status \in Editable /\ DramaFree /\ piece.version < MaxRevisions
        /\ UNCHANGED <<place, entry, tracks, recorded, redaction>>
    BY <1>10 DEF DeleteDrama, MayEdit, Changed, OnlyPiece, Aside
  <2> QED BY <2>1 DEF DramaKept
<1>11. CASE RestoreDrama
  <2>1. /\ piece' = [status |-> piece.status, deleted |-> FALSE, filed |-> piece.filed,
                imported |-> piece.imported, version |-> piece.version + 1, named |-> piece.named,
                cuts |-> piece.cuts]
        /\ DramaFree /\ piece.version < MaxRevisions /\ piece.deleted
        /\ UNCHANGED <<place, entry, tracks, recorded, redaction>>
    BY <1>11 DEF RestoreDrama, Changed, OnlyPiece, Aside
  <2> QED BY <2>1 DEF DramaKept
<1> QED BY <1>1, <1>2, <1>3, <1>4, <1>5, <1>6, <1>7, <1>8, <1>9, <1>10, <1>11 DEF DramaActions

\* Such an edit meets no transaction that has the drama, or what it checked of it.
LEMMA DramaKeptStep == EditingInv /\ DramaKept => EditingInv'
<1> SUFFICES ASSUME EditingInv, DramaKept PROVE EditingInv'
  OBVIOUS
<1> USE DEF EditingInv
<1>1. UNCHANGED <<place, entry, redaction>> /\ EditsAreVersions' /\ RecordIsListed'
  BY DEF DramaKept
<1>2. EditingTypeOK'
  BY <1>1 DEF DramaKept, EditingTypeOK
<1>3. \A r \in Redactors :
        \/ ~Runs(r, {"file"}, {"locked", "checked"}) /\ ~Runs(r, {"publish"}, {"checked"})
        \/ piece.status = "none"
  BY DEF DramaKept, DramaFree, HoldsDrama, Runs
<1>4. ASSUME NEW r \in Redactors
      PROVE  ~Runs(r, {"file"}, {"locked", "checked"}) /\ ~Runs(r, {"publish"}, {"checked"})
  BY <1>3, <1>4 DEF ChecksStand, FileStands, PublishStands, Editable, Runs
<1>5. LocksExclude'
  BY <1>1, <1>4 DEF LocksExclude, HoldsDrama, HoldsEntry, SharesEntry, Runs
<1>6. ASSUME NEW r \in Redactors
      PROVE  (CreateStands(r) /\ ImportStands(r) /\ FileStands(r) /\ PublishStands(r)
                /\ RemoveStands(r))'
  <2>1. CreateStands(r)' /\ ImportStands(r)' /\ FileStands(r)'
    BY <1>1, <1>4 DEF ChecksStand, CreateStands, ImportStands, FileStands, Runs, InUse
  <2>2. PublishStands(r)'
    <3>1. CASE Runs(r, {"publish"}, {"asked", "locked"})
      <4>1. redaction[r].saw.version \in Nat
        BY <3>1 DEF EditingTypeOK, Runs, Seen
      <4>2. piece.version \in Nat /\ piece'.version \in Nat
        BY DEF EditingTypeOK, DramaKept
      <4> QED BY <1>1, <1>4, <3>1, <4>1, <4>2 DEF ChecksStand, PublishStands, Runs, DramaKept
    <3> QED BY <1>1, <1>4, <3>1 DEF PublishStands, Runs
  <2>3. RemoveStands(r)'
    BY <1>1 DEF ChecksStand, RemoveStands, Runs, DramaKept, Referenced, NoneIsDeleted
  <2> QED BY <2>1, <2>2, <2>3
<1>7. FiledIsKept' /\ NoneIsDeleted'
  BY <1>1 DEF FiledIsKept, NoneIsDeleted, DramaKept
<1> QED BY <1>1, <1>2, <1>5, <1>6, <1>7 DEF ChecksStand

LEMMA EntryActionsStep ==
  ASSUME EditingInv, (\E s \in {"active", "disabled"} : UpdateEntry(s)) \/ RestoreEntry
  PROVE  EditingInv'
<1> USE EditingAssumption DEF EditingInv
<1>1. /\ EntryFree /\ UNCHANGED <<place, piece, tracks, recorded, redaction>>
      /\ entry.deleted = FALSE => entry'.deleted = FALSE
      /\ entry' \in [status: {"active", "disabled"}, deleted: BOOLEAN, version: 0 .. MaxEntries]
  <2>1. entry = [status |-> entry.status, deleted |-> entry.deleted, version |-> entry.version]
        /\ entry.status \in {"active", "disabled"} /\ entry.deleted \in BOOLEAN
        /\ entry.version \in 0 .. MaxEntries
    BY DEF EditingTypeOK
  <2>2. ASSUME NEW s \in {"active", "disabled"}, UpdateEntry(s)
        PROVE  entry' = [status |-> s, deleted |-> FALSE, version |-> entry.version + 1]
    BY <2>1, <2>2 DEF UpdateEntry, ChangesEntry
  <2>3. ASSUME RestoreEntry
        PROVE  entry' = [status |-> entry.status, deleted |-> FALSE, version |-> entry.version + 1]
    BY <2>1, <2>3 DEF RestoreEntry, ChangesEntry
  <2>4. /\ EntryFree /\ UNCHANGED <<place, piece, tracks, recorded, redaction>>
        /\ entry.version < MaxEntries
    BY DEF UpdateEntry, RestoreEntry, ChangesEntry
  <2>5. \E s \in {"active", "disabled"} :
          entry' = [status |-> s, deleted |-> FALSE, version |-> entry.version + 1]
    BY <2>1, <2>2, <2>3
  <2> QED BY <2>1, <2>4, <2>5
<1>2. EditingTypeOK'
  BY <1>1 DEF EditingTypeOK
<1>3. LocksExclude'
  BY <1>1 DEF LocksExclude, HoldsDrama, HoldsEntry, SharesEntry, Runs
<1>4. ASSUME NEW r \in Redactors
      PROVE  (CreateStands(r) /\ ImportStands(r) /\ FileStands(r) /\ PublishStands(r)
                /\ RemoveStands(r))'
  BY <1>1 DEF ChecksStand, CreateStands, ImportStands, FileStands, PublishStands, RemoveStands,
       Runs, EntryFree, HoldsEntry, SharesEntry, EditingTypeOK
<1> QED
  BY <1>1, <1>2, <1>3, <1>4
  DEF ChecksStand, EditsAreVersions, NoneIsDeleted, FiledIsKept, RecordIsListed, EditingTypeOK,
      Filing, MerchantsTag

\* A transaction's step leaves the others as they are.
LEMMA StepOfOne ==
  ASSUME EditingTypeOK, NEW r \in Redactors, NEW k, NEW from, NEW to,
         k \in {"create", "import", "file", "publish", "remove"},
         to \in {"asked", "locked", "checked"},
         Step(r, k, from, to)
  PROVE  /\ EditingTypeOK'
         /\ UNCHANGED <<place, entry, piece, tracks, recorded>>
         /\ \A s \in Redactors \ {r} : redaction'[s] = redaction[s]
         /\ redaction'[r].kind = k /\ redaction'[r].step = to
         /\ from = "none" => redaction'[r].saw = Now
         /\ from # "none" => redaction'[r].saw = redaction[r].saw
<1>1. Now \in Seen
  BY DEF Now, Seen, EditingTypeOK
<1>2. from # "none" => redaction[r].saw \in Seen
  BY DEF Step, Runs, EditingTypeOK
<1>3. /\ UNCHANGED <<place, entry, piece, tracks, recorded>>
      /\ redaction' = [redaction EXCEPT ![r] =
           [kind |-> k, step |-> to, saw |-> IF from = "none" THEN Now ELSE redaction[r].saw]]
      /\ from # "none" => Runs(r, {k}, {from})
  BY DEF Step
<1>4. EditingTypeOK'
  BY <1>1, <1>2, <1>3 DEF EditingTypeOK
<1> QED BY <1>3, <1>4 DEF EditingTypeOK

LEMMA StepsKeep ==
  ASSUME EditingInv, NEW r \in Redactors,
         \/ CreateReads(r) \/ ImportReads(r) \/ FileLocks(r) \/ FileReads(r)
         \/ PublishAsked(r) \/ PublishReads(r) \/ RemoveLocks(r) \/ RemoveReads(r)
  PROVE  EditingInv'
<1> USE EditingAssumption DEF EditingInv
<1>2. EditingTypeOK' /\ UNCHANGED <<place, entry, piece, tracks, recorded>>
      /\ \A s \in Redactors \ {r} : redaction'[s] = redaction[s]
  <2>1. CASE CreateReads(r) \/ ImportReads(r)
    BY <2>1, StepOfOne DEF CreateReads, ImportReads
  <2>2. CASE FileLocks(r) \/ FileReads(r)
    BY <2>2, StepOfOne DEF FileLocks, FileReads
  <2>3. CASE PublishAsked(r) \/ PublishReads(r)
    BY <2>3, StepOfOne DEF PublishAsked, PublishReads
  <2>4. CASE RemoveLocks(r) \/ RemoveReads(r)
    BY <2>4, StepOfOne DEF RemoveLocks, RemoveReads
  <2> QED BY <2>1, <2>2, <2>3, <2>4
<1>3. /\ MayReference(place.drama, place.entry)' /\ EditsAreVersions' /\ NoneIsDeleted'
      /\ FiledIsKept' /\ RecordIsListed'
  BY <1>2 DEF MayReference, EditsAreVersions, NoneIsDeleted, FiledIsKept, RecordIsListed, Filing,
      MerchantsTag
<1>4. ASSUME NEW s \in Redactors \ {r}
      PROVE  /\ (CreateStands(s) /\ ImportStands(s) /\ FileStands(s) /\ PublishStands(s)
                   /\ RemoveStands(s))'
             /\ HoldsDrama(s)' = HoldsDrama(s) /\ HoldsEntry(s)' = HoldsEntry(s)
             /\ SharesEntry(s)' = SharesEntry(s)
  BY <1>2 DEF ChecksStand, CreateStands, ImportStands, FileStands, PublishStands, RemoveStands,
       HoldsDrama, HoldsEntry, SharesEntry, Runs, InUse, Referenced
<1>5. ASSUME /\ (CreateStands(r) /\ ImportStands(r) /\ FileStands(r) /\ PublishStands(r)
                   /\ RemoveStands(r))'
             /\ HoldsDrama(r)' => HoldsDrama(r) \/ DramaFree
             /\ HoldsEntry(r)' => HoldsEntry(r) \/ EntryFree
             /\ SharesEntry(r)' => SharesEntry(r) \/ EntryUnheld
             /\ ~(HoldsEntry(r)' /\ SharesEntry(r)')
      PROVE  EditingInv'
  <2>1. LocksExclude'
    <3>0. \A s \in Redactors : ~(HoldsEntry(s)' /\ SharesEntry(s)')
      BY DEF HoldsEntry, SharesEntry, Runs
    <3> SUFFICES ASSUME NEW s \in Redactors, NEW t \in Redactors, s # t
                 PROVE  /\ ~(HoldsDrama(s)' /\ HoldsDrama(t)')
                        /\ ~(HoldsEntry(s)' /\ HoldsEntry(t)')
                        /\ ~(HoldsEntry(s)' /\ SharesEntry(t)')
      BY <3>0 DEF LocksExclude
    <3>1. CASE s # r /\ t # r
      BY <1>4, <3>1 DEF LocksExclude
    <3>2. CASE s = r
      BY <1>4, <1>5, <3>2 DEF LocksExclude, DramaFree, EntryFree, EntryUnheld
    <3>3. CASE t = r
      BY <1>4, <1>5, <3>3 DEF LocksExclude, DramaFree, EntryFree, EntryUnheld
    <3> QED BY <3>1, <3>2, <3>3
  <2> QED BY <1>2, <1>3, <1>4, <1>5, <2>1 DEF ChecksStand
<1> DEFINE Stands == /\ (CreateStands(r) /\ ImportStands(r) /\ FileStands(r) /\ PublishStands(r)
                           /\ RemoveStands(r))'
                     /\ HoldsDrama(r)' => HoldsDrama(r) \/ DramaFree
                     /\ HoldsEntry(r)' => HoldsEntry(r) \/ EntryFree
                     /\ SharesEntry(r)' => SharesEntry(r) \/ EntryUnheld
                     /\ ~(HoldsEntry(r)' /\ SharesEntry(r)')
<1> USE <1>2
    DEF CreateStands, ImportStands, FileStands, PublishStands, RemoveStands, HoldsDrama,
        HoldsEntry, SharesEntry, Runs
<1>6. CASE CreateReads(r)
  <2>1. redaction'[r].kind = "create" /\ redaction'[r].step = "checked"
    BY <1>6, StepOfOne DEF CreateReads
  <2> QED BY <1>5, <1>6, <2>1 DEF CreateReads, ReadEntry, InUse
<1>7. CASE ImportReads(r)
  <2>1. redaction'[r].kind = "import"
    BY <1>7, StepOfOne DEF ImportReads
  <2> QED BY <1>5, <1>7, <2>1 DEF ImportReads
<1>8. CASE FileLocks(r)
  <2>1. redaction'[r].kind = "file" /\ redaction'[r].step = "locked"
    BY <1>8, StepOfOne DEF FileLocks
  <2> QED BY <1>5, <1>8, <2>1 DEF FileLocks, MayEdit
<1>9. CASE FileReads(r)
  <2>1. redaction'[r].kind = "file" /\ redaction'[r].step = "checked"
    BY <1>9, StepOfOne DEF FileReads
  <2>2. Runs(r, {"file"}, {"locked"})
    BY <1>9 DEF FileReads, Step
  <2> QED BY <1>5, <1>9, <2>1, <2>2 DEF FileReads, ReadEntry, InUse, ChecksStand
<1>10. CASE PublishAsked(r)
  <2>1. redaction'[r].kind = "publish" /\ redaction'[r].step = "asked" /\ redaction'[r].saw = Now
    BY <1>10, StepOfOne DEF PublishAsked
  <2>2. piece.version \in Nat
    BY DEF EditingTypeOK
  <2> QED BY <1>5, <1>10, <2>1, <2>2 DEF PublishAsked, Now, Editable
<1>11. CASE PublishReads(r)
  <2>1. /\ redaction'[r].kind = "publish" /\ redaction'[r].step = "checked"
        /\ redaction'[r].saw = redaction[r].saw
    BY <1>11, StepOfOne DEF PublishReads
  <2>2. Runs(r, {"publish"}, {"asked"})
    BY <1>11 DEF PublishReads, Step
  <2> QED BY <1>5, <1>11, <2>1, <2>2 DEF PublishReads, Publishable, ReadEntry, InUse, ChecksStand
<1>12. CASE RemoveLocks(r)
  <2>1. redaction'[r].kind = "remove" /\ redaction'[r].step = "locked"
    BY <1>12, StepOfOne DEF RemoveLocks
  <2> QED BY <1>5, <1>12, <2>1 DEF RemoveLocks
<1>13. CASE RemoveReads(r)
  <2>1. redaction'[r].kind = "remove" /\ redaction'[r].step = "checked"
    BY <1>13, StepOfOne DEF RemoveReads
  <2>2. Runs(r, {"remove"}, {"locked"})
    BY <1>13 DEF RemoveReads, Step
  <2> QED BY <1>5, <1>13, <2>1, <2>2 DEF RemoveReads, Referenced, ChecksStand
<1> QED BY <1>6, <1>7, <1>8, <1>9, <1>10, <1>11, <1>12, <1>13

LEMMA EndOfOne ==
  ASSUME EditingTypeOK, NEW r \in Redactors, NEW k, NEW from, Ends(r, k, from)
  PROVE  /\ Runs(r, {k}, {from}) /\ UNCHANGED <<place, tracks>>
         /\ \A s \in Redactors \ {r} : redaction'[s] = redaction[s]
         /\ redaction'[r] = NoRedaction
         /\ redaction' \in [Redactors -> {NoRedaction} \cup
              [kind: {"create", "import", "file", "publish", "remove"},
               step: {"asked", "locked", "checked"}, saw: Seen]]
<1>1. /\ Runs(r, {k}, {from}) /\ UNCHANGED <<place, tracks>>
      /\ redaction' = [redaction EXCEPT ![r] = NoRedaction]
  BY DEF Ends
<1> QED BY <1>1 DEF EditingTypeOK

\* When a transaction ends, the others have what they had, if what they hold did not
\* change.
LEMMA EndKeeps ==
  ASSUME EditingInv, NEW r \in Redactors,
         UNCHANGED <<place, tracks>>,
         redaction'[r] = NoRedaction,
         \A s \in Redactors \ {r} : redaction'[s] = redaction[s],
         EditingTypeOK', EditsAreVersions', NoneIsDeleted', FiledIsKept', RecordIsListed',
         piece' = piece \/ HoldsDrama(r) \/ piece.status = "none",
         \/ piece' = piece
         \/ piece.status = "none"
         \/ piece'.status # "none" /\ piece'.version > piece.version,
         entry' = entry \/ (HoldsEntry(r) /\ (piece.filed /\ place.drama = "platform"
                                                => ~entry'.deleted)),
         piece'.filed => piece.filed \/ EntryUnheld
  PROVE  EditingInv'
<1> USE DEF EditingInv
<1>1. \A s \in Redactors \ {r} : piece' = piece \/ ~HoldsDrama(s)
  <2>1. \A s \in Redactors : HoldsDrama(s) => piece.status # "none"
    <3> SUFFICES ASSUME NEW s \in Redactors, HoldsDrama(s) PROVE piece.status # "none"
      OBVIOUS
    <3>1. FileStands(s) /\ PublishStands(s)
      BY DEF ChecksStand
    <3> QED BY <3>1 DEF FileStands, PublishStands, HoldsDrama, Runs, Editable
  <2> QED BY <2>1 DEF LocksExclude
<1>2. \A s \in Redactors \ {r} : entry' = entry \/ (~HoldsEntry(s) /\ ~SharesEntry(s))
  BY DEF LocksExclude
<1>3. LocksExclude'
  BY <1>1, <1>2 DEF LocksExclude, HoldsDrama, HoldsEntry, SharesEntry, Runs
<1>4. ASSUME NEW s \in Redactors
      PROVE  (CreateStands(s) /\ ImportStands(s) /\ FileStands(s) /\ PublishStands(s)
                /\ RemoveStands(s))'
  <2>1. CASE s = r
    BY <2>1 DEF CreateStands, ImportStands, FileStands, PublishStands, RemoveStands, Runs
  <2>2. CASE s # r
    <3>1. redaction'[s] = redaction[s] /\ CreateStands(s) /\ ImportStands(s) /\ FileStands(s)
          /\ PublishStands(s) /\ RemoveStands(s)
      BY <2>2 DEF ChecksStand
    <3>2. CreateStands(s)' /\ ImportStands(s)' /\ FileStands(s)'
      BY <1>1, <1>2, <2>2, <3>1
      DEF CreateStands, ImportStands, FileStands, Runs, InUse, HoldsDrama, SharesEntry
    <3>3. PublishStands(s)'
      <4>1. Runs(s, {"publish"}, {"asked", "locked", "checked"}) =>
              redaction[s].saw.version \in Nat /\ piece.version \in Nat /\ piece'.version \in Nat
        BY DEF EditingTypeOK, Runs, Seen
      <4>2. Runs(s, {"publish"}, {"checked"}) => piece' = piece
        BY <1>1, <2>2 DEF HoldsDrama, Runs
      <4> QED BY <1>2, <2>2, <3>1, <4>1, <4>2 DEF PublishStands, Runs
    <3>4. RemoveStands(s)'
      BY <1>2, <2>2, <3>1 DEF RemoveStands, Runs, Referenced, HoldsEntry, EntryUnheld
    <3> QED BY <3>2, <3>3, <3>4
  <2> QED BY <2>1, <2>2
<1> QED BY <1>3, <1>4 DEF ChecksStand

LEMMA WritesKeep ==
  ASSUME EditingInv, NEW r \in Redactors,
         \/ CreateWrites(r) \/ ImportWrites(r) \/ FileWrites(r)
         \/ (\E s \in Listed : PublishWrites(r, s)) \/ RemoveWrites(r)
         \/ (Abandon(r) /\ UNCHANGED <<place, tracks>>)
  PROVE  EditingInv'
<1> USE EditingAssumption, PieceFields DEF EditingInv
<1>0. /\ redaction'[r] = NoRedaction /\ UNCHANGED <<place, tracks>>
      /\ \A s \in Redactors \ {r} : redaction'[s] = redaction[s]
      /\ redaction' \in [Redactors -> {NoRedaction} \cup
              [kind: {"create", "import", "file", "publish", "remove"},
               step: {"asked", "locked", "checked"}, saw: Seen]]
  <2>1. CASE CreateWrites(r) \/ ImportWrites(r)
    BY <2>1, EndOfOne DEF CreateWrites, ImportWrites
  <2>2. CASE FileWrites(r) \/ RemoveWrites(r)
    BY <2>2, EndOfOne DEF FileWrites, RemoveWrites
  <2>3. CASE \E s \in Listed : PublishWrites(r, s)
    BY <2>3, EndOfOne DEF PublishWrites
  <2>4. CASE Abandon(r)
    BY <2>4 DEF Abandon, EditingTypeOK
  <2> QED BY <2>1, <2>2, <2>3, <2>4
<1>1. CASE CreateWrites(r) \/ ImportWrites(r)
  <2>1. Runs(r, {"create", "import"}, {"checked"})
    BY <1>1 DEF CreateWrites, ImportWrites, Ends, Runs
  <2>2. \E imported \in BOOLEAN :
          /\ piece' = Open(TRUE, imported)
          /\ imported <=> Runs(r, {"import"}, {"checked"})
    BY <1>1 DEF CreateWrites, ImportWrites, Ends, Runs
  <2>3. /\ piece.status = "none" /\ EntryUnheld /\ entry' = entry
        /\ recorded' = IF place.drama = "tenant" THEN InFull(piece') ELSE recorded
    BY <1>1 DEF CreateWrites, ImportWrites, MayName, RecordsOpened
  <2>4. EditingTypeOK' /\ EditsAreVersions' /\ NoneIsDeleted' /\ RecordIsListed'
    BY <1>0, <2>2, <2>3
    DEF EditingTypeOK, EditsAreVersions, NoneIsDeleted, RecordIsListed, Open, Editable, Listed,
        InFull, Version, Filing
  <2>5. FiledIsKept'
    BY <1>0, <2>1, <2>2, <2>3
    DEF FiledIsKept, Open, ChecksStand, CreateStands, ImportStands, Runs, InUse, Listed,
        EditingTypeOK, Owners
  <2> QED BY <1>0, <2>2, <2>3, <2>4, <2>5, EndKeeps DEF Open
<1>2. CASE FileWrites(r)
  <2>1. Runs(r, {"file"}, {"checked"}) /\ entry' = entry /\ EntryUnheld
    BY <1>2 DEF FileWrites, Ends, MayName
  <2>2. /\ piece.status \in Editable /\ ~piece.deleted /\ piece.version < MaxRevisions
        /\ place.kind = "category" => InUse
        /\ HoldsDrama(r)
    BY <2>1 DEF ChecksStand, FileStands, Runs, HoldsDrama
  <2>3. /\ piece' = [status |-> piece.status, deleted |-> piece.deleted, filed |-> TRUE,
                     imported |-> piece.imported, version |-> piece.version + 1,
                     named |-> piece.named + 1, cuts |-> piece.cuts]
        /\ recorded' = IF place.drama = "tenant"
                         THEN [named |-> piece.named + 1, cuts |-> piece.cuts,
                               filing |-> IF MerchantsTag THEN "untold" ELSE "filed"]
                         ELSE recorded
    BY <1>2 DEF FileWrites, Edits, Changed, Records, Snapshot, InFull, Version, Filing
  <2>4. EditingTypeOK' /\ EditsAreVersions' /\ NoneIsDeleted' /\ RecordIsListed'
    BY <1>0, <2>1, <2>2, <2>3
    DEF EditingTypeOK, EditsAreVersions, NoneIsDeleted, RecordIsListed, Editable, Listed, Filing,
        MerchantsTag
  <2>5. FiledIsKept'
    BY <1>0, <2>1, <2>2, <2>3
    DEF FiledIsKept, InUse, Listed, Editable, EditingTypeOK, Owners
  <2>6. piece'.status # "none" /\ piece'.version > piece.version
    BY <2>2, <2>3 DEF Editable
  <2> QED BY <1>0, <2>1, <2>2, <2>4, <2>5, <2>6, EndKeeps
<1>3. ASSUME NEW s \in Listed, PublishWrites(r, s) PROVE EditingInv'
  <2>1. Runs(r, {"publish"}, {"checked"}) /\ entry' = entry
    BY <1>3 DEF PublishWrites, Ends
  <2>2. /\ piece.status # "none" /\ piece.version < MaxRevisions
        /\ place.drama = "platform" /\ piece.filed => ~entry.deleted
        /\ HoldsDrama(r)
    BY <2>1 DEF ChecksStand, PublishStands, Runs, HoldsDrama
  <2>3. /\ piece' = [status |-> s, deleted |-> piece.deleted, filed |-> piece.filed,
                     imported |-> piece.imported, version |-> piece.version + 1,
                     named |-> piece.named, cuts |-> piece.cuts]
        /\ recorded' = Snapshot(piece)
    BY <1>3 DEF PublishWrites, Changed
  <2>4. EditingTypeOK' /\ EditsAreVersions' /\ NoneIsDeleted' /\ RecordIsListed'
    <3>1. /\ recorded' = Version(piece, IF MerchantsTag THEN "untold" ELSE Filing(piece))
          /\ Filing(piece)' = Filing(piece) /\ MerchantsTag' = MerchantsTag
      BY <1>0, <2>3 DEF Snapshot, InFull, Filing, MerchantsTag
    <3>2. PICK filing \in {"filed", "unfiled", "untold"} :
            /\ recorded' = Version(piece, filing)
            /\ filing = Filing(piece) \/ (MerchantsTag /\ filing = "untold")
      BY <3>1 DEF Filing
    <3>3. EditingTypeOK'
      BY <1>0, <2>1, <2>2, <2>3, <3>2 DEF EditingTypeOK, Version
    <3>4. EditsAreVersions' /\ NoneIsDeleted'
      BY <1>0, <2>1, <2>2, <2>3 DEF EditingTypeOK, EditsAreVersions, NoneIsDeleted, Listed
    <3>5. RecordIsListed'
      BY <2>3, <3>1, <3>2 DEF RecordIsListed, Version
    <3> QED BY <3>3, <3>4, <3>5
  <2>5. FiledIsKept'
    BY <1>0, <2>1, <2>2, <2>3 DEF FiledIsKept, EditingTypeOK, Owners
  <2>6. piece'.status # "none" /\ piece'.version > piece.version /\ piece'.filed = piece.filed
    BY <2>3 DEF Listed
  <2> QED BY <1>0, <2>1, <2>2, <2>4, <2>5, <2>6, EndKeeps
<1>4. CASE RemoveWrites(r)
  <2>1. /\ Runs(r, {"remove"}, {"checked"}) /\ UNCHANGED <<piece, recorded>>
        /\ entry' = [status |-> entry.status, deleted |-> TRUE, version |-> entry.version + 1]
    BY <1>4 DEF RemoveWrites, Ends, EditingTypeOK
  <2>2. HoldsEntry(r) /\ ~Referenced /\ entry.version < MaxEntries
    BY <2>1 DEF ChecksStand, RemoveStands, Runs, HoldsEntry
  <2>3. EditingTypeOK' /\ EditsAreVersions' /\ NoneIsDeleted' /\ RecordIsListed'
    BY <1>0, <2>1, <2>2
    DEF EditingTypeOK, EditsAreVersions, NoneIsDeleted, RecordIsListed, Filing, MerchantsTag
  <2>4. piece.filed => place.kind = "tag" /\ place.drama = "tenant"
    BY <2>2 DEF Referenced, MayReference, EditingTypeOK, Owners
  <2>5. FiledIsKept'
    BY <1>0, <2>1, <2>4 DEF FiledIsKept
  <2>6. piece.filed /\ place.drama = "platform" => ~entry'.deleted
    BY <2>4
  <2> QED BY <1>0, <2>1, <2>2, <2>3, <2>5, <2>6, EndKeeps
<1>5. CASE Abandon(r) /\ UNCHANGED <<place, tracks>>
  <2>1. UNCHANGED <<place, entry, piece, tracks, recorded>>
    BY <1>5 DEF Abandon
  <2>2. /\ EditingTypeOK' /\ EditsAreVersions' /\ NoneIsDeleted' /\ RecordIsListed'
        /\ FiledIsKept'
    BY <1>0, <2>1
    DEF EditingTypeOK, EditsAreVersions, NoneIsDeleted, RecordIsListed, FiledIsKept, Filing,
        MerchantsTag
  <2> QED BY <1>0, <2>1, <2>2, EndKeeps
<1> QED BY <1>1, <1>2, <1>3, <1>4, <1>5

LEMMA EditingStep == EditingInv /\ [EditingNext]_editingVars => EditingInv'
<1> SUFFICES ASSUME EditingInv, [EditingNext]_editingVars PROVE EditingInv'
  OBVIOUS
<1>1. CASE DramaActions
  BY <1>1, DramaActionsKeep, DramaKeptStep
<1>2. CASE (\E s \in {"active", "disabled"} : UpdateEntry(s)) \/ RestoreEntry
  BY <1>2, EntryActionsStep
<1>3. ASSUME NEW r \in Redactors, RedactorNext(r) PROVE EditingInv'
  BY <1>3, StepsKeep, WritesKeep DEF RedactorNext, Abandon
<1>4. CASE UNCHANGED editingVars
  BY <1>4
  DEF editingVars, EditingInv, EditingTypeOK, EditsAreVersions, NoneIsDeleted, LocksExclude,
      ChecksStand, CreateStands, ImportStands, FileStands, PublishStands, RemoveStands, HoldsDrama,
      HoldsEntry, SharesEntry, Runs, InUse, Referenced, FiledIsKept, RecordIsListed, Filing,
      MerchantsTag
<1> QED BY <1>1, <1>2, <1>3, <1>4 DEF EditingNext, DramaActions

\* A publication checked under the lock publishes what was seen at the version it names.
LEMMA SeenStep == EditingInv /\ [EditingNext]_editingVars => SeenIsPublished
<1> SUFFICES ASSUME EditingInv, [EditingNext]_editingVars, NEW r \in Redactors,
                    Runs(r, {"publish"}, {"checked"}),
                    piece'.status \in Listed, piece.status # piece'.status
             PROVE  /\ redaction[r].saw.named = piece'.named /\ redaction[r].saw.tracks = tracks'
                    /\ place.drama = "tenant" => redaction[r].saw.cuts = piece'.cuts
  BY DEF SeenIsPublished
<1> USE EditingAssumption, PieceFields DEF EditingInv
<1>1. /\ redaction[r].saw.named = piece.named /\ redaction[r].saw.tracks = tracks
      /\ place.drama = "tenant" => redaction[r].saw.cuts = piece.cuts
      /\ piece.status # "none" /\ ~DramaFree
  BY DEF ChecksStand, PublishStands, Runs, HoldsDrama, DramaFree
<1>2. CASE DramaActions
  BY <1>1, <1>2, DramaActionsKeep DEF DramaKept
<1>3. ASSUME NEW t \in Redactors, NEW s \in Listed, PublishWrites(t, s)
      PROVE  piece'.named = piece.named /\ piece'.cuts = piece.cuts /\ tracks' = tracks
  BY <1>3 DEF PublishWrites, Ends, Changed
<1>4. piece' # piece
  OBVIOUS
<1>5. ASSUME NEW t \in Redactors, FileWrites(t)
      PROVE  FALSE
  BY <1>5 DEF FileWrites, Ends, LocksExclude, HoldsDrama, Runs
<1>6. ASSUME NEW t \in Redactors, RedactorNext(t)
      PROVE  \E s \in Listed : PublishWrites(t, s)
  BY <1>1, <1>4, <1>5, <1>6
  DEF RedactorNext, CreateReads, CreateWrites, ImportReads, ImportWrites, FileLocks, FileReads,
      PublishAsked, PublishReads, RemoveLocks, RemoveReads, RemoveWrites, Abandon, Step
<1>7. ASSUME (\E s \in {"active", "disabled"} : UpdateEntry(s)) \/ RestoreEntry
      PROVE  FALSE
  BY <1>4, <1>7 DEF UpdateEntry, RestoreEntry, ChangesEntry
<1> QED BY <1>1, <1>2, <1>3, <1>4, <1>6, <1>7 DEF EditingNext, DramaActions, editingVars

\* Of any number of transactions, edits and versions: no category or tag a drama is
\* filed under is deleted but in the cases named, what a publication lists is what was
\* seen when it was asked for, and it is on record, but for a merchant's tags, on which
\* the record may be silent.
THEOREM EditsSound == EditingSpec => EditsAreSound
<1>1. EditingInv /\ EditingInv' /\ [EditingNext]_editingVars
        => [FiledIsKept' /\ SeenIsPublished /\ RecordIsListed']_editingVars
  BY SeenStep DEF EditingInv
<1> QED BY <1>1, EditingInitially, EditingStep, PTL DEF EditingSpec, EditsAreSound

\* The drama, its category or tag and what transactions remember keep their types.
THEOREM EditingTypes == EditingSpec => []EditingTypeOK
<1>1. EditingInv => EditingTypeOK
  BY DEF EditingInv
<1> QED BY <1>1, EditingInitially, EditingStep, PTL DEF EditingSpec

-----------------------------------------------------------------------------
(* Licences and offers.                                                  *)

\* One transaction holds the package, and none that holds it has read what another
\* replaced since.
PackageReadStands(e) ==
  /\ deed[e].licence.edition <= pack.version
  /\ deed[e].step \in {"package", "scoped"} /\ deed[e].licence.scope = "package" =>
       deed[e].licence.edition = pack.version
  /\ deed[e].step = "package" => deed[e].licence.scope = "package"
  /\ deed[e].step = "scoped" /\ deed[e].licence.scope = "package" =>
       deed[e].licence.items = pack.items

PackageIsLocked == \A d, e \in Editors : HoldsPackage(d) /\ HoldsPackage(e) => d = e

\* What a grant checked of the merchant is still so.
MerchantReadStands(e) ==
  HoldsMerchant(e) =>
    /\ merchant.active /\ deed[e].licence.until <= merchant.until
    /\ deed[e].licence.status = "active"

\* Past editions are never written again.
EditionsArePast ==
  /\ edition[pack.version] = pack.items
  /\ \A l \in Licences : licence[l].edition <= pack.version

LicensingInv ==
  /\ LicensingTypeOK /\ PackageIsLocked /\ EditionsArePast /\ ScopesAreEditions
  /\ \A e \in Editors : PackageReadStands(e) /\ MerchantReadStands(e)

\* What a sale has read it holds, and what it holds stands.
HasMade(s)  == sale[s].kind \in Made /\ sale[s].taken >= 1
HasTitle(s) == sale[s].kind \in {"cash", "points"} /\ sale[s].taken >= 1
HasPrice(s) == \/ sale[s].kind \in Made \cup {"cash"} /\ sale[s].taken >= 2
               \/ sale[s].kind = "points" /\ sale[s].taken >= 3
ReadStands(s) ==
  /\ sale[s].kind \in Kinds => "merchant" \in shared[s] /\ merchant.active
  /\ HasMade(s) => MadeRow[sale[s].kind] \in shared[s] /\ plan[sale[s].kind] = "active"
  /\ HasTitle(s) => ForSale \in shared[s] /\ TitleIsOn
  /\ HasPrice(s) => /\ sale[s].kind \in shared[s] /\ price[sale[s].kind].status = "active"
                    /\ price[sale[s].kind].amount = sale[s].amount
  /\ sale[s].basis = "publication" => "publication" \in shared[s] /\ listing = "published"
  /\ sale[s].basis \in Licences =>
       sale[s].basis \in shared[s] /\ licence[sale[s].basis].status = "active"
  /\ sale[s].kind \notin Kinds => sale[s].taken = 0 /\ sale[s].basis = NoBasis

OffersInv == OffersTypeOK /\ LicensingInv /\ \A s \in Sales : ReadStands(s)

-----------------------------------------------------------------------------
(* Licensing.                                                            *)

LEMMA OffersInitially == OffersInit => OffersInv
<1> SUFFICES ASSUME OffersInit PROVE OffersInv
  OBVIOUS
<1> USE DEF OffersInit, LicensingInit
<1>1. LicensingTypeOK
  BY LicensingAssumption DEF LicensingTypeOK, NoLicence, NoDeed, Scopes, Days
<1>2. LicensingInv
  BY <1>1, LicensingAssumption DEF LicensingInv, PackageIsLocked, EditionsArePast, ScopesAreEditions,
       PackageReadStands, MerchantReadStands, HoldsPackage, HoldsMerchant, NoDeed, NoLicence
<1>3. OffersTypeOK
  BY <1>1, LicensingAssumption DEF OffersTypeOK, NoSale, Days
<1>4. \A s \in Sales : ReadStands(s)
  BY OffersAssumption DEF ReadStands, NoSale, Kinds, HasMade, HasTitle, HasPrice, Made
<1> QED BY <1>2, <1>3, <1>4 DEF OffersInv

DeedRow == [step: {"none", "merchant", "package", "scoped", "replacing"},
            licence: [status: {"none", "active"}, scope: Scopes, from: Days, until: Days,
                      items: SUBSET Works, edition: 0 .. MaxEditions],
            row: Licences \cup {"merchant"}]

DeedLicence == [status: {"none", "active"}, scope: Scopes, from: Days, until: Days,
                items: SUBSET Works, edition: 0 .. MaxEditions]

LEMMA NoLicenceIsALicence == NoLicence \in DeedLicence /\ NoLicence.edition = 0
BY LicensingAssumption DEF DeedLicence, NoLicence, Scopes, Days

LEMMA NoDeedIsADeed == NoDeed \in DeedRow
BY LicensingAssumption DEF NoDeed, DeedRow, NoLicence, Scopes, Days

\* What one deed becomes, the others staying as they are.
DeedKept(e) ==
  /\ LicensingTypeOK'
  /\ PackageReadStands(e)' /\ MerchantReadStands(e)'
  /\ \A d \in Editors \ {e} : deed'[d] = deed[d]
  /\ HoldsPackage(e)' => \A d \in Editors \ {e} : ~HoldsPackage(d)
  /\ UNCHANGED <<merchant, pack, edition, licence>>

LEMMA DeedsKeep ==
  ASSUME LicensingInv, NEW e \in Editors, DeedKept(e)
  PROVE  LicensingInv' /\ GrantsAreInTerm
<1> USE DEF LicensingInv, DeedKept
<1>1. \A d \in Editors : PackageReadStands(d)' /\ MerchantReadStands(d)'
  BY DEF PackageReadStands, MerchantReadStands, HoldsMerchant
<1>2. PackageIsLocked'
  BY DEF PackageIsLocked, HoldsPackage
<1>3. EditionsArePast' /\ ScopesAreEditions' /\ GrantsAreInTerm
  BY DEF EditionsArePast, ScopesAreEditions, GrantsAreInTerm
<1> QED BY <1>1, <1>2, <1>3

DeedActions(e) ==
  \/ \E items \in SUBSET Works : BeginReplacement(e, items)
  \/ \E l \in Licences, scope \in Scopes, from, until \in Days :
       BeginGrant(e, l, scope, from, until)
  \/ ReadTitle(e) \/ LockPackage(e) \/ ReadItems(e) \/ AbandonDeed(e)

LEMMA DeedActionsKeep ==
  ASSUME LicensingInv, NEW e \in Editors, DeedActions(e)
  PROVE  DeedKept(e)
<1> USE LicensingAssumption DEF LicensingInv
<1>t. deed \in [Editors -> DeedRow] /\ deed[e] \in DeedRow
  BY DEF LicensingTypeOK, DeedRow
<1>p. pack.version \in 0 .. MaxEditions /\ pack.items \in SUBSET Works
  BY DEF LicensingTypeOK
<1>k. ASSUME deed' = [deed EXCEPT ![e] = deed'[e]], deed'[e] \in DeedRow,
             UNCHANGED <<today, title, merchant, pack, edition, licence, shared, turns>>
      PROVE  LicensingTypeOK' /\ \A d \in Editors \ {e} : deed'[d] = deed[d]
  BY <1>k, <1>t DEF LicensingTypeOK, DeedRow
<1>1. ASSUME NEW items \in SUBSET Works, BeginReplacement(e, items) PROVE DeedKept(e)
  <2> DEFINE new == [NoDeed EXCEPT !.step = "replacing", !.licence.items = items]
  <2>1. new \in DeedRow /\ new.step = "replacing" /\ new.licence.edition = 0
    BY NoDeedIsADeed DEF DeedRow, NoDeed, NoLicence
  <2>2. deed'[e] = new /\ deed' = [deed EXCEPT ![e] = deed'[e]]
    BY <1>1, <1>t DEF BeginReplacement
  <2> HIDE DEF new
  <2>3. deed'[e] \in DeedRow /\ deed'[e].step = "replacing" /\ deed'[e].licence.edition = 0
    BY <2>1, <2>2
  <2>4. PackageReadStands(e)' /\ MerchantReadStands(e)'
    BY <1>1, <1>p, <2>3 DEF BeginReplacement, PackageReadStands, MerchantReadStands, HoldsMerchant
  <2> QED BY <1>1, <1>k, <2>2, <2>3, <2>4 DEF BeginReplacement, DeedKept, PackageIsFree
<1>2. ASSUME NEW l \in Licences, NEW scope \in Scopes, NEW from \in Days, NEW until \in Days,
             BeginGrant(e, l, scope, from, until)
      PROVE  DeedKept(e)
  <2> DEFINE grant == [NoLicence EXCEPT !.status = "active", !.scope = scope,
                                        !.from = from, !.until = until]
  <2>a. grant \in DeedLicence /\ grant.status = "active" /\ grant.until = until /\ grant.edition = 0
    BY NoLicenceIsALicence DEF DeedLicence
  <2>b. deed'[e] = [step |-> "merchant", row |-> l, licence |-> grant]
        /\ deed' = [deed EXCEPT ![e] = deed'[e]]
    BY <1>2, <1>t DEF BeginGrant
  <2>1. deed'[e] \in DeedRow /\ deed'[e].step = "merchant" /\ deed'[e].licence.status = "active"
        /\ deed'[e].licence.until = until /\ deed'[e].licence.edition = 0
        /\ deed' = [deed EXCEPT ![e] = deed'[e]]
    <3> HIDE DEF grant
    <3> QED BY <2>a, <2>b DEF DeedRow, DeedLicence
  <2>2. PackageReadStands(e)' /\ MerchantReadStands(e)' /\ ~HoldsPackage(e)'
    BY <1>2, <1>p, <2>1 DEF BeginGrant, InTerm, PackageReadStands, MerchantReadStands, HoldsMerchant, HoldsPackage
  <2> QED BY <1>2, <1>k, <2>1, <2>2 DEF BeginGrant, DeedKept
<1>3. CASE ReadTitle(e)
  <2>1. deed'[e] \in DeedRow /\ deed'[e].step = "scoped" /\ deed' = [deed EXCEPT ![e] = deed'[e]]
        /\ deed'[e].licence.scope = deed[e].licence.scope
        /\ deed'[e].licence.status = deed[e].licence.status
        /\ deed'[e].licence.until = deed[e].licence.until
        /\ deed'[e].licence.edition = deed[e].licence.edition
    BY <1>3, <1>t DEF ReadTitle, DeedRow, Scopes
  <2>2. PackageReadStands(e)' /\ MerchantReadStands(e)' /\ ~HoldsPackage(e)'
    BY <1>3, <2>1 DEF ReadTitle, PackageReadStands, MerchantReadStands, HoldsMerchant, HoldsPackage
  <2> QED BY <1>3, <1>k, <2>1, <2>2 DEF ReadTitle, DeedKept
<1>4. CASE LockPackage(e)
  <2>1. deed'[e] \in DeedRow /\ deed'[e].step = "package" /\ deed' = [deed EXCEPT ![e] = deed'[e]]
        /\ deed'[e].licence.scope = deed[e].licence.scope
        /\ deed'[e].licence.status = deed[e].licence.status
        /\ deed'[e].licence.until = deed[e].licence.until
        /\ deed'[e].licence.edition = pack.version
    BY <1>4, <1>t, <1>p DEF LockPackage, DeedRow
  <2>2. PackageReadStands(e)' /\ MerchantReadStands(e)'
    BY <1>4, <1>p, <2>1 DEF LockPackage, PackageReadStands, MerchantReadStands, HoldsMerchant
  <2> QED BY <1>4, <1>k, <2>1, <2>2 DEF LockPackage, DeedKept, PackageIsFree
<1>5. CASE ReadItems(e)
  <2>1. deed'[e] \in DeedRow /\ deed'[e].step = "scoped" /\ deed' = [deed EXCEPT ![e] = deed'[e]]
        /\ deed'[e].licence.scope = deed[e].licence.scope
        /\ deed'[e].licence.status = deed[e].licence.status
        /\ deed'[e].licence.until = deed[e].licence.until
        /\ deed'[e].licence.edition = deed[e].licence.edition
        /\ deed'[e].licence.items = pack.items
    BY <1>5, <1>t, <1>p DEF ReadItems, DeedRow
  <2>2. PackageReadStands(e)' /\ MerchantReadStands(e)'
    BY <1>5, <2>1 DEF ReadItems, PackageReadStands, MerchantReadStands, HoldsMerchant
  <2>3. \A d \in Editors \ {e} : ~HoldsPackage(d)
    BY <1>5 DEF ReadItems, PackageIsLocked, HoldsPackage
  <2> QED BY <1>5, <1>k, <2>1, <2>2, <2>3 DEF ReadItems, DeedKept
<1>6. CASE AbandonDeed(e)
  <2>1. deed'[e] = NoDeed /\ deed' = [deed EXCEPT ![e] = deed'[e]]
    BY <1>6, <1>t DEF AbandonDeed
  <2>2. PackageReadStands(e)' /\ MerchantReadStands(e)' /\ ~HoldsPackage(e)'
    BY <1>6, <1>p, <2>1 DEF AbandonDeed, PackageReadStands, MerchantReadStands, HoldsMerchant, HoldsPackage,
         NoDeed, NoLicence
  <2> QED BY <1>6, <1>k, <2>1, <2>2, NoDeedIsADeed DEF AbandonDeed, DeedKept
<1> QED BY <1>1, <1>2, <1>3, <1>4, <1>5, <1>6 DEF DeedActions

\* The other steps of licensing leave the deeds alone, or end one.
LEMMA LicensingKeeps ==
  ASSUME LicensingInv, LicensingNext
  PROVE  LicensingInv' /\ GrantsAreInTerm
<1> USE LicensingAssumption
<1>t. /\ deed \in [Editors -> DeedRow]
      /\ pack \in [made: BOOLEAN, version: 0 .. MaxEditions, items: SUBSET Works]
      /\ edition \in [0 .. MaxEditions -> SUBSET Works]
      /\ licence \in [Licences -> [status: {"none", "active", "revoked"}, scope: Scopes,
           from: Days, until: Days, items: SUBSET Works, edition: 0 .. MaxEditions]]
  BY DEF LicensingInv, LicensingTypeOK, DeedRow
<1>1. CASE CreatePackage
  <2>1. pack' \in [made: BOOLEAN, version: 0 .. MaxEditions, items: SUBSET Works]
        /\ pack'.version = pack.version /\ pack'.items = pack.items
    BY <1>1, <1>t DEF CreatePackage
  <2> QED BY <1>1, <2>1 DEF CreatePackage, LicensingInv, LicensingTypeOK, PackageIsLocked, HoldsPackage,
       EditionsArePast, ScopesAreEditions, PackageReadStands, MerchantReadStands, HoldsMerchant,
       GrantsAreInTerm
<1>2. CASE NextDay
  BY <1>2 DEF NextDay, Days, LicensingInv, LicensingTypeOK, PackageIsLocked, HoldsPackage,
       EditionsArePast, ScopesAreEditions, PackageReadStands, MerchantReadStands, HoldsMerchant,
       GrantsAreInTerm
<1>3. ASSUME NEW e \in Editors, DeedActions(e) PROVE LicensingInv' /\ GrantsAreInTerm
  BY <1>3, DeedActionsKeep, DeedsKeep
<1>4. ASSUME NEW e \in Editors, CommitReplacement(e) PROVE LicensingInv' /\ GrantsAreInTerm
  <2>1. /\ pack' \in [made: BOOLEAN, version: 0 .. MaxEditions, items: SUBSET Works]
        /\ pack'.version = pack.version + 1
    <3>1. deed[e].licence.items \in SUBSET Works
      BY <1>t DEF DeedRow
    <3>2. pack' = [pack EXCEPT !.version = @ + 1, !.items = deed[e].licence.items]
          /\ pack.version < MaxEditions
      BY <1>4 DEF CommitReplacement
    <3>3. /\ pack'.version = pack.version + 1 /\ pack'.items = deed[e].licence.items
          /\ pack'.made = pack.made /\ DOMAIN pack' = DOMAIN pack
      BY <1>t, <3>2
    <3>4. pack' = [made |-> pack'.made, version |-> pack'.version, items |-> pack'.items]
      BY <1>t, <3>2
    <3>5. pack'.version \in 0 .. MaxEditions
      BY <1>t, <3>2, <3>3
    <3> QED BY <1>t, <3>1, <3>3, <3>4, <3>5
  <2>2. /\ edition' \in [0 .. MaxEditions -> SUBSET Works]
        /\ edition'[pack'.version] = pack'.items
        /\ \A v \in 0 .. pack.version : edition'[v] = edition[v]
    <3>1. edition' = [edition EXCEPT ![pack'.version] = pack'.items]
      BY <1>4 DEF CommitReplacement
    <3> QED BY <2>1, <1>t, <3>1
  <2>3. /\ deed' \in [Editors -> DeedRow] /\ deed'[e] = NoDeed
        /\ \A d \in Editors \ {e} : deed'[d] = deed[d] /\ ~HoldsPackage(d)
    BY <1>4, <1>t, NoDeedIsADeed DEF CommitReplacement, LicensingInv, PackageIsLocked, HoldsPackage
  <2>4. LicensingTypeOK'
    BY <1>4, <2>1, <2>2, <2>3 DEF CommitReplacement, LicensingInv, LicensingTypeOK, DeedRow
  <2>5. \A d \in Editors : PackageReadStands(d)' /\ MerchantReadStands(d)' /\ ~HoldsPackage(d)'
    <3>1. deed'[e].step = "none" /\ deed'[e].licence.edition = 0
      BY <2>3, NoLicenceIsALicence DEF NoDeed
    <3>2. PackageReadStands(e)' /\ MerchantReadStands(e)' /\ ~HoldsPackage(e)'
      BY <1>t, <2>1, <3>1 DEF PackageReadStands, MerchantReadStands, HoldsMerchant, HoldsPackage
    <3>3. ASSUME NEW d \in Editors \ {e}
          PROVE  PackageReadStands(d)' /\ MerchantReadStands(d)' /\ ~HoldsPackage(d)'
      <4>1. deed[d].licence.edition \in 0 .. MaxEditions /\ UNCHANGED merchant
        BY <1>4, <1>t DEF CommitReplacement, DeedRow
      <4>2. PackageReadStands(d) /\ MerchantReadStands(d) /\ ~HoldsPackage(d) /\ deed'[d] = deed[d]
        BY <2>3 DEF LicensingInv
      <4> QED BY <1>t, <2>1, <4>1, <4>2 DEF PackageReadStands, MerchantReadStands, HoldsMerchant, HoldsPackage
    <3> QED BY <3>2, <3>3
  <2>6. EditionsArePast' /\ ScopesAreEditions' /\ GrantsAreInTerm
    BY <1>4, <1>t, <2>1, <2>2 DEF CommitReplacement, LicensingInv, EditionsArePast, ScopesAreEditions,
         GrantsAreInTerm
  <2> QED BY <2>4, <2>5, <2>6 DEF LicensingInv, PackageIsLocked
<1>5. ASSUME NEW e \in Editors, CommitGrant(e) PROVE LicensingInv' /\ GrantsAreInTerm
  <2>1. /\ deed' \in [Editors -> DeedRow] /\ deed'[e] = NoDeed
        /\ \A d \in Editors \ {e} : deed'[d] = deed[d]
    BY <1>5, <1>t, NoDeedIsADeed DEF CommitGrant
  <2>2. /\ licence' \in [Licences -> [status: {"none", "active", "revoked"}, scope: Scopes,
             from: Days, until: Days, items: SUBSET Works, edition: 0 .. MaxEditions]]
        /\ \A l \in Licences : licence'[l] \in {licence[l], deed[e].licence}
    BY <1>5, <1>t DEF CommitGrant, DeedRow
  <2>3. LicensingTypeOK'
    BY <1>5, <2>1, <2>2 DEF CommitGrant, LicensingInv, LicensingTypeOK, DeedRow
  <2>4. \A d \in Editors : PackageReadStands(d)' /\ MerchantReadStands(d)'
    BY <1>5, <1>t, <2>1 DEF CommitGrant, LicensingInv, PackageReadStands, MerchantReadStands, HoldsMerchant,
         NoDeed, NoLicence
  <2>5. PackageIsLocked'
    BY <2>1 DEF LicensingInv, PackageIsLocked, HoldsPackage, NoDeed
  <2>6. /\ deed[e].licence.scope = "package" =>
             deed[e].licence.edition = pack.version /\ deed[e].licence.items = pack.items
        /\ deed[e].step = "scoped" /\ merchant.active /\ deed[e].licence.until <= merchant.until
    BY <1>5 DEF CommitGrant, LicensingInv, PackageReadStands, MerchantReadStands, HoldsMerchant
  <2>7. deed[e].licence.edition <= pack.version
    BY DEF LicensingInv, PackageReadStands
  <2>8. EditionsArePast' /\ ScopesAreEditions' /\ GrantsAreInTerm
    BY <1>5, <1>t, <2>2, <2>6, <2>7 DEF CommitGrant, LicensingInv, EditionsArePast, ScopesAreEditions,
         GrantsAreInTerm
  <2> QED BY <2>3, <2>4, <2>5, <2>8 DEF LicensingInv
<1>6. ASSUME NEW l \in Licences, RevokeLicence(l) PROVE LicensingInv' /\ GrantsAreInTerm
  <2>1. /\ licence' \in [Licences -> [status: {"none", "active", "revoked"}, scope: Scopes,
             from: Days, until: Days, items: SUBSET Works, edition: 0 .. MaxEditions]]
        /\ licence'[l].status = "revoked" /\ licence'[l].scope = licence[l].scope
        /\ licence'[l].items = licence[l].items /\ licence'[l].edition = licence[l].edition
        /\ \A k \in Licences \ {l} : licence'[k] = licence[k]
        /\ licence[l].status # "none"
    BY <1>6, <1>t DEF RevokeLicence
  <2>2. \A k \in Licences : /\ licence'[k].status # "none" => licence[k].status # "none"
                            /\ licence'[k].scope = licence[k].scope
                            /\ licence'[k].items = licence[k].items
                            /\ licence'[k].edition = licence[k].edition
    BY <2>1
  <2>3. EditionsArePast' /\ ScopesAreEditions' /\ GrantsAreInTerm
    BY <1>6, <2>2 DEF RevokeLicence, LicensingInv, EditionsArePast, ScopesAreEditions, GrantsAreInTerm
  <2>4. LicensingTypeOK'
    BY <1>6, <2>1 DEF RevokeLicence, LicensingInv, LicensingTypeOK
  <2>5. PackageIsLocked' /\ \A e \in Editors : PackageReadStands(e)' /\ MerchantReadStands(e)'
    BY <1>6 DEF RevokeLicence, LicensingInv, PackageIsLocked, HoldsPackage, PackageReadStands,
         MerchantReadStands, HoldsMerchant
  <2> QED BY <2>3, <2>4, <2>5 DEF LicensingInv
<1>7. ASSUME NEW active \in BOOLEAN, NEW until \in Days, UpdateMerchant(active, until)
      PROVE  LicensingInv' /\ GrantsAreInTerm
  <2>1. \A e \in Editors : ~HoldsMerchant(e) /\ ~HoldsMerchant(e)'
    BY <1>7 DEF UpdateMerchant, MerchantIsFree, HoldsMerchant
  <2> QED BY <1>7, <2>1 DEF UpdateMerchant, Turn, LicensingInv, LicensingTypeOK, PackageIsLocked,
       HoldsPackage, PackageReadStands, MerchantReadStands, EditionsArePast, ScopesAreEditions,
       GrantsAreInTerm
<1>8. ASSUME NEW w \in Works,
             PublishTitle(w) \/ UnpublishTitle(w) \/ DeleteTitle(w) \/ RestoreTitle(w) \/ EmergencyTakedown(w)
      PROVE  LicensingInv' /\ GrantsAreInTerm
  <2>0. title \in [Works -> [status: {"published", "unpublished"}, deleted: BOOLEAN, takenDown: BOOLEAN]]
    BY DEF LicensingInv, LicensingTypeOK
  <2>1. \E new \in [status: {"published", "unpublished"}, deleted: BOOLEAN, takenDown: BOOLEAN] :
          TurnTitle(w, new)
    <3>1. CASE PublishTitle(w)
      BY <3>1, <2>0 DEF PublishTitle
    <3>2. CASE UnpublishTitle(w)
      BY <3>2, <2>0 DEF UnpublishTitle
    <3>3. CASE DeleteTitle(w)
      BY <3>3, <2>0 DEF DeleteTitle
    <3>4. CASE RestoreTitle(w)
      BY <3>4, <2>0 DEF RestoreTitle
    <3>5. CASE EmergencyTakedown(w)
      BY <3>5, <2>0 DEF EmergencyTakedown
    <3> QED BY <1>8, <3>1, <3>2, <3>3, <3>4, <3>5
  <2> QED BY <2>0, <2>1 DEF TurnTitle, Turn, LicensingInv, LicensingTypeOK, PackageIsLocked,
       HoldsPackage, PackageReadStands, MerchantReadStands, HoldsMerchant, EditionsArePast,
       ScopesAreEditions, GrantsAreInTerm
<1> QED
  <2>1. \/ CreatePackage \/ NextDay
        \/ \E e \in Editors : DeedActions(e) \/ CommitReplacement(e) \/ CommitGrant(e)
        \/ \E l \in Licences : RevokeLicence(l)
        \/ \E active \in BOOLEAN, until \in Days : UpdateMerchant(active, until)
        \/ \E w \in Works : \/ PublishTitle(w) \/ UnpublishTitle(w) \/ DeleteTitle(w)
                             \/ RestoreTitle(w) \/ EmergencyTakedown(w)
    BY DEF LicensingNext, DeedActions
  <2> QED BY <2>1, <1>1, <1>2, <1>3, <1>4, <1>5, <1>6, <1>7, <1>8
\* A step that leaves what licensing reads alone.
LEMMA LicensingStands ==
  ASSUME LicensingInv, UNCHANGED <<merchant, pack, edition, licence, deed>>, LicensingTypeOK'
  PROVE  LicensingInv' /\ GrantsAreInTerm
BY DEF LicensingInv, PackageIsLocked, HoldsPackage, PackageReadStands, MerchantReadStands, HoldsMerchant,
   EditionsArePast, ScopesAreEditions, GrantsAreInTerm

-----------------------------------------------------------------------------
(* Sales.                                                                *)

SaleRow == [kind: Kinds \cup {"none", "done"}, taken: 0 .. 3, amount: Fees \cup {0},
            basis: Licences \cup {"publication", NoBasis}, opened: Days]

\* The rows a sale takes one after the other.
LEMMA Paths ==
  /\ \A k \in Made : Len(Path[k]) = 2 /\ Path[k][1] \in {"plan", "package"} /\ Path[k][2] = "price"
  /\ \A k \in {"cash", "points"} : Len(Path[k]) = 3 /\ Path[k][1] = "title"
  /\ Path["cash"][2] = "price" /\ Path["cash"][3] = "basis"
  /\ Path["points"][2] = "basis" /\ Path["points"][3] = "price"
BY DEF Path, Made

\* What staff do to the rows sales read.
StaffKept ==
  /\ UNCHANGED <<shared, sale>>
  /\ merchant'.active = merchant.active \/ Unshared("merchant")
  /\ \A t \in Works : title'[t] = title[t] \/ Unshared(t)
  /\ \A k \in Made : plan'[k] = plan[k] \/ Unshared(MadeRow[k])
  /\ \A k \in Kinds : price'[k] = price[k] \/ Unshared(k)
  /\ listing' = listing \/ Unshared("publication")
  /\ \A l \in Licences : licence[l].status = "active" =>
       licence'[l].status = "active" \/ Unshared(l)

LEMMA StaffKeepSales ==
  ASSUME OffersInv, StaffKept
  PROVE  \A s \in Sales : ReadStands(s)'
<1> SUFFICES ASSUME NEW s \in Sales PROVE ReadStands(s)'
  OBVIOUS
<1>1. ReadStands(s) /\ shared'[s] = shared[s] /\ sale'[s] = sale[s] /\ UNCHANGED <<shared, sale>>
  BY DEF OffersInv, StaffKept
<1>2. \A row \in shared[s] : ~Unshared(row)
  BY DEF Unshared
<1>3. sale[s].kind \in Kinds => "merchant" \in shared[s] /\ merchant'.active
  BY <1>1, <1>2 DEF StaffKept, ReadStands
<1>4. HasMade(s) => MadeRow[sale[s].kind] \in shared[s] /\ plan'[sale[s].kind] = "active"
  BY <1>1, <1>2 DEF StaffKept, ReadStands, HasMade
<1>5. HasTitle(s) => ForSale \in shared[s] /\ TitleIsOn'
  BY <1>1, <1>2, OffersAssumption DEF StaffKept, ReadStands, TitleIsOn, Grantable
<1>6. HasPrice(s) => /\ sale[s].kind \in shared[s] /\ price'[sale[s].kind].status = "active"
                     /\ price'[sale[s].kind].amount = sale[s].amount
  BY <1>1, <1>2 DEF StaffKept, ReadStands, HasPrice, Kinds, Made
<1>7. sale[s].basis = "publication" => "publication" \in shared[s] /\ listing' = "published"
  BY <1>1, <1>2 DEF StaffKept, ReadStands
<1>8. sale[s].basis \in Licences =>
        sale[s].basis \in shared[s] /\ licence'[sale[s].basis].status = "active"
  BY <1>1, <1>2 DEF StaffKept, ReadStands
<1>9. (HasMade(s)' <=> HasMade(s)) /\ (HasTitle(s)' <=> HasTitle(s)) /\ (HasPrice(s)' <=> HasPrice(s))
  BY <1>1 DEF HasMade, HasTitle, HasPrice
<1> QED BY <1>1, <1>3, <1>4, <1>5, <1>6, <1>7, <1>8, <1>9 DEF ReadStands
LEMMA LicensingIsStaffs ==
  ASSUME OffersInv, LicensingNext, UNCHANGED offersVars
  PROVE  StaffKept
<1>s. UNCHANGED <<shared, sale, plan, price, listing>>
  BY DEF LicensingNext, offersVars, CreatePackage, NextDay, BeginReplacement, CommitReplacement, BeginGrant,
       ReadTitle, LockPackage, ReadItems, CommitGrant, AbandonDeed, RevokeLicence, UpdateMerchant,
       PublishTitle, UnpublishTitle, DeleteTitle, RestoreTitle, EmergencyTakedown, TurnTitle
<1>m. merchant'.active = merchant.active \/ Unshared("merchant")
  BY ZenonT(60) DEF LicensingNext, CreatePackage, NextDay, BeginReplacement, CommitReplacement, BeginGrant,
       ReadTitle, LockPackage, ReadItems, CommitGrant, AbandonDeed, RevokeLicence, UpdateMerchant,
       PublishTitle, UnpublishTitle, DeleteTitle, RestoreTitle, EmergencyTakedown, TurnTitle, MerchantIsFree
<1>w. ASSUME NEW w \in Works PROVE title'[w] = title[w] \/ Unshared(w)
  <2>1. ASSUME NEW t \in Works, NEW new, TurnTitle(t, new) PROVE title'[w] = title[w] \/ Unshared(w)
    BY <2>1 DEF TurnTitle, OffersInv, LicensingInv, LicensingTypeOK
  <2>2. ASSUME NEW t \in Works,
               PublishTitle(t) \/ UnpublishTitle(t) \/ DeleteTitle(t) \/ RestoreTitle(t) \/ EmergencyTakedown(t)
        PROVE  title'[w] = title[w] \/ Unshared(w)
    <3>1. \/ TurnTitle(t, [title[t] EXCEPT !.status = "published"])
          \/ TurnTitle(t, [title[t] EXCEPT !.status = "unpublished"])
          \/ TurnTitle(t, [title[t] EXCEPT !.deleted = TRUE])
          \/ TurnTitle(t, [title[t] EXCEPT !.deleted = FALSE])
          \/ TurnTitle(t, [title[t] EXCEPT !.status = "unpublished", !.takenDown = TRUE])
      BY <2>2 DEF PublishTitle, UnpublishTitle, DeleteTitle, RestoreTitle, EmergencyTakedown
    <3> QED BY <2>1, <3>1
  <2> QED BY <2>2 DEF LicensingNext, CreatePackage, NextDay, BeginReplacement, CommitReplacement,
       BeginGrant, ReadTitle, LockPackage, ReadItems, CommitGrant, AbandonDeed, RevokeLicence, UpdateMerchant
<1>l. ASSUME NEW l \in Licences, licence[l].status = "active"
      PROVE  licence'[l].status = "active" \/ Unshared(l)
  <2>1. CASE licence' = licence
    BY <1>l, <2>1
  <2>2. ASSUME NEW e \in Editors, CommitGrant(e) PROVE licence'[l].status = "active"
    <3>1. deed[e].licence.status = "active"
      BY <2>2 DEF CommitGrant, OffersInv, LicensingInv, MerchantReadStands, HoldsMerchant
    <3>2. licence'[l] \in {licence[l], deed[e].licence}
      BY <2>2 DEF CommitGrant, OffersInv, LicensingInv, LicensingTypeOK
    <3> QED BY <1>l, <3>1, <3>2
  <2>3. ASSUME NEW k \in Licences, RevokeLicence(k) PROVE licence'[l] = licence[l] \/ Unshared(l)
    BY <2>3 DEF RevokeLicence, OffersInv, LicensingInv, LicensingTypeOK
  <2> QED BY <1>l, <2>1, <2>2, <2>3
       DEF LicensingNext, CreatePackage, NextDay, BeginReplacement, CommitReplacement, BeginGrant,
       ReadTitle, LockPackage, ReadItems, AbandonDeed, UpdateMerchant,
       PublishTitle, UnpublishTitle, DeleteTitle, RestoreTitle, EmergencyTakedown, TurnTitle
<1> QED BY <1>s, <1>m, <1>w, <1>l DEF StaffKept

LEMMA LicensingStepKeeps ==
  ASSUME OffersInv, LicensingNext, UNCHANGED offersVars
  PROVE  OffersInv' /\ GrantsAreInTerm
<1>1. LicensingInv' /\ GrantsAreInTerm
  BY LicensingKeeps DEF OffersInv
<1>2. OffersTypeOK'
  BY <1>1 DEF OffersInv, OffersTypeOK, LicensingInv, offersVars
<1>3. \A s \in Sales : ReadStands(s)'
  BY LicensingIsStaffs, StaffKeepSales
<1> QED BY <1>1, <1>2, <1>3 DEF OffersInv

\* The merchant's staff, who change what they offer and no licence.
StaffActions ==
  \/ \E decision \in {"approved", "rejected"} : Review(decision)
  \/ \E points \in Prices \cup {price["points"]} : Publish(points)
  \/ Unpublish
  \/ \E status \in {"active", "disabled"}, kind \in Made : SetStatus(kind, status)
  \/ \E new \in Prices, kind \in Kinds : SetPrice(kind, new)

LEMMA StaffActionsKeep ==
  ASSUME OffersInv, StaffActions
  PROVE  OffersInv' /\ GrantsAreInTerm
<1> USE LicensingAssumption
<1>t. /\ LicensingTypeOK
      /\ listing \in {"none", "approved", "rejected", "published", "unpublished"}
      /\ plan \in [Made -> {"none", "active", "disabled"}]
      /\ price \in [Kinds -> [status: {"none", "active", "disabled"}, amount: Fees \cup {0}]]
      /\ sale \in [Sales -> SaleRow]
  BY DEF OffersInv, OffersTypeOK, SaleRow
<1>u. UNCHANGED <<today, title, merchant, pack, edition, licence, deed, shared, sale>> /\ Turn
  BY DEF StaffActions, Review, Publish, Unpublish, SetStatus, SetPrice, StaffTurn
<1>l. LicensingTypeOK'
  BY <1>t, <1>u DEF LicensingTypeOK, Turn
<1>1. LicensingInv' /\ GrantsAreInTerm
  BY <1>u, <1>l, LicensingStands DEF OffersInv
<1>2. /\ listing' \in {"none", "approved", "rejected", "published", "unpublished"}
      /\ listing' = listing \/ Unshared("publication")
  BY <1>t DEF StaffActions, Review, Publish, Unpublish, SetStatus, SetPrice
<1>3. /\ plan' \in [Made -> {"none", "active", "disabled"}]
      /\ \A k \in Made : plan'[k] = plan[k] \/ Unshared(MadeRow[k])
  BY <1>t DEF StaffActions, Review, Publish, Unpublish, SetStatus, SetPrice
<1>4. /\ price' \in [Kinds -> [status: {"none", "active", "disabled"}, amount: Fees \cup {0}]]
      /\ \A k \in Kinds : price'[k] = price[k] \/ Unshared(k)
  BY <1>t DEF StaffActions, Review, Publish, Unpublish, SetStatus, SetPrice, Prices, Kinds
<1>5. StaffKept
  BY <1>u, <1>2, <1>3, <1>4 DEF StaffKept
<1>6. OffersTypeOK'
  BY <1>t, <1>u, <1>l, <1>2, <1>3, <1>4 DEF OffersTypeOK, SaleRow
<1> QED BY <1>1, <1>5, <1>6, StaffKeepSales DEF OffersInv

\* What one sale becomes, the others staying as they are.
SaleKept(s) ==
  /\ SaleStep
  /\ sale'[s] \in SaleRow /\ shared'[s] \in SUBSET Rows
  /\ sale' = [sale EXCEPT ![s] = sale'[s]] /\ shared' = [shared EXCEPT ![s] = shared'[s]]
  /\ ReadStands(s)'

LEMMA SalesKeep ==
  ASSUME OffersInv, NEW s \in Sales, SaleKept(s)
  PROVE  OffersInv' /\ GrantsAreInTerm
<1>t. sale \in [Sales -> SaleRow] /\ shared \in [Sales -> SUBSET Rows]
  BY DEF OffersInv, OffersTypeOK, LicensingTypeOK, SaleRow
<1>1. sale' \in [Sales -> SaleRow] /\ shared' \in [Sales -> SUBSET Rows]
  BY <1>t DEF SaleKept
<1>2. LicensingTypeOK' /\ OffersTypeOK'
  BY <1>1 DEF OffersInv, OffersTypeOK, LicensingTypeOK, SaleRow, SaleKept, SaleStep
<1>3. LicensingInv' /\ GrantsAreInTerm
  BY <1>2, LicensingStands DEF OffersInv, SaleKept, SaleStep
<1>4. ASSUME NEW d \in Sales PROVE ReadStands(d)'
  <2>1. CASE d = s
    BY <2>1 DEF SaleKept
  <2>2. CASE d # s
    <3>1. sale'[d] = sale[d] /\ shared'[d] = shared[d]
      BY <1>t, <2>2 DEF SaleKept
    <3>2. ReadStands(d)
      BY DEF OffersInv
    <3> QED BY <3>1, <3>2 DEF SaleKept, SaleStep, ReadStands, HasMade, HasTitle, HasPrice, TitleIsOn, Grantable
  <2> QED BY <2>1, <2>2
<1> QED BY <1>2, <1>3, <1>4 DEF OffersInv
SaleActions(s) ==
  \/ \E kind \in Kinds : OpenSale(s, kind)
  \/ TakeTitle(s) \/ TakeProduct(s) \/ TakePrice(s) \/ TakeBasis(s) \/ EndSale(s)

LEMMA SaleActionsKeep ==
  ASSUME OffersInv, NEW s \in Sales, SaleActions(s)
  PROVE  SaleKept(s)
<1>t. /\ sale \in [Sales -> SaleRow] /\ shared \in [Sales -> SUBSET Rows]
      /\ sale[s] \in SaleRow /\ shared[s] \in SUBSET Rows
      /\ price \in [Kinds -> [status: {"none", "active", "disabled"}, amount: Fees \cup {0}]]
      /\ today \in Days
      /\ ReadStands(s)
  BY DEF OffersInv, OffersTypeOK, LicensingTypeOK, SaleRow
<1>r. Kinds \cup {"merchant", "publication", "plan", "package"} \cup Works \cup Licences \subseteq Rows
  BY DEF Rows
\* Each action, by what it makes of the sale and which row it takes.
<1>k. ASSUME NEW row \in Rows, SaleStep, Share(s, row), sale' = [sale EXCEPT ![s] = sale'[s]],
             sale'[s] \in SaleRow, ReadStands(s)'
      PROVE  SaleKept(s)
  BY <1>k, <1>t DEF SaleKept, Share
<1>x. ASSUME NEW row, SaleStep, Share(s, row)
      PROVE  /\ shared'[s] = shared[s] \cup {row}
             /\ UNCHANGED <<merchant, plan, price, title, listing, licence>>
  BY <1>x, <1>t DEF Share, SaleStep
<1>1. ASSUME NEW kind \in Kinds, OpenSale(s, kind) PROVE SaleKept(s)
  <2>1. /\ sale'[s] \in SaleRow /\ sale' = [sale EXCEPT ![s] = sale'[s]]
        /\ sale'[s].kind = kind /\ sale'[s].taken = 0 /\ sale'[s].basis = NoBasis
    BY <1>1, <1>t DEF OpenSale, SaleRow, ReadStands, Kinds
  <2>2. SaleStep /\ Share(s, "merchant") /\ merchant.active
    BY <1>1 DEF OpenSale, MerchantRead, InTerm
  <2>3. ReadStands(s)'
    BY <1>x, <2>1, <2>2, OffersAssumption DEF ReadStands, HasMade, HasTitle, HasPrice
  <2> QED BY <1>k, <1>r, <2>1, <2>2, <2>3
<1>2. CASE TakeTitle(s)
  <2>1. sale[s].kind \in {"cash", "points"} /\ sale[s].taken = 0
    BY <1>2, <1>t, Paths DEF TakeTitle, Selling, Kinds, Made, SaleRow
  <2>2. /\ sale'[s] \in SaleRow /\ sale' = [sale EXCEPT ![s] = sale'[s]]
        /\ sale'[s].kind = sale[s].kind /\ sale'[s].taken = 1 /\ sale'[s].basis = sale[s].basis
    BY <1>2, <1>t, <2>1 DEF TakeTitle, SaleRow
  <2>3. SaleStep /\ Share(s, ForSale) /\ TitleIsOn
    BY <1>2 DEF TakeTitle
  <2>4. ReadStands(s)'
    BY <1>x, <1>t, <2>1, <2>2, <2>3
       DEF ReadStands, HasMade, HasTitle, HasPrice, Kinds, Made, TitleIsOn, Grantable
  <2> QED BY <1>k, <1>r, <2>2, <2>3, <2>4, OffersAssumption
<1>3. CASE TakeProduct(s)
  <2>1. sale[s].kind \in Made /\ sale[s].taken = 0 /\ plan[sale[s].kind] = "active"
    BY <1>3 DEF TakeProduct
  <2>2. /\ sale'[s] \in SaleRow /\ sale' = [sale EXCEPT ![s] = sale'[s]]
        /\ sale'[s].kind = sale[s].kind /\ sale'[s].taken = 1 /\ sale'[s].basis = sale[s].basis
    BY SMTT(60), <1>3, <1>t, <2>1 DEF TakeProduct, SaleRow
  <2>3. SaleStep /\ Share(s, MadeRow[sale[s].kind]) /\ MadeRow[sale[s].kind] \in {"plan", "package"}
    BY <1>3, <2>1 DEF TakeProduct, MadeRow, Made
  <2>4. ReadStands(s)'
    BY <1>x, <1>t, <2>1, <2>2, <2>3 DEF ReadStands, HasMade, HasTitle, HasPrice, Kinds, Made
  <2> QED BY <1>k, <1>r, <2>2, <2>3, <2>4
<1>4. CASE TakePrice(s)
  <2>1. /\ sale[s].kind \in Kinds /\ price[sale[s].kind].status = "active"
        /\ sale[s].taken = IF sale[s].kind = "points" THEN 2 ELSE 1
    BY <1>4, <1>t, Paths DEF TakePrice, Selling, Kinds, Made, SaleRow
  <2>2. /\ sale'[s] \in SaleRow /\ sale' = [sale EXCEPT ![s] = sale'[s]]
        /\ sale'[s].kind = sale[s].kind /\ sale'[s].taken = sale[s].taken + 1
        /\ sale'[s].basis = sale[s].basis /\ sale'[s].amount = price[sale[s].kind].amount
    <3> DEFINE new == [sale[s] EXCEPT !.taken = @ + 1, !.amount = price[sale[s].kind].amount]
    <3>1. sale[s].taken + 1 \in 0 .. 3 /\ price[sale[s].kind].amount \in Fees \cup {0}
      BY <1>t, <2>1
    <3>2. /\ new \in SaleRow /\ new.kind = sale[s].kind /\ new.taken = sale[s].taken + 1
          /\ new.basis = sale[s].basis /\ new.amount = price[sale[s].kind].amount
      BY <1>t, <3>1 DEF SaleRow
    <3>3. sale' = [sale EXCEPT ![s] = new]
      BY <1>4 DEF TakePrice
    <3> HIDE DEF new
    <3> QED BY <1>t, <3>2, <3>3
  <2>3. SaleStep /\ Share(s, sale[s].kind)
    BY <1>4 DEF TakePrice
  <2>4. ReadStands(s)'
    BY <1>x, <1>t, <2>1, <2>2, <2>3
       DEF ReadStands, HasMade, HasTitle, HasPrice, Kinds, Made, TitleIsOn, Grantable
  <2> QED BY <1>k, <1>r, <2>1, <2>2, <2>3, <2>4
<1>5. CASE TakeBasis(s)
  <2>1. sale[s].kind \in {"cash", "points"}
        /\ sale[s].taken = IF sale[s].kind = "points" THEN 1 ELSE 2
    BY <1>5, <1>t, Paths DEF TakeBasis, Selling, Kinds, Made, SaleRow
  <2>2. PICK row : /\ row \in IF listing = "none"
                               THEN { l \in Licences : InForce(l) /\ ForSale \in licence[l].items }
                               ELSE { r \in {"publication"} : listing = "published" }
                   /\ sale' = [sale EXCEPT ![s].taken = @ + 1, ![s].basis = row]
                   /\ Share(s, row)
    BY <1>5 DEF TakeBasis
  <2>3. \/ row = "publication" /\ row \notin Licences /\ listing = "published"
        \/ row \in Licences /\ row # "publication" /\ licence[row].status = "active"
    BY <2>2, OffersAssumption DEF InForce
  <2>4. /\ sale'[s] \in SaleRow /\ sale' = [sale EXCEPT ![s] = sale'[s]]
        /\ sale'[s].kind = sale[s].kind /\ sale'[s].taken = sale[s].taken + 1
        /\ sale'[s].basis = row /\ sale'[s].amount = sale[s].amount
    <3> DEFINE new == [sale[s] EXCEPT !.taken = @ + 1, !.basis = row]
    <3>1. sale[s].taken + 1 \in 0 .. 3 /\ row \in Licences \cup {"publication", NoBasis}
      BY <2>1, <2>3
    <3>2. /\ new \in SaleRow /\ new.kind = sale[s].kind /\ new.taken = sale[s].taken + 1
          /\ new.basis = row /\ new.amount = sale[s].amount
      BY <1>t, <3>1 DEF SaleRow
    <3>3. sale' = [sale EXCEPT ![s] = new]
      BY <2>2
    <3> HIDE DEF new
    <3> QED BY <1>t, <3>2, <3>3
  <2>5. SaleStep /\ Share(s, row)
    BY <1>5, <2>2 DEF TakeBasis
  <2>6. ReadStands(s)'
    BY <1>x, <1>t, <2>1, <2>3, <2>4, <2>5
       DEF ReadStands, HasMade, HasTitle, HasPrice, Kinds, Made, TitleIsOn, Grantable
  <2> QED BY <1>k, <1>r, <2>3, <2>4, <2>5, <2>6
<1>6. CASE EndSale(s)
  <2>1. /\ sale'[s] \in SaleRow /\ sale' = [sale EXCEPT ![s] = sale'[s]]
        /\ sale'[s].kind = "done" /\ sale'[s].taken = 0 /\ sale'[s].basis = NoBasis
    BY <1>6, <1>t, LicensingAssumption DEF EndSale, NoSale, SaleRow, Days
  <2>2. SaleStep /\ shared' = [shared EXCEPT ![s] = shared'[s]] /\ shared'[s] = {}
    BY <1>6, <1>t DEF EndSale
  <2>3. ReadStands(s)'
    BY <2>1, <2>2, OffersAssumption DEF ReadStands, HasMade, HasTitle, HasPrice, Kinds, Made
  <2> QED BY <2>1, <2>2, <2>3 DEF SaleKept
<1> QED BY <1>1, <1>2, <1>3, <1>4, <1>5, <1>6 DEF SaleActions

LEMMA OffersInvKept == OffersInv /\ [OffersNext]_<<licensingVars, offersVars>> =>
                         OffersInv' /\ [ScopesAreEditions' /\ GrantsAreInTerm]_licensingVars
<1> SUFFICES ASSUME OffersInv, [OffersNext]_<<licensingVars, offersVars>>
             PROVE  OffersInv' /\ [ScopesAreEditions' /\ GrantsAreInTerm]_licensingVars
  OBVIOUS
<1>1. CASE LicensingNext /\ UNCHANGED offersVars
  BY <1>1, LicensingStepKeeps DEF OffersInv, LicensingInv
<1>2. CASE StaffActions
  BY <1>2, StaffActionsKeep DEF OffersInv, LicensingInv
<1>3. ASSUME NEW s \in Sales, SaleActions(s) PROVE OffersInv' /\ ScopesAreEditions' /\ GrantsAreInTerm
  BY <1>3, SaleActionsKeep, SalesKeep DEF OffersInv, LicensingInv
<1>4. CASE UNCHANGED <<licensingVars, offersVars>>
  <2>1. UNCHANGED licensingVars /\ UNCHANGED offersVars
    BY <1>4
  <2>2. LicensingTypeOK'
    BY <2>1 DEF OffersInv, LicensingInv, LicensingTypeOK, licensingVars
  <2>3. LicensingInv'
    BY <2>1, <2>2, LicensingStands DEF OffersInv, licensingVars
  <2>4. OffersTypeOK'
    BY <2>1, <2>2 DEF OffersInv, OffersTypeOK, offersVars
  <2>5. \A s \in Sales : ReadStands(s)'
    BY <2>1 DEF OffersInv, ReadStands, HasMade, HasTitle, HasPrice, TitleIsOn, Grantable,
         licensingVars, offersVars
  <2> QED BY <2>1, <2>3, <2>4, <2>5 DEF OffersInv
<1>5. \/ LicensingNext /\ UNCHANGED offersVars
      \/ StaffActions
      \/ \E s \in Sales : SaleActions(s)
      \/ UNCHANGED <<licensingVars, offersVars>>
  <2>1. ASSUME OffersNext PROVE \/ LicensingNext /\ UNCHANGED offersVars
                               \/ StaffActions
                               \/ \E s \in Sales : SaleActions(s)
    BY <2>1 DEF OffersNext, StaffActions, SaleActions, CommitSale, AbandonSale, CreateMembershipPlan,
         UpdateMembershipPlanStatus, CreatePointsTopupPackage, UpdateTopupPackageStatus, Made, Kinds,
         UpsertMembershipPlanPrice, UpsertTopupPackagePrice, UpsertContentPrice, UpsertPointPrice, SetMadePrice
  <2> QED BY <2>1
<1> QED BY <1>1, <1>2, <1>3, <1>4, <1>5

\* When a sale has read all it needs, the merchant, the price, the plan or the title and
\* what the sale rests on are as it read them, whatever staff did meanwhile.
THEOREM SalesCovered == OffersSpec => []SalesAreCovered
<1>1. OffersSpec => []OffersInv
  BY OffersInitially, OffersInvKept, PTL DEF OffersSpec
<1>2. ASSUME OffersInv PROVE SalesAreCovered
  <2> SUFFICES ASSUME NEW s \in Sales, Ready(s)
               PROVE  /\ merchant.active
                      /\ price[sale[s].kind].status = "active" /\ price[sale[s].kind].amount = sale[s].amount
                      /\ IF sale[s].kind \in Made THEN plan[sale[s].kind] = "active" ELSE TitleIsOn
                      /\ sale[s].basis = "publication" => listing = "published"
                      /\ sale[s].basis \in Licences => licence[sale[s].basis].status = "active"
    BY DEF SalesAreCovered
  <2>1. ReadStands(s) /\ sale[s].kind \in Kinds /\ sale[s].taken = Len(Path[sale[s].kind])
    BY <1>2 DEF OffersInv, Ready
  <2>2. /\ sale[s].kind \in Made => sale[s].taken = 2
        /\ sale[s].kind \in {"cash", "points"} => sale[s].taken = 3
    BY <2>1, Paths
  <2>3. HasPrice(s) /\ (sale[s].kind \in Made => HasMade(s)) /\ (sale[s].kind \notin Made => HasTitle(s))
    <3>1. sale[s].kind \in Made \cup {"cash", "points"}
      BY <2>1 DEF Kinds, Made
    <3> QED BY <2>2, <3>1 DEF HasPrice, HasMade, HasTitle
  <2>4. /\ merchant.active
        /\ sale[s].basis = "publication" => listing = "published"
        /\ sale[s].basis \in Licences => licence[sale[s].basis].status = "active"
    BY <2>1 DEF ReadStands
  <2>5. price[sale[s].kind].status = "active" /\ price[sale[s].kind].amount = sale[s].amount
    BY <2>1, <2>3 DEF ReadStands
  <2>6. IF sale[s].kind \in Made THEN plan[sale[s].kind] = "active" ELSE TitleIsOn
    BY <2>1, <2>3 DEF ReadStands
  <2> QED BY <2>4, <2>5, <2>6
<1> QED BY <1>1, <1>2, PTL

\* A licence of a package covers one version of the package as a whole, and is written
\* only within the term of a merchant who is active then.
THEOREM LicencesSound == OffersSpec => LicencesAreSound
<1>1. OffersSpec => []OffersInv
  BY OffersInitially, OffersInvKept, PTL DEF OffersSpec
<1> QED BY <1>1, OffersInvKept, PTL DEF OffersSpec, LicencesAreSound

\* The rows of licensing, offers and sales stay what the schema allows.
THEOREM OffersTyped == OffersSpec => []OffersTypeOK
<1>1. OffersSpec => []OffersInv
  BY OffersInitially, OffersInvKept, PTL DEF OffersSpec
<1>2. OffersInv => OffersTypeOK
  BY DEF OffersInv
<1> QED BY <1>1, <1>2, PTL

=============================================================================
