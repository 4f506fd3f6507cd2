----------------------------- MODULE ContentImport -----------------------------
(*************************************************************************)
(* A merchant's dramas leave and enter the service as a file:            *)
(* TenantContentPortabilityService, TenantContentImportWorkerService and *)
(* migration 0026.                                                       *)
(*                                                                       *)
(* The first part is the file: text is a sequence of characters, of      *)
(* which only those the writer or the reader treat differently are told  *)
(* apart.  The second part is the job: a worker locks one, looks its     *)
(* references up, imports its dramas and completes it in one             *)
(* transaction, which is two steps here because others commit in         *)
(* between; after an exception the same worker marks it failed in a      *)
(* second transaction, in which it no longer holds the lock.             *)
(*************************************************************************)
EXTENDS Integers, Sequences, SequencesExt, FiniteSets

CONSTANTS
  Files,           (* content_import_jobs                                  *)
  DramaCodes,      (* Codes of dramas, unique within the merchant.         *)
  CodesOf,         (* The codes of a file.                                 *)
  Importers,       (* Worker processes.                                    *)
  MaxFaults,       (* Bound on failures and stops of workers.              *)
  MaxField,        (* MAX_FIELD: the longest field of a file.              *)
  Sheets,          (* What staff export: rows of cells.                    *)
  Catalogues,      (* What staff export: dramas with locales and episodes. *)
  Staff, NoFile

ASSUME FilesAssumption ==
  /\ CodesOf \in [Files -> SUBSET DramaCodes]
  /\ Staff \notin Files /\ NoFile \notin Files \cup {Staff}

VARIABLES
  importJob,     (* The status of a job, "none" before it is uploaded.           *)
  importer,      (* The transaction a worker is in.                              *)
  dramaOf,       (* Who made the drama of a code: staff, a job, nobody yet.      *)
  references,    (* Media, categories, tags and the merchant are all available.  *)
  faults,        (* Failures and stops so far.                                   *)
  sheet,         (* A sheet that was exported, with what reading its text gives. *)
  shelf          (* Dramas that were exported, with what reading them gives.     *)

importVars == <<importJob, importer, dramaOf, references, faults, sheet, shelf>>

(*************************************************************************)
(* Cells.  Opening is the set of first characters that a spreadsheet     *)
(* would take for a formula.                                             *)
(*************************************************************************)
Opening == {"=", "'"}
Opens(text) == text # <<>> /\ Head(text) \in Opening

\* csvCell: the guard against formulas, then quotes.
CsvCell(text) ==
  LET safe == IF Opens(text) THEN <<"'">> \o text ELSE text
  IN  <<"q">> \o FlattenSeq([i \in DOMAIN safe |-> IF safe[i] = "q" THEN <<"q", "q">>
                                                  ELSE <<safe[i]>>]) \o <<"q">>

\* decodeCsvCell
DecodeCell(text) == IF Len(text) > 1 /\ text[1] = "'" /\ text[2] \in Opening THEN Tail(text) ELSE text

Joined(texts, sign) ==
  FlattenSeq([i \in DOMAIN texts |-> IF i = 1 THEN texts[i] ELSE <<sign>> \o texts[i]])

\* csvExport: "n" stands for the line break and "c" for the comma.
SheetText(rows) ==
  FlattenSeq([i \in DOMAIN rows |->
    Joined([j \in DOMAIN rows[i] |-> CsvCell(rows[i][j])], "c") \o <<"n">>])

(*************************************************************************)
(* parseRfc4180, one character at a time.                                *)
(*************************************************************************)
Fresh == [state |-> "start", field |-> <<>>, row |-> <<>>, rows |-> <<>>, ok |-> TRUE]

FinishField(p) == [p EXCEPT !.row = Append(@, p.field), !.field = <<>>, !.state = "start"]
FinishRow(p)   == LET f == FinishField(p) IN [f EXCEPT !.rows = Append(@, f.row), !.row = <<>>]
Reject(p)      == [p EXCEPT !.ok = FALSE]
Takes(p, char) == [p EXCEPT !.field = Append(@, char)]

\* A quote inside quotes ends them unless the next character is one too; the
\* reader looks ahead where this one looks back.
ReadChar(p, char) ==
  CASE ~p.ok -> p
    [] p.state = "quoted"     -> IF char = "q" THEN [p EXCEPT !.state = "afterQuote"]
                                 ELSE Takes(p, char)
    [] p.state = "afterQuote" -> CASE char = "q" -> [Takes(p, char) EXCEPT !.state = "quoted"]
                                   [] char = "c" -> FinishField(p)
                                   [] char = "n" -> FinishRow(p)
                                   [] OTHER      -> Reject(p)
    [] char = "q"             -> IF p.state = "start" THEN [p EXCEPT !.state = "quoted"]
                                 ELSE Reject(p)
    [] char = "c"             -> FinishField(p)
    [] char = "n"             -> FinishRow(p)
    [] OTHER                  -> [Takes(p, char) EXCEPT !.state = "unquoted"]

Bounded(p) == IF Len(p.field) > MaxField THEN Reject(p) ELSE p

ParseText(text) ==
  LET step(p, char) == Bounded(ReadChar(p, char))
      last          == FoldLeft(step, Fresh, text)
      closed        == IF last.field # <<>> \/ last.row # <<>> \/ last.state = "afterQuote"
                       THEN FinishRow(last) ELSE last
  IN  IF last.ok /\ last.state # "quoted" THEN closed.rows ELSE <<>>

\* parseCsvImport reads each cell of the rows that are not empty; a text that is
\* refused has no rows.
ReadSheet(text) ==
  LET rows == ParseText(text) IN
  SelectSeq([i \in DOMAIN rows |-> [j \in DOMAIN rows[i] |-> DecodeCell(rows[i][j])]],
            LAMBDA row : \E j \in DOMAIN row : row[j] # <<>>)

(*************************************************************************)
(* Dramas as rows: one for each locale of a drama, one for each locale   *)
(* of an episode, and back.                                              *)
(*************************************************************************)
CsvRows(drama) ==
  [i \in DOMAIN drama.locales |->
     [code |-> drama.code, locale |-> drama.locales[i], episode |-> 0, in |-> "none"]]
  \o FlattenSeq([k \in DOMAIN drama.episodes |->
       [i \in DOMAIN drama.episodes[k].locales |->
          [code |-> drama.code, locale |-> "none", episode |-> drama.episodes[k].no,
           in |-> drama.episodes[k].locales[i]]]])

\* Adding one value to the group of that name, which is made if it is new.
Position(seq, P(_)) == CHOOSE i \in DOMAIN seq : P(seq[i])
Grouped(seq, P(_), new, add(_)) ==
  IF \E i \in DOMAIN seq : P(seq[i])
  THEN [seq EXCEPT ![Position(seq, P)] = add(@)]
  ELSE Append(seq, add(new))

ReadRow(dramas, row) ==
  LET episode(e) == [e EXCEPT !.locales = Append(@, row.in)]
      drama(d) == [d EXCEPT
        !.locales  = IF row.locale = "none" THEN @ ELSE Append(@, row.locale),
        !.episodes = IF row.episode = 0 THEN @
                     ELSE Grouped(@, LAMBDA e : e.no = row.episode,
                                  [no |-> row.episode, locales |-> <<>>], episode)]
  IN  Grouped(dramas, LAMBDA d : d.code = row.code,
              [code |-> row.code, locales |-> <<>>, episodes |-> <<>>], drama)

ReadRows(rows) == FoldLeft(ReadRow, <<>>, rows)

(*************************************************************************)
(* The jobs.                                                             *)
(*************************************************************************)
NoImport == [step |-> "idle", file |-> NoFile]

ImportTypeOK ==
  /\ importJob \in [Files -> {"none", "uploaded", "completed", "failed"}]
  /\ importer \in [Importers -> [step: {"idle", "importing", "failing"}, file: Files \cup {NoFile}]]
  /\ dramaOf \in [DramaCodes -> Files \cup {Staff, NoFile}]
  /\ references \in BOOLEAN /\ faults \in 0 .. MaxFaults

ImportInit ==
  /\ importJob = [f \in Files |-> "none"]
  /\ importer = [w \in Importers |-> NoImport]
  /\ dramaOf = [c \in DramaCodes |-> NoFile]
  /\ references = TRUE /\ faults = 0
  /\ sheet = [rows |-> <<>>, back |-> <<>>]
  /\ shelf = [dramas |-> <<>>, back |-> <<>>]

\* exportContent, and the text of that file read back by createImport.
ExportSheet(rows) ==
  /\ sheet.rows = <<>>
  /\ sheet' = [rows |-> rows, back |-> ReadSheet(SheetText(rows))]
  /\ UNCHANGED <<importJob, importer, dramaOf, references, faults, shelf>>

ExportCatalogue(dramas) ==
  /\ shelf.dramas = <<>>
  /\ shelf' = [dramas |-> dramas,
               back |-> ReadRows(FlattenSeq([i \in DOMAIN dramas |-> CsvRows(dramas[i])]))]
  /\ UNCHANGED <<importJob, importer, dramaOf, references, faults, sheet>>

\* createImport
CreateImport(f) ==
  /\ importJob[f] = "none"
  /\ importJob' = [importJob EXCEPT ![f] = "uploaded"]
  /\ UNCHANGED <<importer, dramaOf, references, faults, sheet, shelf>>

\* Staff create a drama of that code by hand.
CreateDramaByHand(c) ==
  /\ dramaOf[c] = NoFile
  /\ dramaOf' = [dramaOf EXCEPT ![c] = Staff]
  /\ UNCHANGED <<importJob, importer, references, faults, sheet, shelf>>

ChangeReferences ==
  /\ references' = ~references
  /\ UNCHANGED <<importJob, importer, dramaOf, faults, sheet, shelf>>

\* The row of a job is locked by the transaction that imports it.
Locked(f) == \E w \in Importers : importer[w] = [step |-> "importing", file |-> f]

\* validateDatabaseReferences, on what is committed at that moment.
Valid(f) == references /\ \A c \in CodesOf[f] : dramaOf[c] = NoFile

\* processOne up to the first drama: skip locked, and errors end the job here.
BeginImport(w, f) ==
  /\ importer[w] = NoImport
  /\ importJob[f] = "uploaded" /\ ~Locked(f)
  /\ IF Valid(f)
     THEN importer' = [importer EXCEPT ![w] = [step |-> "importing", file |-> f]] /\ UNCHANGED importJob
     ELSE importJob' = [importJob EXCEPT ![f] = "failed"] /\ UNCHANGED importer
  /\ UNCHANGED <<dramaOf, references, faults, sheet, shelf>>

\* importDrama for each row, and the end of the transaction: a code that was
\* taken meanwhile breaks the unique index, and nothing of it remains.
CommitImport(w) ==
  LET f == importer[w].file IN
  /\ importer[w].step = "importing"
  /\ IF \A c \in CodesOf[f] : dramaOf[c] = NoFile
     THEN /\ dramaOf' = [c \in DramaCodes |-> IF c \in CodesOf[f] THEN f ELSE dramaOf[c]]
          /\ importJob' = [importJob EXCEPT ![f] = "completed"]
          /\ importer' = [importer EXCEPT ![w] = NoImport]
     ELSE /\ importer' = [importer EXCEPT ![w].step = "failing"]
          /\ UNCHANGED <<dramaOf, importJob>>
  /\ UNCHANGED <<references, faults, sheet, shelf>>

\* Any other exception of that transaction.
AbortImport(w) ==
  /\ importer[w].step = "importing" /\ faults < MaxFaults
  /\ importer' = [importer EXCEPT ![w].step = "failing"]
  /\ faults' = faults + 1
  /\ UNCHANGED <<importJob, dramaOf, references, sheet, shelf>>

\* Mutant: whatever became of the job meanwhile, it failed.
FailsAnyway(w) ==
  LET f == importer[w].file IN
  /\ importer[w].step = "failing" /\ ~Locked(f)
  /\ importJob' = [importJob EXCEPT ![f] = "failed"]
  /\ importer' = [importer EXCEPT ![w] = NoImport]
  /\ UNCHANGED <<dramaOf, references, faults, sheet, shelf>>

\* failUnexpected waits for the row's lock, which may be another worker's now.
FailUnexpected(w) ==
  LET f == importer[w].file IN
  /\ importer[w].step = "failing" /\ ~Locked(f)
  /\ importJob' = [importJob EXCEPT ![f] = IF @ = "completed" THEN @ ELSE "failed"]
  /\ importer' = [importer EXCEPT ![w] = NoImport]
  /\ UNCHANGED <<dramaOf, references, faults, sheet, shelf>>

\* The process stops: its transaction, if any, is rolled back.
StopImporter(w) ==
  /\ importer[w] # NoImport /\ faults < MaxFaults
  /\ importer' = [importer EXCEPT ![w] = NoImport]
  /\ faults' = faults + 1
  /\ UNCHANGED <<importJob, dramaOf, references, sheet, shelf>>

ExportNext ==
  \/ \E rows \in Sheets : ExportSheet(rows)
  \/ \E dramas \in Catalogues : ExportCatalogue(dramas)

ImportNext ==
  \/ \E f \in Files : CreateImport(f) \/ \E w \in Importers : BeginImport(w, f)
  \/ \E c \in DramaCodes : CreateDramaByHand(c)
  \/ ChangeReferences
  \/ \E w \in Importers :
       CommitImport(w) \/ AbortImport(w) \/ FailUnexpected(w) \/ StopImporter(w)

ImportSpec == ImportInit /\ [][ImportNext \/ ExportNext]_importVars

(*************************************************************************)
(* Properties.                                                           *)
(*************************************************************************)
\* A job is completed if and only if its dramas are there and are its own; one
\* that failed, or waits, has left none behind, whoever worked on it meanwhile.
ImportIsAllOrNothing ==
  \A f \in Files :
    /\ importJob[f] = "completed" => \A c \in CodesOf[f] : dramaOf[c] = f
    /\ importJob[f] # "completed" => \A c \in DramaCodes : dramaOf[c] # f

\* What was exported is read back as it was, whatever quotes, signs and breaks
\* it holds; only a text of the greatest length that needs the guard against
\* formulas is refused, for the guard makes it too long.
ExportsAreReadBack ==
  /\ sheet.back = sheet.rows \/ (/\ sheet.back = <<>>
                               /\ \E i \in DOMAIN sheet.rows : \E j \in DOMAIN sheet.rows[i] :
                                    Opens(sheet.rows[i][j]) /\ Len(sheet.rows[i][j]) = MaxField)
  /\ shelf.back = shelf.dramas

PortableContent == ImportIsAllOrNothing /\ ExportsAreReadBack
=============================================================================
