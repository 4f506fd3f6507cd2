------------------------------ MODULE CursorPages ------------------------------
(*************************************************************************)
(* How a list that is longer than a page is read: customers read their   *)
(* points and rights, staff their customers and the ledger, and a        *)
(* customer exports what is kept of the account.                         *)
(*                                                                       *)
(* Rows are listed from the latest to the first, by created_at and id,   *)
(* and the next page begins after the row that a cursor names.  Rows are *)
(* created and go meanwhile.  PostgreSQL counts microseconds; a cursor   *)
(* holds created_at as the driver's Date writes it, in milliseconds.     *)
(* Only the ledger's cursor is the id alone, and created_at is looked    *)
(* up.  A behaviour is the reading of one such list.                     *)
(*************************************************************************)
EXTENDS Integers, FiniteSets, FiniteSetsExt

CONSTANTS
  Entries,      (* Rows, the ids of which are compared.                  *)
  Micros,       (* Instants in a millisecond, 1000.                      *)
  PageSizes,    (* How many rows a page may have.                        *)
  LastMilli,    (* Bound on the clock.                                   *)
  MaxKeys,      (* Bound on the passwords of the account.                *)
  NoCursor

ASSUME EntriesAssumption == Entries \subseteq Nat /\ IsFiniteSet(Entries)
ASSUME PagesAssumption ==
  /\ Micros \in Nat \ {0}
  /\ PageSizes \subseteq Nat \ {0}
  /\ LastMilli \in Nat
  /\ NoCursor \notin [ms: Nat, us: Nat, id: Nat]

VARIABLES
  listKind,   (* Which kind of list is read.                             *)
  now,        (* The database's clock.                                   *)
  entry,      (* Each row: whether it is listed, and created_at.         *)
  key,        (* The account's password.                                 *)
  reader      (* What the client asks for, has seen, and was given.      *)

pagesVars == <<listKind, now, entry, key, reader>>

Micro     == 0 .. Micros - 1
ListKinds  == {"ledger", "list", "export"}
EntryRow  == [state: {"absent", "listed", "gone"}, ms: Nat, us: Micro]
Cursor    == [ms: Nat, us: Micro, id: Entries]
ReaderRow == [step: {"asking", "verified", "done"}, key: Nat, cursor: Cursor \cup {NoCursor},
              first: SUBSET Entries, got: SUBSET Entries, ends: SUBSET Entries, lines: Nat]

PagesTypeOK ==
  /\ listKind \in ListKinds
  /\ now \in [ms: Nat, us: Micro]
  /\ entry \in [Entries -> EntryRow]
  /\ key \in Nat
  /\ reader \in ReaderRow

PagesInit ==
  /\ listKind \in ListKinds
  /\ now = [ms |-> 0, us |-> 0]
  /\ entry = [i \in Entries |-> [state |-> "absent", ms |-> 0, us |-> 0]]
  /\ key = 0
  /\ reader = [step |-> "asking", key |-> 0, cursor |-> NoCursor, first |-> {}, got |-> {},
               ends |-> {}, lines |-> 0]

-----------------------------------------------------------------------------
(* Rows.                                                                 *)

Earlier(a, b) == a.ms < b.ms \/ (a.ms = b.ms /\ a.us < b.us)

ClockMoves ==
  /\ now' \in [ms: 0 .. LastMilli, us: Micro]
  /\ Earlier(now, now')
  /\ UNCHANGED <<listKind, entry, key, reader>>

\* created_at is the instant at which the transaction or the statement began.
Appear(i, at) ==
  /\ entry[i].state = "absent"
  /\ ~Earlier(now, at)
  /\ entry' = [entry EXCEPT ![i] = [state |-> "listed", ms |-> at.ms, us |-> at.us]]
  /\ UNCHANGED <<listKind, now, key, reader>>

\* A right ends, a comment or a favourite is deleted; the ledger loses nothing.
Disappear(i) ==
  /\ listKind # "ledger"
  /\ entry[i].state = "listed"
  /\ entry' = [entry EXCEPT ![i].state = "gone"]
  /\ UNCHANGED <<listKind, now, key, reader>>

ChangeKey ==
  /\ key < MaxKeys
  /\ key' = key + 1
  /\ UNCHANGED <<listKind, now, entry, reader>>

-----------------------------------------------------------------------------
(* Pages.                                                                *)

\* order by created_at desc, id desc
Before(i, j) == Earlier(entry[j], entry[i]) \/ (entry[j].ms = entry[i].ms
                                               /\ entry[j].us = entry[i].us /\ i > j)

\* Mutant: the row at the cursor is not left out.
AtOrBeyond(i, c) ==
  \/ c = NoCursor
  \/ Earlier(entry[i], c)
  \/ entry[i].ms = c.ms /\ entry[i].us = c.us /\ i <= c.id

\* (created_at, id) < (cursor.createdAt, cursor.id)
Beyond(i, c) ==
  \/ c = NoCursor
  \/ Earlier(entry[i], c)
  \/ entry[i].ms = c.ms /\ entry[i].us = c.us /\ i < c.id

RowsBeyond == { i \in Entries : entry[i].state = "listed" /\ Beyond(i, reader.cursor) }

\* limit: the rows that fewer than so many remaining ones come before.
PageOf(size) == { i \in RowsBeyond : Cardinality({ j \in RowsBeyond : Before(j, i) }) < size }

LastOf(rows) == CHOOSE l \in rows : \A i \in rows \ {l} : Before(i, l)

\* The cursor after row l.
CursorAt(l) ==
  [ms |-> entry[l].ms, us |-> IF listKind = "ledger" THEN entry[l].us ELSE 0, id |-> l]

\* The password given with each request for a part of the export is verified in a
\* transaction of its own ...
VerifyCurrentPassword ==
  /\ listKind = "export"
  /\ reader.step = "asking"
  /\ reader' = [reader EXCEPT !.step = "verified", !.key = key]
  /\ UNCHANGED <<listKind, now, entry, key>>

\* ... and in the next one the account is locked with the hash that was verified.
MayRead == IF listKind = "export" THEN reader.step = "verified" /\ reader.key = key
           ELSE reader.step = "asking"

ExportRefused ==
  /\ reader.step = "verified"
  /\ reader.key # key
  /\ reader' = [reader EXCEPT !.step = "asking"]
  /\ UNCHANGED <<listKind, now, entry, key>>

\* One row more than the page is read, and without it there is no next cursor; the
\* ledger is read until a page is empty.
ReadPage(size) ==
  LET rows == PageOf(size)
      more == IF listKind = "ledger" THEN rows # {} ELSE rows # RowsBeyond
  IN
  /\ MayRead
  /\ reader' = [reader EXCEPT
       !.step = IF more THEN "asking" ELSE "done",
       !.cursor = IF more THEN CursorAt(LastOf(rows)) ELSE reader.cursor,
       !.first = IF reader.cursor = NoCursor THEN RowsBeyond ELSE reader.first,
       !.got = reader.got \cup rows,
       !.ends = IF more THEN reader.ends \cup {LastOf(rows)} ELSE reader.ends,
       !.lines = reader.lines + Cardinality(rows)]
  /\ UNCHANGED <<listKind, now, entry, key>>

-----------------------------------------------------------------------------
PagesNext ==
  \/ ClockMoves
  \/ \E i \in Entries : Disappear(i) \/ \E at \in [ms: 0 .. LastMilli, us: Micro] : Appear(i, at)
  \/ ChangeKey
  \/ VerifyCurrentPassword
  \/ ExportRefused
  \/ \E size \in PageSizes : ReadPage(size)

PagesSpec == PagesInit /\ [][PagesNext]_pagesVars

-----------------------------------------------------------------------------
\* Whoever reads a list to its end was given no row twice, and every row that was
\* there from the first page to the last, although rows come and go between pages.
\* But for the cut that milliseconds make: without the ledger's way of looking up
\* created_at, a row is lost that comes after the last one of a page and shares its
\* millisecond (pointLedger, entitlements, list, exportSection; listTenantLedger).
PagesAreComplete ==
  /\ reader.lines = Cardinality(reader.got)
  /\ reader.step = "done" =>
       \A i \in reader.first \ reader.got : entry[i].state = "listed" =>
         /\ listKind # "ledger"
         /\ \E l \in reader.ends : entry[l].ms = entry[i].ms /\ Before(l, i)
=============================================================================
