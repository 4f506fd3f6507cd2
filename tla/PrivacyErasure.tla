---------------------------- MODULE PrivacyErasure ----------------------------
(*************************************************************************)
(* The erasure of one account: the request that CustomerPrivacyService   *)
(* inserts, and PrivacyErasureWorkerService, which every worker process  *)
(* runs.                                                                 *)
(*                                                                       *)
(* All processes lock requests under one name, 'privacy-erasure-worker', *)
(* so locked_by does not tell a worker that lost its claim after five    *)
(* minutes from the one that took it over.  Only the request's status    *)
(* does.                                                                 *)
(*************************************************************************)
EXTENDS Integers

CONSTANTS
  Erasers,             (* Worker processes.                              *)
  MaxErasureAttempts,  (* max_attempts of the request.                   *)
  MaxEraserStops       (* Bound on the times processes stop at work.     *)

ASSUME MaxErasureAttemptsAssumption == MaxErasureAttempts \in Nat \ {0}

VARIABLES
  subject,         (* customer_accounts.status                           *)
  erasure,         (* customer_privacy_requests: status, attempt_count, and
                      whether its lock is older than five minutes.           *)
  eraser,          (* What each process does.                                *)
  erasuresDone,    (* Rows in outbox_events that say the account was erased. *)
  eraserStops      (* Times processes stopped at work.                       *)

erasureVars == <<subject, erasure, eraser, erasuresDone, eraserStops>>

ErasureTypeOK ==
  /\ subject \in {"active", "erasure_pending", "erased"}
  /\ erasure \in [status: {"none", "submitted", "processing", "completed", "failed"},
                  attempts: 0 .. MaxErasureAttempts, lockOld: BOOLEAN]
  /\ eraser \in [Erasers -> {"idle", "erasing", "failing"}]
  /\ erasuresDone \in Nat
  /\ eraserStops \in Nat

ErasureInit ==
  /\ subject = "active"
  /\ erasure = [status |-> "none", attempts |-> 0, lockOld |-> FALSE]
  /\ eraser = [w \in Erasers |-> "idle"]
  /\ erasuresDone = 0
  /\ eraserStops = 0

Turns(w, to)      == eraser' = [eraser EXCEPT ![w] = to]
RequestIs(status) == erasure' = [erasure EXCEPT !.status = status, !.lockOld = FALSE]

\* requestErasure of an active account, once the password was verified.  Asked
\* again, it answers with the request it finds.
SubmitErasure ==
  /\ subject = "active"
  /\ subject' = "erasure_pending"
  /\ RequestIs("submitted")
  /\ UNCHANGED <<eraser, erasuresDone, eraserStops>>

\* The first transaction of processRequest, for a request processDue saw due.
\* attempt_check of the table refuses an attempt too many: the claim throws,
\* and nothing is recorded.
ClaimErasure(w) ==
  /\ eraser[w] = "idle"
  /\ erasure.status = "submitted" \/ (erasure.status = "processing" /\ erasure.lockOld)
  /\ erasure.attempts < MaxErasureAttempts
  /\ erasure' = [status |-> "processing", attempts |-> erasure.attempts + 1, lockOld |-> FALSE]
  /\ Turns(w, "erasing")
  /\ UNCHANGED <<subject, erasuresDone, eraserStops>>

\* performLocalErasure: all of it or, when the claim was lost or a statement
\* fails, nothing.
PerformLocalErasure(w) ==
  /\ eraser[w] = "erasing"
  /\ erasure.status = "processing"
  /\ subject' = IF subject = "erasure_pending" THEN "erased" ELSE subject
  /\ RequestIs("completed")
  /\ erasuresDone' = erasuresDone + 1
  /\ Turns(w, "idle")
  /\ UNCHANGED eraserStops

ErasureThrows(w) ==
  /\ eraser[w] = "erasing"
  /\ Turns(w, "failing")
  /\ UNCHANGED <<subject, erasure, erasuresDone, eraserStops>>

\* Mutant: the request's status is not looked at.
RecordAnyFailure(w) ==
  /\ eraser[w] = "failing"
  /\ RequestIs(IF erasure.attempts >= MaxErasureAttempts THEN "failed" ELSE "submitted")
  /\ Turns(w, "idle")
  /\ UNCHANGED <<subject, erasuresDone, eraserStops>>

\* recordFailure, of whoever's claim the request is under by now.
RecordFailure(w) ==
  /\ eraser[w] = "failing"
  /\ IF erasure.status # "processing" THEN UNCHANGED erasure
     ELSE RequestIs(IF erasure.attempts >= MaxErasureAttempts THEN "failed" ELSE "submitted")
  /\ Turns(w, "idle")
  /\ UNCHANGED <<subject, erasuresDone, eraserStops>>

LockGrowsOld ==
  /\ erasure.status = "processing"
  /\ ~erasure.lockOld
  /\ erasure' = [erasure EXCEPT !.lockOld = TRUE]
  /\ UNCHANGED <<subject, eraser, erasuresDone, eraserStops>>

\* The process ends at work, or the database is away when it reports.
EraserStops(w) ==
  /\ eraser[w] # "idle"
  /\ eraserStops < MaxEraserStops
  /\ eraserStops' = eraserStops + 1
  /\ Turns(w, "idle")
  /\ UNCHANGED <<subject, erasure, erasuresDone>>

ErasureNext ==
  \/ SubmitErasure
  \/ LockGrowsOld
  \/ \E w \in Erasers :
       \/ ClaimErasure(w) \/ PerformLocalErasure(w) \/ ErasureThrows(w) \/ RecordFailure(w)
       \/ EraserStops(w)

ErasureSpec == ErasureInit /\ [][ErasureNext]_erasureVars

-----------------------------------------------------------------------------
(* Properties.                                                           *)

\* An account that is erased was erased once and its request says so; one that
\* is not has a request that is open, or that failed in its last attempt.  And
\* only a worker that stopped at work leaves a request nobody can claim again.
ErasureIsAccountedFor ==
  /\ erasuresDone = IF subject = "erased" THEN 1 ELSE 0
  /\ subject = "erased" <=> erasure.status = "completed"
  /\ subject = "active" <=> erasure.status = "none"
  /\ erasure.status = "failed" => erasure.attempts = MaxErasureAttempts
  /\ erasure.status = "submitted" => erasure.attempts < MaxErasureAttempts
  /\ erasure.status = "processing" =>
       \/ erasure.attempts < MaxErasureAttempts
       \/ \E w \in Erasers : eraser[w] # "idle"
       \/ eraserStops > 0
=============================================================================
