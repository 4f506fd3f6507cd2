---------------------------- MODULE ContentLibrary ----------------------------
(*************************************************************************)
(* The life of a drama: staff write it, publish it, take it down and     *)
(* delete it; the schedule worker publishes and unpublishes the drama    *)
(* and its episodes at the times staff chose; merchants list a           *)
(* platform's drama.                                                     *)
(*                                                                       *)
(* The two owners of dramas have services of their own, ContentService   *)
(* for tenants and PlatformContentLibraryService for the platform, and   *)
(* one worker, ContentScheduleWorkerService, in two variants.  The owner *)
(* of the drama says which of them an action is.                         *)
(*************************************************************************)
EXTENDS Integers, FiniteSets

CONSTANTS
  Owners,              (* The owners to look at, of "tenant" and "platform". *)
  Episodes,            (* Episodes the drama may get.                        *)
  Schedulers,          (* Worker processes.                                  *)
  Horizon,             (* Last time of day; times are 0 .. Horizon.          *)
  ScheduleBatch,       (* Jobs a worker claims at once.                      *)
  MaxScheduleAttempts, (* max_attempts of every schedule job.                *)
  MaxPublications,     (* Bound on the times staff publish.                  *)
  MaxRevisions,        (* Bound on the edits of the content.                 *)
  MaxSchedulerStops,   (* Bound on the times schedulers stop.                *)
  NoScheduler          (* locked_by of a job that is not claimed.            *)

ASSUME ScheduleBoundsAssumption ==
  Horizon \in Nat /\ MaxScheduleAttempts \in Nat \ {0} /\ MaxPublications \in Nat
ASSUME NoSchedulerAssumption == NoScheduler \notin Schedulers
ASSUME DramaAssumption       == "drama" \notin Episodes

Never   == Horizon + 1
Targets == {"drama"} \cup Episodes
Windows == [release: 0 .. Horizon, unpublish: 1 .. Never]
JobIds  == [target: Targets, action: {"publish", "unpublish"}, publication: 1 .. MaxPublications]

VARIABLES
  owner,          (* dramas.owner_type, which never changes.             *)
  clock,          (* The time.                                           *)
  status,         (* .status of the drama and of each episode, "none" before
                     the row is inserted.                                     *)
  window,         (* .release_at, 0 if there is none, and .unpublish_at,
                     Never if there is none, of drama and episodes.           *)
  revision,       (* Edits of the drama, its episodes and their tracks.       *)
  deleted,        (* .deleted_at is set.                                      *)
  frozen,         (* .public_release_locked_at is set.                        *)
  takenDown,      (* .emergency_takedown_at is set.                           *)
  listing,        (* tenant_public_drama_publications.status of a merchant.   *)
  publication,    (* Times the drama was published by staff.                  *)
  job,            (* content_schedule_jobs: status, at, attempts, lockedBy.   *)
  lockOld,        (* Jobs whose lock is older than five minutes.              *)
  schedulerUp,    (* Schedulers that are running.                             *)
  claimed,        (* The jobs of the batch each scheduler is working through. *)
  schedulerStops  (* Times schedulers stopped so far.                         *)

dramaRows   == <<owner, status, window, revision, deleted, frozen, takenDown, publication>>
schedulers  == <<lockOld, schedulerUp, claimed, schedulerStops>>
contentVars == <<dramaRows, clock, listing, job, schedulers>>

Status    == {"none", "pending_review", "draft", "rejected", "approved", "published", "unpublished"}
JobStatus == {"none", "pending", "processing", "retry", "completed", "cancelled", "failed"}
Editable  == {"draft", "rejected", "unpublished"}
LiveUnclaimed == {"pending", "retry"}   \* Mutant: claimed jobs are left out.
Live      == {"pending", "retry", "processing"}
NoJob     == [status |-> "none", at |-> 0, attempts |-> 0, lockedBy |-> NoScheduler]
Written   == {e \in Episodes : status[e] # "none"}

ContentTypeOK ==
  /\ owner \in Owners
  /\ clock \in 0 .. Horizon
  /\ status \in [Targets -> Status]
  /\ window \in [Targets -> Windows]
  /\ revision \in Nat
  /\ {deleted, frozen, takenDown} \subseteq BOOLEAN
  /\ listing \in {"none", "approved", "rejected", "published", "unpublished"}
  /\ publication \in 0 .. MaxPublications
  /\ job \in [JobIds -> [status: JobStatus, at: 0 .. Horizon, attempts: 0 .. MaxScheduleAttempts,
                         lockedBy: Schedulers \cup {NoScheduler}]]
  /\ lockOld \subseteq JobIds
  /\ schedulerUp \in [Schedulers -> BOOLEAN]
  /\ claimed \in [Schedulers -> SUBSET JobIds]
  /\ schedulerStops \in Nat

\* Tenants may hold dramas from the time their content was reviewed.
ContentInit ==
  /\ owner \in Owners
  /\ clock = 0
  /\ \E s \in IF owner = "tenant" THEN {"none", "pending_review", "rejected"} ELSE {"none"} :
       status = [t \in Targets |-> IF t = "drama" THEN s ELSE "none"]
  /\ window = [t \in Targets |-> [release |-> 0, unpublish |-> Never]]
  /\ revision = 0
  /\ deleted = FALSE /\ frozen = FALSE /\ takenDown = FALSE
  /\ listing = "none"
  /\ publication = 0
  /\ job = [j \in JobIds |-> NoJob]
  /\ lockOld = {}
  /\ schedulerUp = [s \in Schedulers |-> FALSE]
  /\ claimed = [s \in Schedulers |-> {}]
  /\ schedulerStops = 0

-----------------------------------------------------------------------------
(* Staff.  A request names the version of the drama it was made for, or  *)
(* of the episode where the platform's staff edit one, and is refused if *)
(* another came first.  What becomes of requests that overlap is module  *)
(* DramaEditing.                                                         *)

ChooseWindow(t) ==
  \E w \in Windows : w.release < w.unpublish /\ window' = [window EXCEPT ![t] = w]

\* createTenantDrama, createDrama.
CreateDrama ==
  /\ status["drama"] = "none"
  /\ status' = [status EXCEPT !["drama"] = "draft"]
  /\ ChooseWindow("drama")
  /\ UNCHANGED <<owner, revision, deleted, frozen, takenDown, publication,
                 clock, listing, job, schedulers>>

\* Mutant: the lock of a listed drama is forgotten.
CanEditListed ==
  /\ status["drama"] \in Editable
  /\ ~deleted

\* The guard of every edit.
CanEdit ==
  /\ status["drama"] \in Editable
  /\ ~deleted
  /\ ~frozen

Revise ==
  /\ CanEdit
  /\ revision < MaxRevisions
  /\ revision' = revision + 1

\* A tenant's edit of a rejected drama makes it a draft.
AfterEdit(s) == IF owner = "tenant" /\ s = "rejected" THEN "draft" ELSE s

EditDrama ==
  /\ Revise
  /\ status' = [status EXCEPT !["drama"] = AfterEdit(@)]
  /\ ChooseWindow("drama")
  /\ UNCHANGED <<owner, deleted, frozen, takenDown, publication,
                 clock, listing, job, schedulers>>

AddEpisode(e) ==
  /\ CanEdit
  /\ status[e] = "none"
  /\ status' = [status EXCEPT ![e] = "draft"]
  /\ ChooseWindow(e)
  /\ UNCHANGED <<owner, revision, deleted, frozen, takenDown, publication,
                 clock, listing, job, schedulers>>

EditEpisode(e) ==
  /\ Revise
  /\ e \in Written
  /\ status' = [status EXCEPT
       !["drama"] = AfterEdit(@),
       ![e] = IF owner = "tenant" THEN "draft" ELSE IF @ = "published" THEN "unpublished" ELSE @]
  /\ ChooseWindow(e)
  /\ UNCHANGED <<owner, deleted, frozen, takenDown, publication,
                 clock, listing, job, schedulers>>

\* saveTenantEpisodeTrack, upsertEpisodeTrack, disableEpisodeTrack.
EditTrack(e) ==
  /\ Revise
  /\ e \in Written
  /\ UNCHANGED <<owner, status, window, deleted, frozen, takenDown, publication,
                 clock, listing, job, schedulers>>

\* withdrawTenantReview, for dramas whose review was never answered.
WithdrawReview ==
  /\ status["drama"] = "pending_review"
  /\ status' = [status EXCEPT !["drama"] = "draft"]
  /\ UNCHANGED <<owner, window, revision, deleted, frozen, takenDown, publication,
                 clock, listing, job, schedulers>>

Elapsed(t)  == window[t].unpublish <= clock
Released(t) == window[t].release <= clock

\* The jobs a publication leaves, with the drama in status s.
Scheduled(s) ==
  LET due(t, a) ==
        CASE a = "publish" /\ t = "drama"   -> s = "approved"
          [] a = "unpublish" /\ t = "drama" -> window[t].unpublish # Never
          [] a = "publish"                  -> ~Released(t)
          [] a = "unpublish"                -> ~Elapsed(t) /\ window[t].unpublish # Never
  IN {j \in JobIds : /\ j.publication = publication + 1
                     /\ j.target \in {"drama"} \cup Written
                     /\ due(j.target, j.action)}

Cancel(row) == [row EXCEPT !.status = "cancelled", !.lockedBy = NoScheduler]

\* setTenantDramaPublication("publish") and publishDrama.  Only the tenants'
\* variant first cancels the jobs of the publication before.
Publish ==
  LET s == IF Released("drama") THEN "published" ELSE "approved"
      ids == Scheduled(s)
  IN
  /\ ~deleted
  /\ publication < MaxPublications
  /\ status["drama"] \in Editable \cup IF owner = "platform" THEN {"approved"} ELSE {}
  /\ ~Elapsed("drama")
  /\ Written # {}
  /\ owner = "platform" => \E e \in Written : ~Elapsed(e)
  /\ status' = [t \in Targets |->
       IF t = "drama" THEN s
       ELSE IF t \notin Written THEN "none"
       ELSE IF Elapsed(t) THEN "unpublished"
       ELSE IF s = "published" /\ Released(t) THEN "published" ELSE "approved"]
  /\ publication' = publication + 1
  /\ job' = [j \in JobIds |->
       IF j \in ids
       THEN [NoJob EXCEPT !.status = "pending",
                          !.at = IF j.action = "publish" THEN window[j.target].release
                                                         ELSE window[j.target].unpublish]
       ELSE IF owner = "tenant" /\ job[j].status \in Live THEN Cancel(job[j]) ELSE job[j]]
  /\ UNCHANGED <<owner, window, revision, deleted, frozen, takenDown,
                 clock, listing, schedulers>>

\* setTenantDramaPublication("unpublish") and unpublishDrama.  The platform's
\* variant leaves the jobs that a worker has claimed.
Unpublish ==
  /\ ~deleted
  /\ status["drama"] \in {"approved", "published"}
  /\ status' = [t \in Targets |->
       IF t = "drama" \/ (t \in Written /\ (owner = "tenant" \/ status[t] \in {"approved", "published"}))
       THEN "unpublished" ELSE status[t]]
  /\ job' = [j \in JobIds |->
       IF job[j].status \in IF owner = "tenant" THEN Live ELSE {"pending", "retry"}
       THEN Cancel(job[j]) ELSE job[j]]
  /\ UNCHANGED <<owner, window, revision, deleted, frozen, takenDown, publication,
                 clock, listing, schedulers>>

\* softDeleteTenantDrama, deleteDrama.
Delete ==
  /\ ~deleted
  /\ status["drama"] \in Editable
  /\ deleted' = TRUE
  /\ UNCHANGED <<owner, status, window, revision, frozen, takenDown, publication,
                 clock, listing, job, schedulers>>

\* restoreTenantDrama, restoreDrama, within the 30 days.
Restore ==
  /\ deleted
  /\ deleted' = FALSE
  /\ UNCHANGED <<owner, status, window, revision, frozen, takenDown, publication,
                 clock, listing, job, schedulers>>

-----------------------------------------------------------------------------
(* PublicDramaPoolService: a merchant lists the platform's drama.        *)

\* emergencyTakedown: it cancels no job.
EmergencyTakedown ==
  /\ owner = "platform"
  /\ status["drama"] # "none"
  /\ ~deleted
  /\ ~takenDown
  /\ takenDown' = TRUE
  /\ status' = [t \in Targets |-> IF status[t] = "none" THEN "none" ELSE "unpublished"]
  /\ UNCHANGED <<owner, window, revision, deleted, frozen, publication,
                 clock, listing, job, schedulers>>

\* review.  A listing that was ever published keeps its published_at, and a
\* constraint of the table refuses a review after that time.
ReviewListing ==
  /\ owner = "platform"
  /\ status["drama"] # "none"
  /\ ~deleted
  /\ listing \in {"none", "approved", "rejected"}
  /\ listing' \in {"approved", "rejected"}
  /\ UNCHANGED <<dramaRows, clock, job, schedulers>>

\* publish: app.freeze_public_release locks the drama's content for good.
ListDrama ==
  /\ listing \in {"approved", "unpublished"}
  /\ status["drama"] = "published"
  /\ ~deleted
  /\ ~takenDown
  /\ frozen' = TRUE
  /\ listing' = "published"
  /\ UNCHANGED <<owner, status, window, revision, deleted, takenDown, publication,
                 clock, job, schedulers>>

UnlistDrama ==
  /\ listing = "published"
  /\ listing' = "unpublished"
  /\ UNCHANGED <<dramaRows, clock, job, schedulers>>

-----------------------------------------------------------------------------
(* Time.                                                                 *)

Tick ==
  /\ clock < Horizon
  /\ clock' = clock + 1
  /\ UNCHANGED <<dramaRows, listing, job, schedulers>>

-----------------------------------------------------------------------------
(* ContentScheduleWorkerService.                                         *)

\* Five minutes pass since a job was claimed.
LockAges(j) ==
  /\ job[j].status = "processing"
  /\ j \notin lockOld
  /\ lockOld' = lockOld \cup {j}
  /\ UNCHANGED <<dramaRows, clock, listing, job, schedulerUp, claimed, schedulerStops>>

FailedJob(row, retryable) ==
  [row EXCEPT !.status = IF retryable /\ row.attempts < MaxScheduleAttempts THEN "retry" ELSE "failed",
              !.lockedBy = NoScheduler]

\* A process starts, and calls recoverStaleLocks once.
StartScheduler(s) ==
  LET stale == {j \in lockOld : job[j].status = "processing"} IN
  /\ ~schedulerUp[s]
  /\ schedulerUp' = [schedulerUp EXCEPT ![s] = TRUE]
  /\ job' = [j \in JobIds |-> IF j \in stale THEN FailedJob(job[j], TRUE) ELSE job[j]]
  /\ lockOld' = {}
  /\ UNCHANGED <<dramaRows, clock, listing, claimed, schedulerStops>>

Due == {j \in JobIds : job[j].status \in {"pending", "retry"} /\ job[j].at <= clock}

\* claimBatch: rows that another transaction has locked are skipped, and a
\* retry may have to wait, so any of the due jobs may be in the batch.
ClaimDue(s) ==
  \E batch \in SUBSET Due \ {{}} :
    /\ Cardinality(batch) <= ScheduleBatch
    /\ schedulerUp[s]
    /\ claimed[s] = {}
    /\ job' = [j \in JobIds |->
         IF j \in batch
         THEN [job[j] EXCEPT !.status = "processing", !.attempts = @ + 1, !.lockedBy = s]
         ELSE job[j]]
    /\ lockOld' = lockOld \ batch
    /\ claimed' = [claimed EXCEPT ![s] = batch]
    /\ UNCHANGED <<dramaRows, clock, listing, schedulerUp, schedulerStops>>

LocksJob(s, j) == job[j].status = "processing" /\ job[j].lockedBy = s

NotPermitted(j) ==
  LET t == j.target
      publishing == j.action = "publish"
      fromApproved == publishing \/ t # "drama" \/ owner = "platform"
  IN \/ publishing /\ t # "drama" /\ (status["drama"] \notin {"approved", "published"} \/ Elapsed(t))
     \/ status[t] \notin {"published"} \cup (IF fromApproved THEN {"approved"} ELSE {})
                                       \cup (IF publishing THEN {} ELSE {"unpublished"})

\* What a job leaves of the drama and its episodes.
AfterJob(j) ==
  LET follows(e) ==
        IF j.action = "publish"
        THEN IF status[e] \notin {"approved", "published"} THEN status[e]
             ELSE IF Elapsed(e) THEN "unpublished"
             ELSE IF Released(e) THEN "published" ELSE "approved"
        ELSE IF status[e] = "published" \/ (status[e] = "approved" /\ owner = "platform")
             THEN "unpublished" ELSE status[e]
  IN [t \in Targets |->
        IF t = j.target THEN IF j.action = "publish" THEN "published" ELSE "unpublished"
        ELSE IF j.target = "drama" /\ t \in Written THEN follows(t)
        ELSE status[t]]

Done(s, j) == claimed' = [claimed EXCEPT ![s] = @ \ {j}]

Complete(s, j) ==
  /\ job' = [job EXCEPT ![j] = [@ EXCEPT !.status = "completed", !.lockedBy = NoScheduler]]
  /\ status' = AfterJob(j)
  /\ UNCHANGED <<owner, window, revision, deleted, frozen, takenDown, publication>>

RefuseJob(j, retryable) ==
  /\ job' = [job EXCEPT ![j] = FailedJob(@, retryable)]
  /\ UNCHANGED dramaRows

\* executeJob, in one transaction.
ExecuteJob(s, j) ==
  /\ j \in claimed[s]
  /\ LocksJob(s, j)
  /\ IF deleted \/ NotPermitted(j) THEN RefuseJob(j, FALSE) ELSE Complete(s, j)
  /\ Done(s, j)
  /\ lockOld' = lockOld \ {j}
  /\ UNCHANGED <<clock, listing, schedulerUp, schedulerStops>>

\* A publish job finds the cover, a medium, a storage provider or the tenant
\* not fit for publication, or executeJob throws and rolls back: a deadlock
\* with staff, say.
ExecuteJobFails(s, j) ==
  /\ j \in claimed[s]
  /\ LocksJob(s, j)
  /\ RefuseJob(j, TRUE)
  /\ Done(s, j)
  /\ lockOld' = lockOld \ {j}
  /\ UNCHANGED <<clock, listing, schedulerUp, schedulerStops>>

\* The job was cancelled, or taken back and perhaps claimed by another worker.
SkipJob(s, j) ==
  /\ j \in claimed[s]
  /\ ~LocksJob(s, j)
  /\ Done(s, j)
  /\ UNCHANGED <<dramaRows, clock, listing, job, lockOld, schedulerUp, schedulerStops>>

StopScheduler(s) ==
  /\ schedulerUp[s]
  /\ schedulerStops < MaxSchedulerStops
  /\ schedulerStops' = schedulerStops + 1
  /\ schedulerUp' = [schedulerUp EXCEPT ![s] = FALSE]
  /\ claimed' = [claimed EXCEPT ![s] = {}]
  /\ UNCHANGED <<dramaRows, clock, listing, job, lockOld>>

-----------------------------------------------------------------------------

StaffNext ==
  \/ CreateDrama \/ EditDrama \/ WithdrawReview
  \/ \E e \in Episodes : AddEpisode(e) \/ EditEpisode(e) \/ EditTrack(e)
  \/ Publish \/ Unpublish \/ Delete \/ Restore
  \/ EmergencyTakedown \/ ReviewListing \/ ListDrama \/ UnlistDrama

SchedulerNext(s) ==
  \/ StartScheduler(s) \/ ClaimDue(s) \/ StopScheduler(s)
  \/ \E j \in JobIds : ExecuteJob(s, j) \/ ExecuteJobFails(s, j) \/ SkipJob(s, j)

ContentNext ==
  \/ StaffNext
  \/ Tick
  \/ \E j \in JobIds : LockAges(j)
  \/ \E s \in Schedulers : SchedulerNext(s)

ContentSpec == ContentInit /\ [][ContentNext]_contentVars

-----------------------------------------------------------------------------
(* Properties.                                                           *)

\* Whatever waits for its time has a job that will wake it, or one that failed
\* and says so: publishing and the worker never leave a drama "approved", or an
\* episode of a published drama, that no row of content_schedule_jobs names.
WaitingIsScheduled ==
  LET HasJob(t) == \E j \in JobIds : /\ j.target = t /\ j.action = "publish"
                                     /\ j.publication = publication
                                     /\ job[j].status \in {"pending", "retry", "processing", "failed"}
  IN /\ status["drama"] = "approved" => HasJob("drama")
     /\ \A e \in Episodes :
          status["drama"] = "published" /\ status[e] = "approved" => HasJob(e)

JobCompletes(j) == job[j].status # "completed" /\ job'[j].status = "completed"

\* "Unpublishing by hand cancels the old scheduled jobs of the drama and its
\* episodes": no job takes effect of a publication whose jobs were cancelled.
\* The platform's unpublishDrama leaves the jobs that a worker has claimed.
OldSchedulesAreCancelled ==
  [][\A j, k \in JobIds :
       JobCompletes(j) /\ status' # status /\ k.publication = j.publication
         => job[k].status # "cancelled"]_contentVars

\* A tenant's drama is moved by jobs of its last publication only, however
\* often it was taken down and published again while a worker was at work.
TenantSchedulesAreCurrent ==
  \A j \in JobIds : owner = "tenant" /\ JobCompletes(j) => j.publication = publication

\* Together: no drama waits in vain, and none is moved by a schedule of the past.
SchedulesAreKept == [][WaitingIsScheduled' /\ TenantSchedulesAreCurrent]_contentVars

\* What a merchant listed stays as it was listed: no path of the platform's
\* editors, nor the worker, changes the content of a drama once a merchant has
\* listed it, listed or not, deleted and restored.
ListedContentIsFrozen ==
  [][frozen => frozen' /\ UNCHANGED <<revision, window, Written>>]_contentVars
=============================================================================
