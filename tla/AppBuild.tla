------------------------------- MODULE AppBuild -------------------------------
(*************************************************************************)
(* Building tenants' apps: AppBuildService takes orders for builds, and  *)
(* AppBuildWorkerService runs them on build machines.                    *)
(*                                                                       *)
(* A build takes minutes to hours and runs outside any transaction,      *)
(* under a lease of 30 minutes on the job's row.  A lease that ran out   *)
(* is taken back, but only when some builder starts; the builder that    *)
(* lost it goes on, and finds out when it reports.                       *)
(*************************************************************************)
EXTENDS Integers

CONSTANTS
  Jobs,              (* Build jobs, named by the command that creates them. *)
  Builders,          (* Build machines; their names are their WORKER_IDs.   *)
  MaxBuildAttempts,  (* max_attempts of every job.                          *)
  MaxBuilderStops,   (* Bound on the number of times builders stop.         *)
  NoBuilder          (* locked_by of a job nobody claimed.                  *)

ASSUME MaxBuildAttemptsAssumption == MaxBuildAttempts \in Nat \ {0}
ASSUME NoBuilderAssumption        == NoBuilder \notin Builders

VARIABLES
  buildStatus,    (* tenant_app_build_jobs.status, "none" before the insert. *)
  buildAttempts,  (* .attempts                                               *)
  buildLockedBy,  (* .locked_by, which only a requeue clears.                *)
  artifact,       (* The attempt whose artifact the job names, 0 for none.   *)
  failureCode,    (* .failure_code, "none" if there is none.                 *)
  buildLapsed,    (* Jobs whose lock is older than 30 minutes.               *)
  buildEvents,    (* Rows the jobs inserted into outbox_events.              *)
  beating,        (* Builders whose heartbeat is at most 30 seconds old.     *)
  builder,        (* Where in its loop each builder is.                      *)
  assigned,       (* The job and attempt each builder works on.              *)
  builderStops    (* Times builders stopped so far.                          *)

buildRow == <<buildStatus, buildAttempts, buildLockedBy, artifact, failureCode, buildLapsed>>
buildVars == <<buildRow, buildEvents, beating, builder, assigned, builderStops>>

BuildStatus == {"none", "queued", "processing", "succeeded", "failed", "cancelled"}
BuildEvent  == {"AppBuildRequested", "AppBuildCancelled", "AppBuildSucceeded", "AppBuildFailed"}
Assignment  == [job: Jobs, attempt: Nat]

BuildTypeOK ==
  /\ buildStatus \in [Jobs -> BuildStatus]
  /\ buildAttempts \in [Jobs -> 0 .. MaxBuildAttempts]
  /\ buildLockedBy \in [Jobs -> Builders \cup {NoBuilder}]
  /\ artifact \in [Jobs -> Nat]
  /\ failureCode \in [Jobs -> {"none", "build_failed", "job_timed_out"}]
  /\ buildLapsed \subseteq Jobs
  /\ buildEvents \subseteq Jobs \X BuildEvent
  /\ beating \subseteq Builders
  /\ builder \in [Builders -> {"stopped", "registered", "idle", "building", "built", "broken"}]
  /\ assigned \in [Builders -> SUBSET Assignment]
  /\ builderStops \in Nat

BuildInit ==
  /\ buildStatus = [j \in Jobs |-> "none"]
  /\ buildAttempts = [j \in Jobs |-> 0]
  /\ buildLockedBy = [j \in Jobs |-> NoBuilder]
  /\ artifact = [j \in Jobs |-> 0]
  /\ failureCode = [j \in Jobs |-> "none"]
  /\ buildLapsed = {}
  /\ buildEvents = {}
  /\ beating = {}
  /\ builder = [b \in Builders |-> "stopped"]
  /\ assigned = [b \in Builders |-> {}]
  /\ builderStops = 0

-----------------------------------------------------------------------------
(* Platform staff.                                                       *)

\* createJob: the assets, the domain and the profile were checked; a builder
\* must be online.
RequestBuild(j) ==
  /\ buildStatus[j] = "none"
  /\ beating # {}
  /\ buildStatus' = [buildStatus EXCEPT ![j] = "queued"]
  /\ buildEvents' = buildEvents \cup {<<j, "AppBuildRequested">>}
  /\ UNCHANGED <<buildAttempts, buildLockedBy, artifact, failureCode, buildLapsed,
                 beating, builder, assigned, builderStops>>

\* cancelJob, on the version of the job that the list showed.
CancelBuild(j) ==
  /\ buildStatus[j] = "queued"
  /\ buildStatus' = [buildStatus EXCEPT ![j] = "cancelled"]
  /\ buildEvents' = buildEvents \cup {<<j, "AppBuildCancelled">>}
  /\ UNCHANGED <<buildAttempts, buildLockedBy, artifact, failureCode, buildLapsed,
                 beating, builder, assigned, builderStops>>

-----------------------------------------------------------------------------
(* A builder.                                                            *)

\* 30 minutes pass since the job was claimed.
LeaseLapses(j) ==
  /\ buildStatus[j] = "processing"
  /\ j \notin buildLapsed
  /\ buildLapsed' = buildLapsed \cup {j}
  /\ UNCHANGED <<buildStatus, buildAttempts, buildLockedBy, artifact, failureCode,
                 buildEvents, beating, builder, assigned, builderStops>>

\* The first registerHeartbeat of a process, and those of its timer.
RegisterHeartbeat(b) ==
  /\ \/ /\ builder[b] = "stopped"
        /\ builder' = [builder EXCEPT ![b] = "registered"]
     \/ /\ builder[b] # "stopped"
        /\ b \notin beating
        /\ UNCHANGED builder
  /\ beating' = beating \cup {b}
  /\ UNCHANGED <<buildRow, buildEvents, assigned, builderStops>>

\* The heartbeat row gets old: the process is gone, or its event loop is busy.
HeartbeatAges(b) ==
  /\ b \in beating
  /\ beating' = beating \ {b}
  /\ UNCHANGED <<buildRow, buildEvents, builder, assigned, builderStops>>

Requeued == {j \in buildLapsed :
  buildStatus[j] = "processing" /\ buildAttempts[j] < MaxBuildAttempts}
TimedOut == {j \in buildLapsed :
  buildStatus[j] = "processing" /\ buildAttempts[j] >= MaxBuildAttempts}

\* recoverStaleLocks, once, before the loop.  It records no event.
RecoverBuilds(b) ==
  /\ builder[b] = "registered"
  /\ builder' = [builder EXCEPT ![b] = "idle"]
  /\ buildStatus' = [j \in Jobs |-> IF j \in Requeued THEN "queued"
                                    ELSE IF j \in TimedOut THEN "failed"
                                    ELSE buildStatus[j]]
  /\ buildLockedBy' = [j \in Jobs |-> IF j \in Requeued THEN NoBuilder ELSE buildLockedBy[j]]
  /\ failureCode' = [j \in Jobs |-> IF j \in TimedOut THEN "job_timed_out" ELSE failureCode[j]]
  /\ buildLapsed' = buildLapsed \ (Requeued \cup TimedOut)
  /\ UNCHANGED <<buildAttempts, artifact, buildEvents, beating, assigned, builderStops>>

ClaimOne(b) ==
  \E j \in Jobs :
    /\ builder[b] = "idle"
    /\ b \in beating
    /\ buildStatus[j] = "queued"
    /\ buildStatus' = [buildStatus EXCEPT ![j] = "processing"]
    /\ buildAttempts' = [buildAttempts EXCEPT ![j] = @ + 1]
    /\ buildLockedBy' = [buildLockedBy EXCEPT ![j] = b]
    /\ builder' = [builder EXCEPT ![b] = "building"]
    /\ assigned' = [assigned EXCEPT ![b] = {[job |-> j, attempt |-> buildAttempts[j] + 1]}]
    /\ UNCHANGED <<artifact, failureCode, buildLapsed, buildEvents, beating, builderStops>>

\* The executor ends, well or not.
Execute(b) ==
  /\ builder[b] = "building"
  /\ builder' \in {[builder EXCEPT ![b] = "built"], [builder EXCEPT ![b] = "broken"]}
  /\ UNCHANGED <<buildRow, buildEvents, beating, assigned, builderStops>>

\* Mutant: a builder reports on whoever's lease.
LeaseOfAnybody(b, j) == buildStatus[j] = "processing"

\* The guard of both reports.
LeaseHeld(b, j) == buildStatus[j] = "processing" /\ buildLockedBy[j] = b

\* completeSuccess: the result and its event, in one transaction.
CompleteSuccess(b) ==
  \E a \in assigned[b] :
    /\ builder[b] = "built"
    /\ LeaseHeld(b, a.job)
    /\ buildStatus' = [buildStatus EXCEPT ![a.job] = "succeeded"]
    /\ artifact' = [artifact EXCEPT ![a.job] = a.attempt]
    /\ buildLapsed' = buildLapsed \ {a.job}
    /\ buildEvents' = buildEvents \cup {<<a.job, "AppBuildSucceeded">>}
    /\ builder' = [builder EXCEPT ![b] = "idle"]
    /\ assigned' = [assigned EXCEPT ![b] = {}]
    /\ UNCHANGED <<buildAttempts, buildLockedBy, failureCode, beating, builderStops>>

\* completeSuccess throws: the lease was lost, the storage provider of the
\* artifact is not active any more, or the database is away.
CompleteSuccessFails(b) ==
  /\ builder[b] = "built"
  /\ builder' = [builder EXCEPT ![b] = "broken"]
  /\ UNCHANGED <<buildRow, buildEvents, beating, assigned, builderStops>>

CompleteFailure(b) ==
  \E a \in assigned[b] :
    /\ builder[b] = "broken"
    /\ LeaseHeld(b, a.job)
    /\ buildStatus' = [buildStatus EXCEPT ![a.job] = "failed"]
    /\ failureCode' = [failureCode EXCEPT ![a.job] = "build_failed"]
    /\ buildLapsed' = buildLapsed \ {a.job}
    /\ buildEvents' = buildEvents \cup {<<a.job, "AppBuildFailed">>}
    /\ builder' = [builder EXCEPT ![b] = "idle"]
    /\ assigned' = [assigned EXCEPT ![b] = {}]
    /\ UNCHANGED <<buildAttempts, buildLockedBy, artifact, beating, builderStops>>

\* completeFailure throws, as the lease was lost: nothing catches it, and the
\* process ends after it removed its heartbeat.
LeaveLost(b) ==
  /\ builder[b] = "broken"
  /\ \E a \in assigned[b] : ~LeaseHeld(b, a.job)
  /\ builder' = [builder EXCEPT ![b] = "stopped"]
  /\ assigned' = [assigned EXCEPT ![b] = {}]
  /\ beating' = beating \ {b}
  /\ UNCHANGED <<buildRow, buildEvents, builderStops>>

\* SIGTERM between two jobs.
ShutDown(b) ==
  /\ builder[b] = "idle"
  /\ builderStops < MaxBuilderStops
  /\ builderStops' = builderStops + 1
  /\ builder' = [builder EXCEPT ![b] = "stopped"]
  /\ beating' = beating \ {b}
  /\ UNCHANGED <<buildRow, buildEvents, assigned>>

\* The machine goes down, or an error of the database ends the process.
BuilderCrash(b) ==
  /\ builder[b] # "stopped"
  /\ builderStops < MaxBuilderStops
  /\ builderStops' = builderStops + 1
  /\ builder' = [builder EXCEPT ![b] = "stopped"]
  /\ assigned' = [assigned EXCEPT ![b] = {}]
  /\ UNCHANGED <<buildRow, buildEvents, beating>>

BuilderStep(b) ==
  \/ RegisterHeartbeat(b)
  \/ RecoverBuilds(b)
  \/ ClaimOne(b)
  \/ Execute(b)
  \/ CompleteSuccess(b)
  \/ CompleteSuccessFails(b)
  \/ CompleteFailure(b)
  \/ LeaveLost(b)

BuildNext ==
  \/ \E j \in Jobs : RequestBuild(j) \/ CancelBuild(j) \/ LeaseLapses(j)
  \/ \E b \in Builders : BuilderStep(b) \/ HeartbeatAges(b) \/ ShutDown(b) \/ BuilderCrash(b)

BuildSpec == BuildInit /\ [][BuildNext]_buildVars

-----------------------------------------------------------------------------
(* Properties.                                                           *)

\* The artifact a job names was built by its last attempt: a builder that lost
\* its lease to another attempt cannot deliver what it built.
ArtifactIsOfLastAttempt ==
  \A j \in Jobs :
    IF buildStatus[j] = "succeeded" THEN artifact[j] = buildAttempts[j] /\ artifact[j] > 0
                                    ELSE artifact[j] = 0
=============================================================================
