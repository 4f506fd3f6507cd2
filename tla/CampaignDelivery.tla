--------------------------- MODULE CampaignDelivery ---------------------------
(*************************************************************************)
(* A push campaign: TenantNotificationService schedules and cancels it,  *)
(* and the NotificationWorkerService of every worker process expands it  *)
(* to its recipients and delivers their pushes.                          *)
(*                                                                       *)
(* Claims of jobs and of deliveries carry locked_by, and nothing reads   *)
(* it: a worker that was slow for ten minutes reports on a row that      *)
(* another one holds.  Only what a push's row says, and what the checks  *)
(* before the push saw, decides what happens next.                       *)
(*************************************************************************)
EXTENDS Integers, FiniteSetsExt

CONSTANTS
  Accounts,          (* The customers the campaign is aimed at, each with
                        one active push token.                               *)
  Pushers,           (* Worker processes.                                *)
  ExpandBatch,       (* BATCH_SIZE of an expansion.                      *)
  MaxPushAttempts,   (* max_attempts of a delivery.                      *)
  MaxJobAttempts,    (* max_attempts of the job.                         *)
  MaxPusherStops     (* Bound on the number of times workers stop.       *)

ASSUME CampaignAssumption ==
  ExpandBatch \in Nat \ {0} /\ MaxPushAttempts \in Nat \ {0} /\ MaxJobAttempts \in Nat \ {0}
ASSUME PushersAssumption == IsFiniteSet(Pushers)

VARIABLES
  campaign,     (* notification_campaigns.status                         *)
  dispatchJob,  (* notification_dispatch_jobs: status, retries; lapsed once
                   its lock is ten minutes old.                              *)
  standing,     (* Each customer: "in", "out" of marketing, or "gone".   *)
  recipients,   (* notification_campaign_recipients.                     *)
  push,         (* notification_deliveries: status, attempts, lapsed.    *)
  pushes,       (* How often the push provider was given each push.      *)
  pusher,       (* Where each worker is, and the delivery in its hands.  *)
  atCancel,     (* Pushes made or in workers' hands at the cancellation,
                   though the workers may have lost their locks.             *)
  pusherStops   (* Times workers stopped so far.                         *)

pushVars == <<push, pushes>>
campaignVars == <<campaign, dispatchJob, standing, recipients, pushVars, pusher, atCancel, pusherStops>>

NoPush == [status |-> "none", attempts |-> 0, lapsed |-> FALSE]
Idle   == [at |-> "idle"]

CampaignInit ==
  /\ campaign = "draft"
  /\ dispatchJob = [status |-> "none", retries |-> 0, lapsed |-> FALSE]
  /\ standing = [a \in Accounts |-> "in"]
  /\ recipients = {}
  /\ push = [a \in Accounts |-> NoPush]
  /\ pushes = [a \in Accounts |-> 0]
  /\ pusher = [w \in Pushers |-> Idle]
  /\ atCancel = [a \in Accounts |-> 0]
  /\ pusherStops = 0

-----------------------------------------------------------------------------
(* Staff and customers.                                                  *)

\* scheduleCampaign: the job becomes available at the time of the schedule.
ScheduleCampaign ==
  /\ campaign = "draft"
  /\ campaign' = "scheduled"
  /\ dispatchJob' = [dispatchJob EXCEPT !.status = "pending"]
  /\ UNCHANGED <<standing, recipients, pushVars, pusher, atCancel, pusherStops>>

Holds(w, a) == "account" \in DOMAIN pusher[w] /\ pusher[w].account = a

\* cancelCampaign: pushes that no worker has claimed are skipped.
CancelCampaign ==
  /\ campaign \in {"draft", "scheduled", "dispatching"}
  /\ campaign' = "cancelled"
  /\ push' = [a \in Accounts |-> IF push[a].status \in {"pending", "retry"}
                                 THEN [push[a] EXCEPT !.status = "skipped"] ELSE push[a]]
  /\ atCancel' = [a \in Accounts |-> pushes[a] + Cardinality({w \in Pushers : Holds(w, a)})]
  /\ UNCHANGED <<dispatchJob, standing, recipients, pushes, pusher, pusherStops>>

\* A customer refuses marketing, or the account or its token is gone.
LeaveCampaign(a) ==
  /\ standing[a] # "gone"
  /\ standing' \in {[standing EXCEPT ![a] = s] : s \in {"out", "gone"} \ {standing[a]}}
  /\ UNCHANGED <<campaign, dispatchJob, recipients, pushVars, pusher, atCancel, pusherStops>>

-----------------------------------------------------------------------------
(* The expansion.                                                        *)

ClaimJob(w) ==
  /\ pusher[w] = Idle
  /\ dispatchJob.status \in {"pending", "retry"}
  /\ dispatchJob' = [dispatchJob EXCEPT !.status = "processing", !.lapsed = FALSE]
  /\ pusher' = [pusher EXCEPT ![w] = [at |-> "expanding"]]
  /\ UNCHANGED <<campaign, standing, recipients, pushVars, atCancel, pusherStops>>

\* Whoever holds the job, if anybody does.
SetJob(s) == dispatchJob' = IF dispatchJob.status = "processing"
                            THEN [dispatchJob EXCEPT !.status = s, !.lapsed = FALSE]
                            ELSE dispatchJob

\* expandCampaign of a batch.  The rate limiter refuses some of the messages.
ExpandCampaign(w) ==
  LET audience == {a \in Accounts \ recipients : standing[a] # "gone"}
      size     == IF Cardinality(audience) < ExpandBatch THEN Cardinality(audience) ELSE ExpandBatch
  IN
  /\ pusher[w].at = "expanding"
  /\ campaign \in {"scheduled", "dispatching"}
  /\ \E batch \in kSubset(size, audience) : \E refused \in SUBSET batch :
       /\ recipients' = recipients \cup batch
       /\ push' = [a \in Accounts |-> IF a \in batch \ refused /\ standing[a] = "in"
                                      THEN [NoPush EXCEPT !.status = "pending"] ELSE push[a]]
  /\ campaign' = IF size < ExpandBatch THEN "completed" ELSE "dispatching"
  /\ SetJob(IF size < ExpandBatch THEN "completed" ELSE "pending")
  /\ pusher' = [pusher EXCEPT ![w] = Idle]
  /\ UNCHANGED <<standing, pushes, atCancel, pusherStops>>

\* The campaign was cancelled, or expanded by another worker.
NothingToExpand(w) ==
  /\ pusher[w].at = "expanding"
  /\ campaign \notin {"scheduled", "dispatching"}
  /\ SetJob("completed")
  /\ pusher' = [pusher EXCEPT ![w] = Idle]
  /\ UNCHANGED <<campaign, standing, recipients, pushVars, atCancel, pusherStops>>

\* The rate limiter is away: the transaction is rolled back, failJob.
FailJob(w) ==
  /\ pusher[w].at = "expanding"
  /\ dispatchJob' = IF dispatchJob.status # "processing" THEN dispatchJob
                    ELSE [status  |-> IF dispatchJob.retries + 1 >= MaxJobAttempts THEN "dead_letter"
                                                                                   ELSE "retry",
                          retries |-> dispatchJob.retries + 1, lapsed |-> FALSE]
  /\ pusher' = [pusher EXCEPT ![w] = Idle]
  /\ UNCHANGED <<campaign, standing, recipients, pushVars, atCancel, pusherStops>>

-----------------------------------------------------------------------------
(* A delivery.                                                           *)

ClaimDelivery(w, a) ==
  /\ pusher[w] = Idle
  /\ push[a].status \in {"pending", "retry"}
  /\ push' = [push EXCEPT ![a].status = "processing", ![a].lapsed = FALSE]
  /\ pusher' = [pusher EXCEPT ![w] = [at |-> "claimed", account |-> a]]
  /\ UNCHANGED <<campaign, dispatchJob, standing, recipients, pushes, atCancel, pusherStops>>

\* Every report on a delivery is guarded by its status alone.
Report(a, p) == push' = IF push[a].status = "processing" THEN [push EXCEPT ![a] = p] ELSE push
Ended(a, s)  == [push[a] EXCEPT !.status = s, !.lapsed = FALSE]

\* What a failed attempt makes of a delivery.
FailedPush(a) ==
  [status   |-> IF push[a].attempts + 1 >= MaxPushAttempts THEN "dead_letter" ELSE "retry",
   attempts |-> push[a].attempts + 1, lapsed |-> FALSE]

\* Mutant: only the recipient and the token are checked.
PassesAnyCampaign(check, a) ==
  CASE check = "claimed"  -> standing[a] = "in"
    [] check = "eligible" -> TRUE
    [] check = "current"  -> standing[a] # "gone"

\* The checks of processDelivery, each in a transaction of its own: is the
\* recipient eligible, is the campaign active, is the token bound?
Passes(check, a) ==
  CASE check = "claimed"  -> standing[a] = "in" /\ campaign # "cancelled"
    [] check = "eligible" -> campaign # "cancelled"
    [] check = "current"  -> standing[a] # "gone"

After == [claimed |-> "eligible", eligible |-> "current", current |-> "bound"]

CheckDelivery(w) ==
  LET here == pusher[w].at  a == pusher[w].account IN
  /\ here \in DOMAIN After
  /\ IF Passes(here, a)
       THEN /\ pusher' = [pusher EXCEPT ![w].at = After[here]]
            /\ UNCHANGED push
       ELSE /\ pusher' = [pusher EXCEPT ![w] = Idle]
            /\ Report(a, Ended(a, "skipped"))
  /\ UNCHANGED <<campaign, dispatchJob, standing, recipients, pushes, atCancel, pusherStops>>

\* The rate limiter, after the first check, refuses the push or is away.
RateLimit(w) ==
  LET a == pusher[w].account IN
  /\ pusher[w].at = "eligible"
  /\ \E p \in {Ended(a, "skipped"), FailedPush(a)} : Report(a, p)
  /\ pusher' = [pusher EXCEPT ![w] = Idle]
  /\ UNCHANGED <<campaign, dispatchJob, standing, recipients, pushes, atCancel, pusherStops>>

\* The provider takes the push; the worker may not hear of it.
SendPush(w) ==
  LET a == pusher[w].account IN
  /\ pusher[w].at = "bound"
  /\ pushes' = [pushes EXCEPT ![a] = @ + 1]
  /\ \E heard \in BOOLEAN : pusher' = [pusher EXCEPT ![w].at = IF heard THEN "pushed" ELSE "failed"]
  /\ UNCHANGED <<campaign, dispatchJob, standing, recipients, push, atCancel, pusherStops>>

\* The provider refuses it, for good or for now.
RefusePush(w) ==
  LET a == pusher[w].account IN
  /\ pusher[w].at = "bound"
  /\ \/ /\ pusher' = [pusher EXCEPT ![w].at = "failed"]
        /\ UNCHANGED <<push, standing>>
     \/ /\ pusher' = [pusher EXCEPT ![w] = Idle]
        /\ Report(a, [Ended(a, "dead_letter") EXCEPT !.attempts = @ + 1])
        /\ UNCHANGED standing
     \/ /\ pusher' = [pusher EXCEPT ![w] = Idle]    \* InvalidPushTokenError
        /\ Report(a, Ended(a, "skipped"))
        /\ standing' = [standing EXCEPT ![a] = "gone"]
  /\ UNCHANGED <<campaign, dispatchJob, recipients, pushes, atCancel, pusherStops>>

ReportPush(w) ==
  LET a == pusher[w].account IN
  /\ \/ pusher[w].at = "pushed" /\ Report(a, Ended(a, "sent"))
     \/ pusher[w].at = "failed" /\ Report(a, FailedPush(a))
  /\ pusher' = [pusher EXCEPT ![w] = Idle]
  /\ UNCHANGED <<campaign, dispatchJob, standing, recipients, pushes, atCancel, pusherStops>>

-----------------------------------------------------------------------------
(* Time, crashes and the recovery of a starting worker.                  *)

LocksLapse ==
  /\ \/ /\ dispatchJob.status = "processing" /\ ~dispatchJob.lapsed
        /\ dispatchJob' = [dispatchJob EXCEPT !.lapsed = TRUE]
        /\ UNCHANGED push
     \/ \E a \in Accounts :
        /\ push[a].status = "processing" /\ ~push[a].lapsed
        /\ push' = [push EXCEPT ![a].lapsed = TRUE]
        /\ UNCHANGED dispatchJob
  /\ UNCHANGED <<campaign, standing, recipients, pushes, pusher, atCancel, pusherStops>>

PusherStops(w) ==
  /\ pusher[w].at # "stopped"
  /\ pusherStops < MaxPusherStops
  /\ pusherStops' = pusherStops + 1
  /\ pusher' = [pusher EXCEPT ![w] = [at |-> "stopped"]]
  /\ UNCHANGED <<campaign, dispatchJob, standing, recipients, pushVars, atCancel>>

\* recoverStaleLocks, when a worker starts.
Recovered(a) ==
  IF ~push[a].lapsed THEN push[a]
  ELSE IF push[a].attempts + 1 < MaxPushAttempts
       THEN [status |-> "retry", attempts |-> push[a].attempts + 1, lapsed |-> FALSE]
       ELSE [status |-> "dead_letter", attempts |-> MaxPushAttempts, lapsed |-> FALSE]

RecoverLocks(w) ==
  /\ pusher[w].at = "stopped"
  /\ pusher' = [pusher EXCEPT ![w] = Idle]
  /\ push' = [a \in Accounts |-> Recovered(a)]
  /\ dispatchJob' = IF ~dispatchJob.lapsed THEN dispatchJob
                    ELSE IF dispatchJob.retries + 1 < MaxJobAttempts
                         THEN [status |-> "retry", retries |-> dispatchJob.retries + 1, lapsed |-> FALSE]
                         ELSE [status |-> "dead_letter", retries |-> MaxJobAttempts, lapsed |-> FALSE]
  /\ UNCHANGED <<campaign, standing, recipients, pushes, atCancel, pusherStops>>

CampaignNext ==
  \/ ScheduleCampaign \/ CancelCampaign \/ LocksLapse
  \/ \E a \in Accounts : LeaveCampaign(a)
  \/ \E w \in Pushers :
       \/ ClaimJob(w) \/ ExpandCampaign(w) \/ NothingToExpand(w) \/ FailJob(w)
       \/ \E a \in Accounts : ClaimDelivery(w, a)
       \/ CheckDelivery(w) \/ RateLimit(w) \/ SendPush(w) \/ RefusePush(w) \/ ReportPush(w)
       \/ PusherStops(w) \/ RecoverLocks(w)

CampaignSpec == CampaignInit /\ [][CampaignNext]_campaignVars

-----------------------------------------------------------------------------
(* Properties.                                                           *)

\* "Cancellation stops expansion and unclaimed push work": once a campaign is
\* cancelled nobody is added to it, and the provider is given no more pushes
\* than workers had in their hands by then, whatever is recovered, reported
\* late or tried again.  And workers that lost their claims, with the ones that
\* took them over, give it a push no more often than the delivery has attempts.
PushesAreBounded ==
  [][/\ \A a \in Accounts : pushes'[a] <= MaxPushAttempts
     /\ campaign = "cancelled" =>
          /\ recipients' = recipients
          /\ \A a \in Accounts : pushes'[a] <= atCancel[a]]_campaignVars
=============================================================================
