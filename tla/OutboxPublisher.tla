--------------------------- MODULE OutboxPublisher ---------------------------
(*************************************************************************)
(* The transactional outbox: OutboxPublisherService, run by the workers. *)
(*                                                                       *)
(* Events are rows that a business transaction inserts.  A worker claims *)
(* a batch of due rows, appends each to a Redis stream, and marks it; a  *)
(* lock older than five minutes is recovered, but only when some worker  *)
(* starts. A worker may stop anywhere, may be slow anywhere, and comes   *)
(* back under the WORKER_ID it had.                                      *)
(*************************************************************************)
EXTENDS Integers, FiniteSets

CONSTANTS
  Events,       (* The events that may ever be recorded.                 *)
  Workers,      (* Worker processes; their names are their WORKER_IDs.   *)
  BatchSize,    (* OUTBOX_BATCH_SIZE.                                    *)
  MaxAttempts,  (* max_attempts of every event.                          *)
  MaxCrashes,   (* Bound on the number of times workers stop.            *)
  NoOne         (* locked_by of a row that nobody holds.                 *)

ASSUME BatchSizeAssumption   == BatchSize \in Nat \ {0}
ASSUME MaxAttemptsAssumption == MaxAttempts \in Nat \ {0}
ASSUME NoOneAssumption       == NoOne \notin Workers
ASSUME WorkersAssumption     == IsFiniteSet(Workers)

VARIABLES
  status,      (* outbox_events.status, "none" before the insert.        *)
  retryCount,  (* outbox_events.retry_count.                             *)
  lockedBy,    (* outbox_events.locked_by.                               *)
  lapsed,      (* Events whose lock is older than five minutes.          *)
  appended,    (* Copies of each event that were ever put on the stream. *)
  recovered,   (* Times each event's lock was recovered.                 *)
  pc,          (* Where in publishAvailable each worker is.              *)
  batch,       (* The claims its loop has yet to take.                   *)
  current,     (* The claim its loop works on, if any.                   *)
  crashes      (* Times workers stopped so far.                          *)

rowVars    == <<status, retryCount, lockedBy, lapsed, recovered>>
workerVars == <<pc, batch, current>>
outboxVars == <<rowVars, appended, workerVars, crashes>>

EventStatus == {"none", "pending", "processing", "retry", "published", "dead_letter"}

\* A row as claimBatch returned it.
Claim == [event: Events, retryCount: Nat]

OutboxTypeOK ==
  /\ status \in [Events -> EventStatus]
  /\ retryCount \in [Events -> Nat]
  /\ lockedBy \in [Events -> Workers \cup {NoOne}]
  /\ lapsed \subseteq Events
  /\ appended \in [Events -> Nat]
  /\ recovered \in [Events -> Nat]
  /\ pc \in [Workers -> {"stopped", "ready", "appended", "failed"}]
  /\ batch \in [Workers -> SUBSET Claim]
  /\ current \in [Workers -> SUBSET Claim]
  /\ crashes \in Nat

OutboxInit ==
  /\ status = [e \in Events |-> "none"]
  /\ retryCount = [e \in Events |-> 0]
  /\ lockedBy = [e \in Events |-> NoOne]
  /\ lapsed = {}
  /\ appended = [e \in Events |-> 0]
  /\ recovered = [e \in Events |-> 0]
  /\ pc = [w \in Workers |-> "stopped"]
  /\ batch = [w \in Workers |-> {}]
  /\ current = [w \in Workers |-> {}]
  /\ crashes = 0

-----------------------------------------------------------------------------
(* The rows.                                                             *)

\* The insert of a business transaction.
Insert(e) ==
  /\ status[e] = "none"
  /\ status' = [status EXCEPT ![e] = "pending"]
  /\ UNCHANGED <<retryCount, lockedBy, lapsed, recovered, appended, workerVars, crashes>>

\* Five minutes pass since the event was claimed.
LockLapses(e) ==
  /\ status[e] = "processing"
  /\ e \notin lapsed
  /\ lapsed' = lapsed \cup {e}
  /\ UNCHANGED <<status, retryCount, lockedBy, recovered, appended, workerVars, crashes>>

\* Rows that recoverStaleLocks selects, and the status it gives them.
Stale == {e \in lapsed : status[e] = "processing"}
StatusOfStale(e) == IF retryCount[e] >= MaxAttempts THEN "dead_letter" ELSE "retry"

Recover ==
  /\ status' = [e \in Events |-> IF e \in Stale THEN StatusOfStale(e) ELSE status[e]]
  /\ lockedBy' = [e \in Events |-> IF e \in Stale THEN NoOne ELSE lockedBy[e]]
  /\ recovered' = [e \in Events |-> IF e \in Stale THEN recovered[e] + 1 ELSE recovered[e]]
  /\ lapsed' = lapsed \ Stale
  /\ UNCHANGED retryCount

\* Mutants: claims take over rows whose lock is old, or leave retries alone.
DueOrLapsed == {e \in Events : status[e] \in {"pending", "retry"} \/ e \in Stale}
DueOnce     == {e \in Events : status[e] = "pending"}

\* Rows that claimBatch may take: due, or due again after the backoff.
Due == {e \in Events : status[e] \in {"pending", "retry"}}

\* Mutant: locked_by is not looked at.
HoldsAny(w, e) == status[e] = "processing"

\* The guard of both marks: the row is still this worker's.
Holds(w, e) == status[e] = "processing" /\ lockedBy[e] = w

\* A mark: the row leaves "processing", if it is still this worker's.
Mark(w, e, newStatus, newCount) ==
  IF Holds(w, e)
  THEN /\ status' = [status EXCEPT ![e] = newStatus]
       /\ retryCount' = [retryCount EXCEPT ![e] = newCount]
       /\ lockedBy' = [lockedBy EXCEPT ![e] = NoOne]
       /\ lapsed' = lapsed \ {e}
       /\ UNCHANGED recovered
  ELSE UNCHANGED rowVars

-----------------------------------------------------------------------------
(* A worker.                                                             *)

\* It starts, which is the only time recoverStaleLocks runs.
Start(w) ==
  /\ pc[w] = "stopped"
  /\ pc' = [pc EXCEPT ![w] = "ready"]
  /\ Recover
  /\ UNCHANGED <<batch, current, appended, crashes>>

\* The process ends: killed, out of memory, or by an error of markFailed,
\* which nothing catches.
Crash(w) ==
  /\ pc[w] # "stopped"
  /\ crashes < MaxCrashes
  /\ crashes' = crashes + 1
  /\ pc' = [pc EXCEPT ![w] = "stopped"]
  /\ batch' = [batch EXCEPT ![w] = {}]
  /\ current' = [current EXCEPT ![w] = {}]
  /\ UNCHANGED <<rowVars, appended>>

ClaimBatch(w) ==
  /\ pc[w] = "ready"
  /\ batch[w] = {}
  /\ \E S \in SUBSET Due :
       /\ S # {}
       /\ Cardinality(S) = BatchSize \/ (S = Due /\ Cardinality(S) <= BatchSize)
       /\ status' = [e \in Events |-> IF e \in S THEN "processing" ELSE status[e]]
       /\ lockedBy' = [e \in Events |-> IF e \in S THEN w ELSE lockedBy[e]]
       /\ batch' = [batch EXCEPT ![w] =
                      {[event |-> e, retryCount |-> retryCount[e]] : e \in S}]
  /\ UNCHANGED <<retryCount, lapsed, recovered, appended, pc, current, crashes>>

\* The loop takes the next event of the batch.
Take(w, c, at) ==
  /\ pc[w] = "ready"
  /\ pc' = [pc EXCEPT ![w] = at]
  /\ batch' = [batch EXCEPT ![w] = @ \ {c}]
  /\ current' = [current EXCEPT ![w] = {c}]
  /\ UNCHANGED <<rowVars, crashes>>

\* Redis confirms the append.
AppendStream(w) ==
  \E c \in batch[w] :
    /\ Take(w, c, "appended")
    /\ appended' = [appended EXCEPT ![c.event] = @ + 1]

\* Mutant: an append that failed counts as made.
AppendAssumed(w) ==
  \E c \in batch[w] :
    /\ Take(w, c, "appended")
    /\ appended' \in {appended, [appended EXCEPT ![c.event] = @ + 1]}

\* Redis is not ready, or its answer is lost after it appended.
AppendFails(w) ==
  \E c \in batch[w] :
    /\ Take(w, c, "failed")
    /\ appended' \in {appended, [appended EXCEPT ![c.event] = @ + 1]}

\* The loop goes on after a mark.
Continue(w) ==
  /\ pc' = [pc EXCEPT ![w] = "ready"]
  /\ current' = [current EXCEPT ![w] = {}]
  /\ UNCHANGED <<batch, appended, crashes>>

MarkPublished(w) ==
  /\ pc[w] = "appended"
  /\ \E c \in current[w] : Mark(w, c.event, "published", retryCount[c.event])
  /\ Continue(w)

\* The transaction of markPublished fails, which the loop takes for a failed
\* append.
MarkPublishedFails(w) ==
  /\ pc[w] = "appended"
  /\ pc' = [pc EXCEPT ![w] = "failed"]
  /\ UNCHANGED <<rowVars, appended, batch, current, crashes>>

MarkFailed(w) ==
  /\ pc[w] = "failed"
  /\ \E c \in current[w] :
       LET next == c.retryCount + 1 IN
       Mark(w, c.event, IF next >= MaxAttempts THEN "dead_letter" ELSE "retry", next)
  /\ Continue(w)

PublishAvailable(w) ==
  \/ ClaimBatch(w)
  \/ AppendStream(w)
  \/ AppendFails(w)
  \/ MarkPublished(w)
  \/ MarkPublishedFails(w)
  \/ MarkFailed(w)

OutboxStep ==
  \/ \E e \in Events : LockLapses(e)
  \/ \E w \in Workers : Start(w) \/ Crash(w) \/ PublishAvailable(w)

OutboxNext == OutboxStep \/ \E e \in Events : Insert(e)

OutboxSpec == OutboxInit /\ [][OutboxNext]_outboxVars

-----------------------------------------------------------------------------
(* Properties.                                                           *)

\* Workers that have yet to append an event of their batch.
InBatch(e) == {w \in Workers : \E c \in batch[w] : c.event = e}

\* Every copy beyond the first is owed to an attempt that was marked failed or
\* to a lock that was recovered: on a healthy path no event is published twice,
\* however many workers there are and however slow they are.
DuplicatesAreRetries ==
  \A e \in Events :
    appended[e] + Cardinality(InBatch(e)) <= 1 + retryCount[e] + recovered[e]

\* Leaving a worker's hands without being published is always counted, as a
\* failed attempt or as a recovery: a slow worker whose event was recovered and
\* claimed again neither returns it nor resets its count behind the new owner.
ReturnsAreCounted ==
  [][\A e \in Events :
       status[e] = "processing" /\ status'[e] \notin {"processing", "published"} =>
         \/ retryCount'[e] = retryCount[e] + 1
         \/ recovered'[e] = recovered[e] + 1]_outboxVars

\* The stream an outbox event reaches: what the rows say of it.
stage ==
  [e \in Events |->
     CASE status[e] = "none" -> "none"
       [] status[e] = "published" -> "delivered"
       [] status[e] = "dead_letter" -> "abandoned"
       [] OTHER -> "open"]

onStream == {e \in Events : appended[e] > 0}

\* Workers that crash, stall and race implement the promise of EventDelivery:
\* at least one copy before "published", and no way back from the final states.
Delivery == INSTANCE EventDelivery
DeliverySpec == Delivery!Spec

\* What a worker still works on.
InHand(w) == batch[w] \cup current[w]

\* Nobody works on a claimed event: only a worker's start can recover it.
Orphaned(e) ==
  /\ status[e] = "processing"
  /\ \A w \in Workers : \A c \in InHand(w) : c.event # e

Settled(e) == status[e] \in {"published", "dead_letter"}

\* Every recorded event is published or given up, or its worker stopped while
\* holding it.
EventuallySettled ==
  \A e \in Events : status[e] # "none" ~> Settled(e) \/ Orphaned(e)

\* What docs/qa/concurrency-whitebox-20260908.md:24 says: after a crash,
\* delivery is still at least once.  No event is lost to a crash.
AtLeastOnceAfterCrash ==
  \A e \in Events : status[e] # "none" ~> Settled(e)

\* Workers loop, and the container is restarted whenever it stops
\* (deploy/compose.production.yml:45).
OutboxFairness ==
  /\ \A w \in Workers : WF_outboxVars(Start(w)) /\ WF_outboxVars(PublishAvailable(w))
  /\ \A e \in Events : WF_outboxVars(LockLapses(e))

OutboxFairSpec == OutboxSpec /\ OutboxFairness

-----------------------------------------------------------------------------
(* The invariant that the steps hand to each other.                      *)

\* An event is given up after all its attempts, and no other has used them up:
\* what makes the dead_letter branch of recoverStaleLocks unreachable.
GivenUpAfterAllAttempts ==
  \A e \in Events : status[e] = "dead_letter" <=> retryCount[e] >= MaxAttempts

\* A claim that still holds its row knows the row's count.
ClaimsAreCurrent ==
  \A w \in Workers : \A c \in InHand(w) :
    /\ status[c.event] # "none"
    /\ Holds(w, c.event) => c.retryCount = retryCount[c.event]

\* An event is in a batch once.
BatchNamesOnce ==
  \A w \in Workers : \A c, d \in batch[w] : c.event = d.event => c = d

\* A worker that works on no event has none in hand.
IdleHandsAreEmpty ==
  \A w \in Workers : pc[w] \in {"stopped", "ready"} => current[w] = {}

\* The copies made and owed, by what the rows say.
CopiesAreCounted ==
  \A e \in Events :
    appended[e] + Cardinality(InBatch(e))
      <= retryCount[e] + recovered[e]
           + (IF status[e] \in {"none", "pending", "retry"} THEN 0 ELSE 1)

\* A worker that confirms an event has appended it.
ConfirmedIsAppended ==
  /\ \A e \in Events : status[e] = "published" => appended[e] > 0
  /\ \A w \in Workers : pc[w] = "appended" => \A c \in current[w] : appended[c.event] > 0

OutboxConsistent ==
  /\ OutboxTypeOK
  /\ GivenUpAfterAllAttempts
  /\ ClaimsAreCurrent
  /\ BatchNamesOnce
  /\ IdleHandsAreEmpty
  /\ CopiesAreCounted
  /\ ConfirmedIsAppended
=============================================================================
