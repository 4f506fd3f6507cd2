--------------------------- MODULE PlatformProofs ---------------------------
(*************************************************************************)
(* Proofs about the work the platform does for all merchants:            *)
(* PrivacyErasure, AppBuild and MediaStorage; PaymentRouting; and the    *)
(* workers of CampaignDelivery and ContentLibrary.                       *)
(*************************************************************************)
EXTENDS PrivacyErasure, AppBuild, MediaStorage, PaymentRouting, CampaignDelivery,
        ContentLibrary, FiniteSetTheorems, TLAPS

-----------------------------------------------------------------------------
(* Workers whose claims can be lost while they work.                     *)

(* Erasures.                                                             *)

\* A request is inserted with no attempt made.
UnaskedIsUntried == erasure.status = "none" => erasure.attempts = 0

ErasureInv == ErasureTypeOK /\ ErasureIsAccountedFor /\ UnaskedIsUntried

LEMMA ErasureInitially == ErasureInit => ErasureInv
  BY MaxErasureAttemptsAssumption
     DEF ErasureInit, ErasureInv, ErasureTypeOK, ErasureIsAccountedFor, UnaskedIsUntried

LEMMA ErasureStep == ErasureInv /\ [ErasureNext]_erasureVars => ErasureInv'
<1> SUFFICES ASSUME ErasureInv, [ErasureNext]_erasureVars PROVE ErasureInv'
    OBVIOUS
<1> USE MaxErasureAttemptsAssumption DEF ErasureInv
<1>0. /\ erasure = [status |-> erasure.status, attempts |-> erasure.attempts,
                    lockOld |-> erasure.lockOld]
      /\ erasure.attempts \in 0 .. MaxErasureAttempts
  BY DEF ErasureTypeOK
<1> USE <1>0
<1>1. CASE SubmitErasure
  <2>1. /\ subject = "active" /\ subject' = "erasure_pending"
        /\ erasure' = [status |-> "submitted", attempts |-> erasure.attempts, lockOld |-> FALSE]
        /\ UNCHANGED <<eraser, erasuresDone, eraserStops>>
    BY <1>1, Zenon DEF SubmitErasure, RequestIs
  <2>2. erasure.attempts = 0
    BY <2>1 DEF ErasureIsAccountedFor, UnaskedIsUntried
  <2> QED BY <2>1, <2>2 DEF ErasureTypeOK, ErasureIsAccountedFor, UnaskedIsUntried
<1>2. CASE LockGrowsOld
  BY <1>2 DEF LockGrowsOld, ErasureTypeOK, ErasureIsAccountedFor, UnaskedIsUntried
<1>3. ASSUME NEW w \in Erasers, ClaimErasure(w) PROVE ErasureInv'
  <2>1. eraser'[w] = "erasing"
    BY <1>3 DEF ClaimErasure, Turns, ErasureTypeOK
  <2>2. ErasureTypeOK'
    BY <1>3 DEF ClaimErasure, Turns, ErasureTypeOK
  <2>3. erasure'.status = "processing" /\ UNCHANGED <<subject, erasuresDone>>
    BY <1>3 DEF ClaimErasure
  <2>4. subject = "erasure_pending" /\ erasuresDone = 0
    BY <1>3 DEF ClaimErasure, ErasureTypeOK, ErasureIsAccountedFor
  <2> QED BY <2>1, <2>2, <2>3, <2>4 DEF ErasureIsAccountedFor, UnaskedIsUntried
<1>4. ASSUME NEW w \in Erasers, PerformLocalErasure(w) PROVE ErasureInv'
  <2>1. /\ erasure.status = "processing"
        /\ subject' = IF subject = "erasure_pending" THEN "erased" ELSE subject
        /\ erasure' = [status |-> "completed", attempts |-> erasure.attempts, lockOld |-> FALSE]
        /\ erasuresDone' = erasuresDone + 1
        /\ eraser' = [eraser EXCEPT ![w] = "idle"]
        /\ eraserStops' = eraserStops
    BY <1>4 DEF PerformLocalErasure, RequestIs, Turns
  <2>2. subject = "erasure_pending" /\ erasuresDone = 0
    BY <2>1 DEF ErasureTypeOK, ErasureIsAccountedFor
  <2> QED BY <2>1, <2>2 DEF ErasureTypeOK, ErasureIsAccountedFor, UnaskedIsUntried
<1>5. ASSUME NEW w \in Erasers, ErasureThrows(w) PROVE ErasureInv'
  BY <1>5 DEF ErasureThrows, Turns, ErasureTypeOK, ErasureIsAccountedFor, UnaskedIsUntried
<1>6. ASSUME NEW w \in Erasers, RecordFailure(w) PROVE ErasureInv'
  <2>1. CASE erasure.status # "processing"
    BY <1>6, <2>1 DEF RecordFailure, Turns, ErasureTypeOK, ErasureIsAccountedFor, UnaskedIsUntried
  <2>2. CASE erasure.status = "processing"
    <3>1. /\ erasure' = [status |-> IF erasure.attempts >= MaxErasureAttempts
                                    THEN "failed" ELSE "submitted",
                         attempts |-> erasure.attempts, lockOld |-> FALSE]
          /\ eraser' = [eraser EXCEPT ![w] = "idle"]
          /\ UNCHANGED <<subject, erasuresDone, eraserStops>>
      BY <1>6, <2>2 DEF RecordFailure, RequestIs, Turns
    <3>2. subject = "erasure_pending" /\ erasuresDone = 0
      BY <2>2 DEF ErasureTypeOK, ErasureIsAccountedFor
    <3> QED BY <3>1, <3>2, <2>2 DEF ErasureTypeOK, ErasureIsAccountedFor, UnaskedIsUntried
  <2> QED BY <2>1, <2>2
<1>7. ASSUME NEW w \in Erasers, EraserStops(w) PROVE ErasureInv'
  BY <1>7 DEF EraserStops, Turns, ErasureTypeOK, ErasureIsAccountedFor, UnaskedIsUntried
<1>8. CASE UNCHANGED erasureVars
  BY <1>8 DEF erasureVars, ErasureTypeOK, ErasureIsAccountedFor, UnaskedIsUntried
<1> QED BY <1>1, <1>2, <1>3, <1>4, <1>5, <1>6, <1>7, <1>8 DEF ErasureNext

\* Whatever workers stall, race and stop, an account is erased at most once and
\* its request tells what became of it: PrivacyErasureWorkerService.
THEOREM ErasuresAreAccountedFor == ErasureSpec => []ErasureIsAccountedFor
<1>1. ErasureInv => ErasureIsAccountedFor
  BY DEF ErasureInv
<1> QED BY <1>1, ErasureInitially, ErasureStep, PTL DEF ErasureSpec

-----------------------------------------------------------------------------
(* App builds.                                                           *)

\* A builder whose lease holds works on the job's last attempt.
LeaseIsForLastAttempt ==
  \A b \in Builders : \A a \in assigned[b] :
    /\ a.attempt > 0
    /\ LeaseHeld(b, a.job) => a.attempt = buildAttempts[a.job]

\* A job that waits for a builder has attempts left.
QueuedCanTry ==
  \A j \in Jobs : buildStatus[j] \in {"none", "queued"} => buildAttempts[j] < MaxBuildAttempts

BuildInv == BuildTypeOK /\ ArtifactIsOfLastAttempt /\ LeaseIsForLastAttempt /\ QueuedCanTry

LEMMA BuildInitially == BuildInit => BuildInv
<1> SUFFICES ASSUME BuildInit PROVE BuildInv
    OBVIOUS
<1>1. BuildTypeOK
  BY MaxBuildAttemptsAssumption DEF BuildInit, BuildTypeOK, BuildStatus
<1>2. ArtifactIsOfLastAttempt /\ LeaseIsForLastAttempt /\ QueuedCanTry
  BY MaxBuildAttemptsAssumption
     DEF BuildInit, ArtifactIsOfLastAttempt, LeaseIsForLastAttempt, QueuedCanTry
<1> QED BY <1>1, <1>2 DEF BuildInv

\* Steps that leave the rows' status, count, holder and artifact alone, and
\* hand nobody a job.
LEMMA BuildUntouched ==
  ASSUME BuildInv, BuildTypeOK',
         UNCHANGED <<buildStatus, buildAttempts, buildLockedBy, artifact>>,
         \A b \in Builders : assigned'[b] \subseteq assigned[b]
  PROVE  BuildInv'
  BY DEF BuildInv, ArtifactIsOfLastAttempt, LeaseIsForLastAttempt, QueuedCanTry, LeaseHeld

LEMMA BuildStaffStep ==
  ASSUME BuildInv, NEW j \in Jobs, RequestBuild(j) \/ CancelBuild(j) \/ LeaseLapses(j)
  PROVE  BuildInv'
<1>1. CASE RequestBuild(j)
  BY <1>1 DEF RequestBuild, BuildInv, BuildTypeOK, BuildStatus, BuildEvent,
              ArtifactIsOfLastAttempt, LeaseIsForLastAttempt, QueuedCanTry, LeaseHeld, Assignment
<1>2. CASE CancelBuild(j)
  BY <1>2 DEF CancelBuild, BuildInv, BuildTypeOK, BuildStatus, BuildEvent,
              ArtifactIsOfLastAttempt, LeaseIsForLastAttempt, QueuedCanTry, LeaseHeld, Assignment
<1>3. CASE LeaseLapses(j)
  <2>1. BuildTypeOK'
    BY <1>3 DEF LeaseLapses, BuildInv, BuildTypeOK
  <2> QED BY <2>1, <1>3, BuildUntouched DEF LeaseLapses
<1> QED BY <1>1, <1>2, <1>3

LEMMA BuildRecovery ==
  ASSUME BuildInv, NEW b \in Builders, RecoverBuilds(b)
  PROVE  BuildInv'
<1> USE DEF BuildInv
<1>1. BuildTypeOK'
  BY DEF RecoverBuilds, BuildTypeOK, BuildStatus, Requeued, TimedOut
<1>2. ArtifactIsOfLastAttempt' /\ QueuedCanTry'
  BY DEF RecoverBuilds, BuildTypeOK, ArtifactIsOfLastAttempt, QueuedCanTry, Requeued, TimedOut
<1>3. LeaseIsForLastAttempt'
  <2> SUFFICES ASSUME NEW c \in Builders, NEW a \in assigned'[c]
               PROVE  /\ a.attempt > 0
                      /\ LeaseHeld(c, a.job)' => a.attempt = buildAttempts'[a.job]
      BY DEF LeaseIsForLastAttempt
  <2>1. a \in assigned[c] /\ a \in Assignment /\ UNCHANGED buildAttempts
    BY DEF RecoverBuilds, BuildTypeOK
  <2>2. a.job \in Jobs
    BY <2>1 DEF Assignment
  <2>3. LeaseHeld(c, a.job)' => LeaseHeld(c, a.job)
    BY <2>2, NoBuilderAssumption DEF RecoverBuilds, LeaseHeld, Requeued, TimedOut, BuildTypeOK
  <2> QED BY <2>1, <2>3 DEF LeaseIsForLastAttempt
<1> QED BY <1>1, <1>2, <1>3

LEMMA BuildClaim ==
  ASSUME BuildInv, NEW b \in Builders, ClaimOne(b)
  PROVE  BuildInv'
<1> USE DEF BuildInv
<1> PICK j \in Jobs :
      /\ buildStatus[j] = "queued"
      /\ buildStatus' = [buildStatus EXCEPT ![j] = "processing"]
      /\ buildAttempts' = [buildAttempts EXCEPT ![j] = @ + 1]
      /\ buildLockedBy' = [buildLockedBy EXCEPT ![j] = b]
      /\ builder' = [builder EXCEPT ![b] = "building"]
      /\ assigned' = [assigned EXCEPT ![b] = {[job |-> j, attempt |-> buildAttempts[j] + 1]}]
      /\ UNCHANGED <<artifact, failureCode, buildLapsed, buildEvents, beating, builderStops>>
    BY DEF ClaimOne
<1>0. buildAttempts[j] \in Nat /\ buildAttempts[j] >= 0
  BY DEF BuildTypeOK
<1>1. buildAttempts[j] < MaxBuildAttempts
  BY DEF QueuedCanTry
<1>2. BuildTypeOK'
  <2>1. [job |-> j, attempt |-> buildAttempts[j] + 1] \in Assignment
    BY <1>0 DEF Assignment
  <2>2. assigned' \in [Builders -> SUBSET Assignment]
    BY <2>1 DEF BuildTypeOK
  <2>3. buildAttempts' \in [Jobs -> 0 .. MaxBuildAttempts]
    BY <1>0, <1>1, MaxBuildAttemptsAssumption DEF BuildTypeOK
  <2> QED BY <2>2, <2>3 DEF BuildTypeOK, BuildStatus
<1>3. ArtifactIsOfLastAttempt' /\ QueuedCanTry'
  BY DEF BuildTypeOK, ArtifactIsOfLastAttempt, QueuedCanTry
<1>4. LeaseIsForLastAttempt'
  <2> SUFFICES ASSUME NEW c \in Builders, NEW a \in assigned'[c]
               PROVE  /\ a.attempt > 0
                      /\ LeaseHeld(c, a.job)' => a.attempt = buildAttempts'[a.job]
      BY DEF LeaseIsForLastAttempt
  <2>1. CASE c = b
    <3>1. a = [job |-> j, attempt |-> buildAttempts[j] + 1]
      BY <2>1 DEF BuildTypeOK
    <3>2. buildAttempts'[j] = buildAttempts[j] + 1
      BY DEF BuildTypeOK
    <3> QED BY <1>0, <3>1, <3>2
  <2>2. CASE c # b
    <3>1. a \in assigned[c] /\ a.job \in Jobs
      BY <2>2 DEF BuildTypeOK, Assignment
    <3>2. CASE a.job = j
      BY <2>2, <3>1, <3>2 DEF LeaseHeld, LeaseIsForLastAttempt, BuildTypeOK
    <3>3. CASE a.job # j
      BY <2>2, <3>1, <3>3 DEF LeaseHeld, LeaseIsForLastAttempt, BuildTypeOK
    <3> QED BY <3>2, <3>3
  <2> QED BY <2>1, <2>2
<1> QED BY <1>2, <1>3, <1>4

LEMMA BuildReport ==
  ASSUME BuildInv, NEW b \in Builders, CompleteSuccess(b) \/ CompleteFailure(b)
  PROVE  BuildInv'
<1> USE DEF BuildInv
<1> PICK a \in assigned[b] :
      /\ LeaseHeld(b, a.job)
      /\ buildStatus' \in {[buildStatus EXCEPT ![a.job] = "succeeded"],
                           [buildStatus EXCEPT ![a.job] = "failed"]}
      /\ artifact' = IF CompleteSuccess(b) THEN [artifact EXCEPT ![a.job] = a.attempt]
                                           ELSE artifact
      /\ buildStatus' = [buildStatus EXCEPT ![a.job] =
                           IF CompleteSuccess(b) THEN "succeeded" ELSE "failed"]
      /\ buildLapsed' = buildLapsed \ {a.job}
      /\ failureCode' \in {failureCode, [failureCode EXCEPT ![a.job] = "build_failed"]}
      /\ \E e \in BuildEvent : buildEvents' = buildEvents \cup {<<a.job, e>>}
      /\ builder' = [builder EXCEPT ![b] = "idle"]
      /\ assigned' = [assigned EXCEPT ![b] = {}]
      /\ UNCHANGED <<buildAttempts, buildLockedBy, beating, builderStops>>
  <2>1. CASE CompleteSuccess(b)
    BY <2>1 DEF CompleteSuccess, BuildEvent
  <2>2. CASE CompleteFailure(b) /\ ~CompleteSuccess(b)
    BY <2>2 DEF CompleteFailure, BuildEvent
  <2> QED BY <2>1, <2>2
<1>1. /\ a \in Assignment /\ a.job \in Jobs /\ a.attempt \in Nat /\ a.attempt > 0
      /\ a.attempt = buildAttempts[a.job]
      /\ buildStatus[a.job] = "processing"
  BY DEF BuildTypeOK, Assignment, LeaseIsForLastAttempt, LeaseHeld
<1>2. BuildTypeOK'
  BY <1>1 DEF BuildTypeOK, BuildStatus
<1>3. ArtifactIsOfLastAttempt' /\ QueuedCanTry'
  BY <1>1 DEF BuildTypeOK, ArtifactIsOfLastAttempt, QueuedCanTry
<1>4. LeaseIsForLastAttempt'
  BY <1>1 DEF BuildTypeOK, LeaseIsForLastAttempt, LeaseHeld
<1> QED BY <1>2, <1>3, <1>4

LEMMA BuilderElse ==
  ASSUME BuildInv, NEW b \in Builders,
         \/ RegisterHeartbeat(b) \/ HeartbeatAges(b) \/ Execute(b) \/ CompleteSuccessFails(b)
         \/ LeaveLost(b) \/ ShutDown(b) \/ BuilderCrash(b)
  PROVE  BuildInv'
<1>1. BuildTypeOK'
  BY DEF RegisterHeartbeat, HeartbeatAges, Execute, CompleteSuccessFails, LeaveLost, ShutDown,
         BuilderCrash, buildRow, BuildInv, BuildTypeOK
<1>2. UNCHANGED buildRow /\ \A c \in Builders : assigned'[c] \subseteq assigned[c]
  BY DEF RegisterHeartbeat, HeartbeatAges, Execute, CompleteSuccessFails, LeaveLost, ShutDown,
         BuilderCrash, BuildInv, BuildTypeOK
<1> QED BY <1>1, <1>2, BuildUntouched DEF buildRow

LEMMA BuildStep == BuildInv /\ [BuildNext]_buildVars => BuildInv'
<1> SUFFICES ASSUME BuildInv, [BuildNext]_buildVars PROVE BuildInv'
    OBVIOUS
<1>1. CASE UNCHANGED buildVars
  <2>1. BuildTypeOK'
    BY <1>1 DEF buildVars, buildRow, BuildInv, BuildTypeOK
  <2> QED BY <1>1, <2>1, BuildUntouched DEF buildVars, buildRow
<1> QED BY <1>1, BuildStaffStep, BuildRecovery, BuildClaim, BuildReport, BuilderElse
        DEF BuildNext, BuilderStep

\* However many builders lose their leases while they build, a job's artifact
\* is of the attempt it counted last: AppBuildWorkerService.completeSuccess.
THEOREM ArtifactsAreOfLastAttempts == BuildSpec => []ArtifactIsOfLastAttempt
<1>1. BuildInv => ArtifactIsOfLastAttempt
  BY DEF BuildInv
<1> QED BY <1>1, BuildInitially, BuildStep, PTL DEF BuildSpec

-----------------------------------------------------------------------------
(* Media storage: what a completion read of a provider stands.           *)

Known  == [status: {"uploading", "ready"}, provider: Providers, version: 0 .. MaxEdits,
           bucket: Buckets]
Candidate == [at: {"read", "verified"}, media: Uploads, provider: Providers,
              version: 0 .. MaxEdits, bucket: Buckets]

\* A candidate names the provider of its media, which a media's foreign key
\* keeps, and whose version says whether it is as it was read.
CandidateStands(c) ==
  /\ media[c.media] # NoMedia
  /\ media[c.media].provider = c.provider
  /\ Exists(c.provider)
  /\ c.version <= provider[c.provider].version
  /\ c.version = provider[c.provider].version => c.bucket = provider[c.provider].bucket
  /\ c.at = "verified" => <<c.bucket, c.media>> \in objects

CandidatesStand ==
  \A r \in Completions : completion[r] # NoCompletion => CandidateStands(completion[r])

\* A URL is signed for an upload that is promised.
UrlsArePromised == \A m \in urlLive : media[m] # NoMedia

StorageInv == StorageTypeOK /\ CandidatesStand /\ UrlsArePromised

\* No media and no completion is a record with fewer fields than the others.
LEMMA NoMediaHasStatus == NoMedia.status = "none" /\ \A k \in Known : k # NoMedia
  BY DEF NoMedia, Known

LEMMA NoCompletionIsIdle ==
  NoCompletion.at = "idle" /\ \A c \in Candidate : c # NoCompletion
  BY DEF NoCompletion, Candidate

LEMMA StorageInitially == StorageInit => StorageInv
  BY StorageAssumption
     DEF StorageInit, StorageInv, StorageTypeOK, CandidatesStand, UrlsArePromised, Media

\* What all steps but those of a completion keep.
LEMMA CandidatesKept ==
  ASSUME StorageInv, StorageTypeOK', UNCHANGED completion, objects \subseteq objects',
         \A m \in Media : media[m] # NoMedia => media'[m] # NoMedia
                                                /\ media'[m].provider = media[m].provider,
         \A m \in urlLive' : m \in urlLive \/ media'[m] # NoMedia,
         \A r \in Completions : completion[r] # NoCompletion =>
           LET p == completion[r].provider IN
           \/ provider'[p] = provider[p]
           \/ /\ provider'[p].status # "none"
              /\ provider'[p].version > provider[p].version
  PROVE  StorageInv'
<1>0. UrlsArePromised'
  BY DEF StorageInv, StorageTypeOK, UrlsArePromised, Media
<1> SUFFICES ASSUME NEW r \in Completions, completion[r] # NoCompletion
             PROVE  CandidateStands(completion[r])'
    BY <1>0 DEF StorageInv, CandidatesStand
<1> DEFINE c == completion[r]
<1>1. c \in Candidate /\ c.media \in Media /\ c.provider \in Providers /\ c.version \in Int
  BY DEF StorageInv, StorageTypeOK, Candidate, Media
<1>2. CandidateStands(c)
  BY DEF StorageInv, CandidatesStand
<1>3. provider[c.provider].version \in Int
  BY <1>1 DEF StorageInv, StorageTypeOK
<1>4. media'[c.media] # NoMedia /\ media'[c.media].provider = c.provider
  BY <1>1, <1>2 DEF CandidateStands
<1>5. c.at = "verified" => <<c.bucket, c.media>> \in objects'
  BY <1>2 DEF CandidateStands
<1>6. CASE provider'[c.provider] = provider[c.provider]
  BY <1>2, <1>4, <1>5, <1>6 DEF CandidateStands, Exists
<1>7. CASE /\ provider'[c.provider].status # "none"
           /\ provider'[c.provider].version > provider[c.provider].version
  <2>1. provider'[c.provider].version \in Int
    BY <1>1 DEF StorageTypeOK
  <2> QED BY <1>1, <1>2, <1>3, <1>4, <1>5, <1>7, <2>1 DEF CandidateStands, Exists
<1> QED BY <1>6, <1>7
LEMMA ProviderStep ==
  ASSUME StorageInv, NEW p \in Providers,
         CreateProvider(p) \/ UpdateProvider(p) \/ SetProviderStatus(p)
  PROVE  StorageInv'
<1>0. /\ UNCHANGED <<media, urlLive, objects, completion>>
      /\ \A q \in Providers : q # p => provider'[q] = provider[q]
  BY DEF CreateProvider, UpdateProvider, SetProviderStatus, StorageInv, StorageTypeOK
<1>1. provider[p] = [status |-> provider[p].status, bucket |-> provider[p].bucket,
                     version |-> provider[p].version]
      /\ provider[p].version \in 0 .. MaxEdits
  BY DEF StorageInv, StorageTypeOK
<1>2. CASE CreateProvider(p)
  <2>1. StorageTypeOK'
    BY <1>2, <1>1 DEF CreateProvider, StorageInv, StorageTypeOK
  <2>2. \A r \in Completions : completion[r] # NoCompletion => completion[r].provider # p
    BY <1>2 DEF CreateProvider, StorageInv, CandidatesStand, CandidateStands
  <2>3. \A r \in Completions : completion[r] # NoCompletion =>
          provider'[completion[r].provider] = provider[completion[r].provider]
    BY <1>0, <2>2 DEF StorageInv, StorageTypeOK
  <2> QED BY <1>0, <2>1, <2>3, CandidatesKept DEF StorageInv
<1>3. CASE UpdateProvider(p) \/ SetProviderStatus(p)
  <2>0. provider[p].version < MaxEdits /\ Exists(p) /\ MaxEdits \in Nat
    BY <1>3, StorageAssumption DEF UpdateProvider, SetProviderStatus
  <2>1. /\ provider'[p].status \in {"active", "disabled"}
        /\ provider'[p].version = provider[p].version + 1
        /\ provider'[p].bucket \in Buckets
        /\ provider' = [provider EXCEPT ![p] = [status |-> provider'[p].status,
                          bucket |-> provider'[p].bucket, version |-> provider[p].version + 1]]
    <3>1. CASE UpdateProvider(p)
      <4>1. PICK b \in Buckets :
              provider' = [provider EXCEPT ![p].bucket = b, ![p].version = @ + 1]
        BY <3>1 DEF UpdateProvider
      <4>2. provider' = [provider EXCEPT ![p] = [status |-> provider[p].status,
                          bucket |-> b, version |-> provider[p].version + 1]]
        BY <1>1, <4>1 DEF StorageInv, StorageTypeOK
      <4>3. provider[p].status \in {"active", "disabled"}
        BY <2>0 DEF Exists, StorageInv, StorageTypeOK
      <4> QED BY <4>2, <4>3 DEF StorageInv, StorageTypeOK
    <3>2. CASE SetProviderStatus(p)
      <4>1. PICK s \in {"active", "disabled"} :
              provider' = [provider EXCEPT ![p].status = s, ![p].version = @ + 1]
        BY <3>2 DEF SetProviderStatus
      <4>2. provider' = [provider EXCEPT ![p] = [status |-> s,
                          bucket |-> provider[p].bucket, version |-> provider[p].version + 1]]
        BY <1>1, <4>1 DEF StorageInv, StorageTypeOK
      <4> QED BY <4>2 DEF StorageInv, StorageTypeOK
    <3> QED BY <1>3, <3>1, <3>2
  <2>2. StorageTypeOK'
    <3>1. provider[p].version + 1 \in 0 .. MaxEdits
      BY <1>1, <2>0
    <3>2. [status |-> provider'[p].status, bucket |-> provider'[p].bucket,
           version |-> provider[p].version + 1]
          \in [status: {"none", "active", "disabled"}, bucket: Buckets, version: 0 .. MaxEdits]
      BY <2>1, <3>1
    <3> QED BY <1>0, <2>1, <3>2 DEF StorageInv, StorageTypeOK
  <2>3. \A r \in Completions : completion[r] # NoCompletion =>
          LET q == completion[r].provider IN
          \/ provider'[q] = provider[q]
          \/ provider'[q].status # "none" /\ provider'[q].version > provider[q].version
    BY <1>0, <1>1, <2>1 DEF StorageInv, StorageTypeOK
  <2> QED BY <1>0, <2>2, <2>3, CandidatesKept DEF StorageInv
<1> QED BY <1>2, <1>3

LEMMA DeleteStep ==
  ASSUME StorageInv, NEW p \in Providers, DeleteProvider(p)
  PROVE  StorageInv'
<1>1. StorageTypeOK'
  <2> PICK b \in Buckets :
        provider' = [provider EXCEPT ![p] = [status |-> "none", bucket |-> b, version |-> 0]]
    BY DEF DeleteProvider
  <2>1. [status |-> "none", bucket |-> b, version |-> 0]
        \in [status: {"none", "active", "disabled"}, bucket: Buckets, version: 0 .. MaxEdits]
    BY StorageAssumption
  <2> QED BY <2>1 DEF DeleteProvider, StorageInv, StorageTypeOK
<1>2. \A r \in Completions : completion[r] # NoCompletion =>
        completion[r].provider # p /\ completion[r].provider \in Providers
  <2> SUFFICES ASSUME NEW r \in Completions, completion[r] # NoCompletion
               PROVE  completion[r].provider # p /\ completion[r].provider \in Providers
      OBVIOUS
  <2>1. completion[r].media \in Media /\ completion[r].provider \in Providers
    BY DEF StorageInv, StorageTypeOK, Media
  <2>2. CandidateStands(completion[r])
    BY DEF StorageInv, CandidatesStand
  <2> QED BY <2>1, <2>2 DEF DeleteProvider, CandidateStands
<1>3. \A r \in Completions : completion[r] # NoCompletion =>
        provider'[completion[r].provider] = provider[completion[r].provider]
  BY <1>2 DEF DeleteProvider, StorageInv, StorageTypeOK
<1> QED BY <1>1, <1>3, CandidatesKept DEF DeleteProvider, StorageInv

LEMMA UploadStep ==
  ASSUME StorageInv, NEW m \in Media,
         \/ m \in Uploads /\ UrlExpires(m)
         \/ m \in Uploads /\ PutObject(m)
         \/ \E p \in Providers : \/ m \in Uploads /\ CreateUploadIntent(m, p)
                                 \/ RegisterSourceObject(m, p)
  PROVE  StorageInv'
<1>1. CASE m \in Uploads /\ UrlExpires(m)
  <2>1. StorageTypeOK'
    BY <1>1 DEF UrlExpires, StorageInv, StorageTypeOK
  <2> QED BY <1>1, <2>1, CandidatesKept DEF UrlExpires, StorageInv
<1>2. CASE m \in Uploads /\ PutObject(m)
  <2>1. StorageTypeOK'
    <3>1. media[m] # NoMedia
      BY <1>2 DEF PutObject, StorageInv, UrlsArePromised
    <3>2. media[m].bucket \in Buckets
      BY <3>1 DEF StorageInv, StorageTypeOK
    <3> QED BY <1>2, <3>2 DEF PutObject, StorageInv, StorageTypeOK
  <2> QED BY <1>2, <2>1, CandidatesKept DEF PutObject, StorageInv
<1>3. ASSUME NEW p \in Providers,
             (m \in Uploads /\ CreateUploadIntent(m, p)) \/ RegisterSourceObject(m, p)
      PROVE  StorageInv'
  <2>1. Promise(p, "uploading") \in Known /\ Promise(p, "ready") \in Known
    BY DEF Promise, Known, StorageInv, StorageTypeOK
  <2>2. media[m] = NoMedia /\ UNCHANGED <<provider, objects, completion>>
        /\ \E k \in Known : media' = [media EXCEPT ![m] = k]
    BY <1>3, <2>1 DEF CreateUploadIntent, RegisterSourceObject
  <2>3. StorageTypeOK'
    <3>1. urlLive' \subseteq Uploads
      BY <1>3 DEF StorageInv, StorageTypeOK, CreateUploadIntent, RegisterSourceObject
    <3>2. media' \in [Media -> {NoMedia} \cup Known]
      BY <2>2 DEF Known, StorageInv, StorageTypeOK
    <3> QED BY <2>2, <3>1, <3>2 DEF Known, StorageInv, StorageTypeOK
  <2>4. \A n \in urlLive' : n \in urlLive \/ media'[n] # NoMedia
    BY <1>3, <2>1, NoMediaHasStatus DEF CreateUploadIntent, RegisterSourceObject, StorageInv,
                                       StorageTypeOK
  <2> QED BY <2>2, <2>3, <2>4, CandidatesKept DEF StorageInv, StorageTypeOK
<1> QED BY <1>1, <1>2, <1>3

LEMMA CompletionStep ==
  ASSUME StorageInv, NEW r \in Completions,
         (\E m \in Uploads : ReadCandidate(r, m)) \/ HeadObject(r)
  PROVE  StorageInv'
<1> DEFINE Stands == \E c \in Candidate \cup {NoCompletion} :
             /\ completion' = [completion EXCEPT ![r] = c]
             /\ c # NoCompletion => CandidateStands(c)
<1>0. UNCHANGED <<provider, media, urlLive, objects>> /\ Stands
  <2>1. ASSUME NEW m \in Uploads, ReadCandidate(r, m) PROVE Stands
    <3> DEFINE c == [at |-> "read", media |-> m, provider |-> media[m].provider,
                     version |-> provider[media[m].provider].version,
                     bucket |-> provider[media[m].provider].bucket]
    <3>1. media[m] # NoMedia
      BY <2>1 DEF ReadCandidate, Completable, NoMedia
    <3>2. media[m].provider \in Providers
      BY <3>1 DEF StorageInv, StorageTypeOK, Media
    <3>3. c \in Candidate /\ c.version \in Int
      BY <3>2 DEF Candidate, StorageInv, StorageTypeOK
    <3>4. CandidateStands(c)
      BY <2>1, <3>1, <3>3 DEF ReadCandidate, Completable, Usable, Exists, CandidateStands
    <3>5. completion' = [completion EXCEPT ![r] = c]
      BY <2>1 DEF ReadCandidate
    <3> QED BY <3>3, <3>4, <3>5
  <2>2. CASE HeadObject(r)
    <3>1. completion[r] \in Candidate /\ CandidateStands(completion[r])
      BY <2>2, NoCompletionIsIdle
         DEF HeadObject, Candidate, StorageInv, StorageTypeOK, CandidatesStand
    <3> DEFINE c == [completion[r] EXCEPT !.at = "verified"]
    <3>2. c \in Candidate /\ c.media = completion[r].media /\ c.provider = completion[r].provider
          /\ c.version = completion[r].version /\ c.bucket = completion[r].bucket
      BY <3>1 DEF Candidate
    <3>3. <<completion[r].bucket, completion[r].media>> \in objects => CandidateStands(c)
      BY <3>1, <3>2 DEF CandidateStands
    <3> QED BY <2>2, <3>2, <3>3 DEF HeadObject
  <2> QED BY <2>1, <2>2 DEF ReadCandidate, HeadObject
<1>1. StorageTypeOK'
  BY <1>0 DEF Candidate, StorageInv, StorageTypeOK
<1>2. CandidatesStand'
  <2>1. PICK c \in Candidate \cup {NoCompletion} :
          /\ completion' = [completion EXCEPT ![r] = c]
          /\ c # NoCompletion => CandidateStands(c)
    BY <1>0
  <2> SUFFICES ASSUME NEW q \in Completions, completion'[q] # NoCompletion
               PROVE  CandidateStands(completion[q])'
    BY DEF CandidatesStand
  <2>2. CandidateStands(completion'[q])
    <3>1. CASE q = r
      BY <2>1, <3>1 DEF StorageInv, StorageTypeOK
    <3>2. CASE q # r
      <4>1. completion'[q] = completion[q]
        BY <2>1, <3>2 DEF StorageInv, StorageTypeOK
      <4> QED BY <4>1 DEF StorageInv, CandidatesStand
    <3> QED BY <3>1, <3>2
  <2> QED BY <1>0, <2>2 DEF CandidateStands, Exists
<1>3. UrlsArePromised'
  BY <1>0 DEF StorageInv, UrlsArePromised
<1> QED BY <1>1, <1>2, <1>3 DEF StorageInv

LEMMA CommitStep ==
  ASSUME StorageInv, NEW r \in Completions, CompleteUpload(r)
  PROVE  /\ StorageInv'
         /\ LET c == completion[r] IN
              /\ \A m \in Media : m # c.media => media'[m] = media[m]
              /\ media'[c.media] # media[c.media] =>
                   <<provider[media'[c.media].provider].bucket, c.media>> \in objects
<1> DEFINE c == completion[r]
<1>1. c \in Candidate /\ c # NoCompletion /\ c.at = "verified"
  BY NoCompletionIsIdle DEF CompleteUpload, Candidate, StorageInv, StorageTypeOK
<1>2. c.media \in Media /\ CandidateStands(c)
  BY <1>1 DEF Candidate, Media, StorageInv, CandidatesStand
<1>3. media[c.media] \in Known
  BY <1>2 DEF CandidateStands, Known, StorageInv, StorageTypeOK
<1> DEFINE newStatus == IF Completable(c.media) /\ Unchanged(c) THEN "ready" ELSE media[c.media].status
<1>4. /\ media' = [media EXCEPT ![c.media] = [media[c.media] EXCEPT !.status = newStatus]]
      /\ [media[c.media] EXCEPT !.status = newStatus] \in Known
      /\ [media[c.media] EXCEPT !.status = newStatus].provider = c.provider
  BY <1>2, <1>3 DEF CompleteUpload, Known, CandidateStands
<1>5. StorageInv'
  <2>1. media' \in [Media -> {NoMedia} \cup Known]
    BY <1>2, <1>4 DEF Known, StorageInv, StorageTypeOK
  <2>2. \A m \in Media : media[m] # NoMedia =>
          media'[m] # NoMedia /\ media'[m].provider = media[m].provider
    BY <1>2, <1>4, NoMediaHasStatus DEF StorageInv, StorageTypeOK, CandidateStands
  <2>3. /\ UNCHANGED <<provider, urlLive, objects>>
        /\ completion' = [completion EXCEPT ![r] = NoCompletion]
    BY DEF CompleteUpload
  <2>4. StorageTypeOK'
    BY <2>1, <2>3 DEF Known, StorageInv, StorageTypeOK
  <2>5. UrlsArePromised'
    BY <2>2, <2>3 DEF StorageInv, StorageTypeOK, UrlsArePromised, Media
  <2>6. ASSUME NEW s \in Completions, completion'[s] # NoCompletion
        PROVE  CandidateStands(completion[s])' /\ completion'[s] = completion[s]
    <3>1. completion'[s] = completion[s]
      BY <2>3, <2>6 DEF StorageInv, StorageTypeOK
    <3>2. completion[s].media \in Media /\ CandidateStands(completion[s])
      BY <2>6, <3>1 DEF StorageInv, StorageTypeOK, CandidatesStand, Media
    <3> QED BY <2>2, <2>3, <3>1, <3>2 DEF CandidateStands, Exists
  <2> QED BY <2>4, <2>5, <2>6 DEF StorageInv, CandidatesStand
<1>6. \A m \in Media : m # c.media => media'[m] = media[m]
  BY <1>2, <1>4 DEF StorageInv, StorageTypeOK
<1>7. ASSUME media'[c.media] # media[c.media]
      PROVE  <<provider[media'[c.media].provider].bucket, c.media>> \in objects
  <2>1. Unchanged(c)
    BY <1>3, <1>7 DEF CompleteUpload, Known
  <2> QED BY <1>1, <1>2, <1>4, <2>1 DEF Unchanged, CandidateStands, StorageInv, StorageTypeOK
<1> QED BY <1>5, <1>6, <1>7

\* What the action property says of a step.
ReadyIsThere ==
  \A m \in Media :
    (media'[m] # media[m] /\ media'[m] # NoMedia /\ media'[m].status = "ready")
      => <<provider[media'[m].provider].bucket, m>> \in objects

LEMMA StorageStep ==
  StorageInv /\ [StorageNext]_storageVars => StorageInv' /\ (StorageNext => ReadyIsThere)
<1> SUFFICES ASSUME StorageInv, [StorageNext]_storageVars
             PROVE  StorageInv' /\ (StorageNext => ReadyIsThere)
    OBVIOUS
<1>1. ASSUME NEW p \in Providers,
             \/ CreateProvider(p) \/ UpdateProvider(p) \/ SetProviderStatus(p)
             \/ DeleteProvider(p)
      PROVE  StorageInv' /\ ReadyIsThere
  <2>1. UNCHANGED media
    BY <1>1 DEF CreateProvider, UpdateProvider, SetProviderStatus, DeleteProvider
  <2> QED BY <1>1, <2>1, ProviderStep, DeleteStep DEF ReadyIsThere
<1>2. ASSUME NEW m \in Uploads, UrlExpires(m) \/ PutObject(m)
      PROVE  StorageInv' /\ ReadyIsThere
  <2>1. UNCHANGED media
    BY <1>2 DEF UrlExpires, PutObject
  <2> QED BY <1>2, <2>1, UploadStep DEF ReadyIsThere, Media
<1>3. ASSUME NEW m \in Uploads, NEW p \in Providers, CreateUploadIntent(m, p)
      PROVE  StorageInv' /\ ReadyIsThere
  <2>1. media' = [media EXCEPT ![m] = Promise(p, "uploading")]
        /\ Promise(p, "uploading").status # "ready"
    BY <1>3 DEF CreateUploadIntent, Promise
  <2> QED BY <1>3, <2>1, UploadStep DEF ReadyIsThere, Media, StorageInv, StorageTypeOK
<1>4. ASSUME NEW m \in SourceMedia, NEW p \in Providers, RegisterSourceObject(m, p)
      PROVE  StorageInv' /\ ReadyIsThere
  <2>1. media' = [media EXCEPT ![m] = Promise(p, "ready")] /\ Promise(p, "ready").provider = p
        /\ <<provider[p].bucket, m>> \in objects
    BY <1>4 DEF RegisterSourceObject, Promise
  <2> QED BY <1>4, <2>1, UploadStep DEF ReadyIsThere, Media, StorageInv, StorageTypeOK
<1>5. ASSUME NEW r \in Completions,
             (\E m \in Uploads : ReadCandidate(r, m)) \/ HeadObject(r)
      PROVE  StorageInv' /\ ReadyIsThere
  <2>1. UNCHANGED media
    BY <1>5 DEF ReadCandidate, HeadObject
  <2> QED BY <1>5, <2>1, CompletionStep DEF ReadyIsThere
<1>6. ASSUME NEW r \in Completions, CompleteUpload(r)
      PROVE  StorageInv' /\ ReadyIsThere
  BY <1>6, CommitStep DEF ReadyIsThere
<1>7. CASE UNCHANGED storageVars
  <2>1. StorageTypeOK'
    BY <1>7 DEF storageVars, StorageInv, StorageTypeOK
  <2>2. StorageInv'
    BY <1>7, <2>1, CandidatesKept DEF storageVars, StorageInv
  <2>3. ReadyIsThere
    BY <1>7 DEF storageVars, ReadyIsThere
  <2> QED BY <2>2, <2>3
<1> QED BY <1>1, <1>2, <1>3, <1>4, <1>5, <1>6, <1>7 DEF StorageNext

\* However an upload's completion is timed against edits of its provider, what
\* becomes ready is where the provider points: completePlatformUpload,
\* completeTenantUpload and registerPlatformSourceObject.
THEOREM ReadyMediaAreThere == StorageSpec => ReadyIsWhereItPoints
<1>1. StorageInv /\ [StorageNext]_storageVars => [ReadyIsThere]_storageVars
  BY StorageStep
<1>2. StorageInv /\ [StorageNext]_storageVars => StorageInv'
  BY StorageStep
<1> QED BY <1>1, <1>2, StorageInitially, PTL DEF StorageSpec, ReadyIsWhereItPoints, ReadyIsThere

-----------------------------------------------------------------------------
(* Routing: the configuration that a payment is made with.               *)

(* Payment routing.                                                      *)

\* Credentials of Stripe are numbered from 1, and a configuration of Stripe that is
\* active has proven its present ones.
ConfigIsSound(c, row, answers) ==
  /\ row.secret <= MaxSecrets
  /\ row.made <=> row.secret > 0
  /\ row.active => row.made
  /\ ProviderStateHolds(row)
  /\ row.test = "passed" => <<c, row.tested>> \in answers

ConfigsAreSound == \A c \in StripeConfigs : ConfigIsSound(c, payConfig[c], taken)

\* A test that has its answer knows what the provider said.
TestsTellTheTruth ==
  \A t \in Testers : testing[t] # NoTest /\ testing[t].step = "answered" /\ testing[t].passed
    => <<testing[t].config, testing[t].secret>> \in taken

Fitting(m, mode, c) ==
  IF mode = "platform_collect" THEN PayOwner[c] = Headquarters ELSE PayOwner[c] = m

RoutesFit == \A m \in Shops : route[m] # NoRoute => Fitting(m, route[m].mode, route[m].config)

\* A payment has one of the credentials its configuration has had.
PaymentsFit ==
  \A p \in Payments : payment[p] # NoPayment =>
    /\ Fitting(payment[p].shop, payment[p].mode, payment[p].config)
    /\ payment[p].config \in StripeConfigs =>
         /\ <<payment[p].config, payment[p].secret>> \in taken
         /\ payment[p].secret \in 1 .. payConfig[payment[p].config].secret

RoutingInv ==
  RoutingTypeOK /\ ConfigsAreSound /\ TestsTellTheTruth /\ RoutesFit /\ PaymentsFit

LEMMA RoutingInitially == RoutingInit => RoutingInv
<1> SUFFICES ASSUME RoutingInit PROVE RoutingInv
  OBVIOUS
<1> USE SecretsAssumption, StripeAssumption DEF RoutingInit
<1>1. RoutingTypeOK
  BY DEF RoutingTypeOK, PayConfigRow, TestStatus
<1>2. ConfigsAreSound
  BY DEF ConfigsAreSound, ConfigIsSound, ProviderStateHolds
<1>3. TestsTellTheTruth /\ RoutesFit /\ PaymentsFit
  BY DEF TestsTellTheTruth, RoutesFit, PaymentsFit
<1> QED BY <1>1, <1>2, <1>3 DEF RoutingInv

\* A row whose fields are changed within their types is a row.
LEMMA RowsChange ==
  ASSUME NEW row \in PayConfigRow, NEW active \in BOOLEAN, NEW test \in TestStatus,
         NEW tested \in Nat, NEW version \in Nat, NEW secret \in Nat
  PROVE  /\ [row EXCEPT !.active = active, !.version = version] \in PayConfigRow
         /\ [row EXCEPT !.test = test, !.tested = tested, !.version = version] \in PayConfigRow
         /\ [row EXCEPT !.active = active, !.test = test, !.tested = tested,
                        !.version = version, !.secret = secret] \in PayConfigRow
BY DEF PayConfigRow

\* What a step may do to a configuration and to the tests that run.
LEMMA ConfigChanges ==
  ASSUME RoutingInv, NEW c \in PayConfigs, NEW row \in PayConfigRow,
         payConfig' = [payConfig EXCEPT ![c] = row],
         UNCHANGED <<lapsed, taken, route, payment>>,
         RoutingTypeOK',
         \A t \in Testers : testing'[t] # NoTest => testing'[t] = testing[t],
         c \in StripeConfigs =>
           ConfigIsSound(c, row, taken) /\ row.secret >= payConfig[c].secret
  PROVE  RoutingInv'
<1> USE DEF RoutingInv
<1>1. payConfig \in [PayConfigs -> PayConfigRow] /\ payConfig'[c] = row
  BY DEF RoutingTypeOK
<1>2. \A d \in PayConfigs \ {c} : payConfig'[d] = payConfig[d]
  BY <1>1
<1>3. ConfigsAreSound'
  <2> SUFFICES ASSUME NEW d \in StripeConfigs PROVE ConfigIsSound(d, payConfig'[d], taken)
    BY DEF ConfigsAreSound, ConfigIsSound, ProviderStateHolds
  <2> QED BY <1>1, <1>2, StripeAssumption DEF ConfigsAreSound
<1>4. TestsTellTheTruth'
  BY DEF TestsTellTheTruth
<1>5. RoutesFit'
  BY DEF RoutesFit
<1>6. PaymentsFit'
  <2> SUFFICES ASSUME NEW p \in Payments, payment[p] # NoPayment,
                      payment[p].config \in StripeConfigs
               PROVE  payment[p].secret \in 1 .. payConfig'[payment[p].config].secret
    BY DEF PaymentsFit
  <2>1. payment[p].secret \in 1 .. payConfig[payment[p].config].secret
    BY DEF PaymentsFit
  <2>2. payConfig[payment[p].config].secret \in Nat /\ row.secret \in Nat
    BY <1>1, StripeAssumption DEF PayConfigRow
  <2> QED BY <1>1, <1>2, <2>1, <2>2, StripeAssumption
<1> QED BY <1>3, <1>4, <1>5, <1>6

LEMMA RoutingStep == RoutingInv /\ [RoutingNext]_routingVars => RoutingInv'
<1> SUFFICES ASSUME RoutingInv, [RoutingNext]_routingVars PROVE RoutingInv'
  OBVIOUS
<1>0. /\ RoutingTypeOK /\ ConfigsAreSound /\ TestsTellTheTruth /\ RoutesFit /\ PaymentsFit
      /\ payConfig \in [PayConfigs -> PayConfigRow]
  BY DEF RoutingInv, RoutingTypeOK
<1> USE SecretsAssumption, StripeAssumption
<1>1. ASSUME NEW c \in PayConfigs, CreateStripeConfig(c) PROVE RoutingInv'
  <2> DEFINE row == [made |-> TRUE, active |-> FALSE, test |-> "untested",
                     tested |-> 0, version |-> 0, secret |-> 1]
  <2>1. row \in PayConfigRow
    BY DEF PayConfigRow, TestStatus
  <2>2. payConfig' = [payConfig EXCEPT ![c] = row]
    BY <1>1 DEF CreateStripeConfig
  <2>3. ConfigIsSound(c, row, taken)
    BY DEF ConfigIsSound, ProviderStateHolds
  <2>0. ConfigIsSound(c, payConfig[c], taken) /\ ~payConfig[c].made /\ payConfig[c].secret \in Nat
    BY <1>0, <1>1 DEF CreateStripeConfig, ConfigsAreSound, PayConfigRow
  <2>4. row.secret >= payConfig[c].secret
    BY <2>0 DEF ConfigIsSound
  <2> HIDE DEF row
  <2>5. RoutingTypeOK'
    BY <1>0, <1>1, <2>1, <2>2 DEF CreateStripeConfig, RoutingTypeOK
  <2>6. UNCHANGED <<lapsed, taken, testing, route, payment>>
    BY <1>1 DEF CreateStripeConfig
  <2> QED BY <2>1, <2>2, <2>3, <2>4, <2>5, <2>6, ConfigChanges
<1>2. ASSUME NEW c \in PayConfigs, CreateFakeConfig(c) PROVE RoutingInv'
  <2> DEFINE row == [payConfig[c] EXCEPT !.made = TRUE, !.active = TRUE]
  <2>0. payConfig[c] \in PayConfigRow
    BY <1>0
  <2>1. row \in PayConfigRow
    BY <2>0 DEF PayConfigRow
  <2>2. payConfig' = [payConfig EXCEPT ![c] = row]
    BY <1>0, <1>2 DEF CreateFakeConfig
  <2> HIDE DEF row
  <2>5. RoutingTypeOK'
    BY <1>0, <1>2, <2>1, <2>2 DEF CreateFakeConfig, RoutingTypeOK
  <2>6. c \notin StripeConfigs /\ UNCHANGED <<lapsed, taken, testing, route, payment>>
    BY <1>2 DEF CreateFakeConfig
  <2> QED BY <1>2, <2>1, <2>2, <2>5, <2>6, ConfigChanges
<1>3. ASSUME NEW c \in PayConfigs, RotateCredentials(c) PROVE RoutingInv'
  <2> DEFINE row == [payConfig[c] EXCEPT !.active = FALSE, !.test = "untested", !.tested = 0,
                       !.version = payConfig[c].version + 1, !.secret = payConfig[c].secret + 1]
  <2>0. payConfig[c] \in PayConfigRow
    BY <1>0
  <2>1. row \in PayConfigRow
    <3>1. payConfig[c].version + 1 \in Nat /\ payConfig[c].secret + 1 \in Nat
      BY <2>0 DEF PayConfigRow
    <3>2. FALSE \in BOOLEAN /\ "untested" \in TestStatus /\ 0 \in Nat
      BY DEF TestStatus
    <3> QED BY <2>0, <3>1, <3>2, RowsChange
  <2>2. payConfig' = [payConfig EXCEPT ![c] = row]
    BY <1>0, <1>3 DEF RotateCredentials
  <2>3. /\ row.secret = payConfig[c].secret + 1 /\ row.active = FALSE
        /\ row.test = "untested" /\ row.made = payConfig[c].made
    BY <2>0 DEF PayConfigRow
  <2> HIDE DEF row
  <2>4. payConfig[c].secret \in Nat /\ payConfig[c].made /\ payConfig[c].secret < MaxSecrets
    BY <1>3, <2>0 DEF RotateCredentials, StripeRow, RoomForSecret, PayConfigRow
  <2>5. ConfigIsSound(c, row, taken) /\ row.secret >= payConfig[c].secret
    BY <2>3, <2>4 DEF ConfigIsSound, ProviderStateHolds
  <2>6. RoutingTypeOK'
    BY <1>0, <1>3, <2>1, <2>2 DEF RotateCredentials, RoutingTypeOK
  <2>7. UNCHANGED <<lapsed, taken, testing, route, payment>>
    BY <1>3 DEF RotateCredentials
  <2> QED BY <2>1, <2>2, <2>5, <2>6, <2>7, ConfigChanges
<1>4. ASSUME NEW c \in PayConfigs, NEW v \in 1 .. MaxSecrets, GraceEnds(c, v) PROVE RoutingInv'
  <2>1. RoutingTypeOK'
    BY <1>0, <1>4 DEF GraceEnds, RoutingTypeOK, Secrets
  <2>2. UNCHANGED <<payConfig, taken, testing, route, payment>>
    BY <1>4 DEF GraceEnds
  <2> QED BY <1>0, <2>1, <2>2
          DEF RoutingInv, ConfigsAreSound, TestsTellTheTruth, RoutesFit, PaymentsFit
<1>5. ASSUME NEW c \in PayConfigs, NEW enabled \in BOOLEAN, SetConfigEnabled(c, enabled)
      PROVE  RoutingInv'
  <2> DEFINE row == [payConfig[c] EXCEPT !.active = enabled, !.version = @ + 1]
  <2>0. payConfig[c] \in PayConfigRow /\ payConfig[c].version \in Nat
    BY <1>0 DEF PayConfigRow
  <2>1. row \in PayConfigRow
    <3>1. payConfig[c].version + 1 \in Nat
      BY <2>0
    <3>2. "untested" \in TestStatus /\ 0 \in Nat
      BY DEF TestStatus
    <3> QED BY <2>0, <3>1, <3>2, RowsChange
  <2>2. payConfig' = [payConfig EXCEPT ![c] = row] /\ ProviderStateHolds(row)
    BY <1>5 DEF SetConfigEnabled
  <2>3. /\ row.secret = payConfig[c].secret /\ row.made = payConfig[c].made
        /\ row.test = payConfig[c].test /\ row.tested = payConfig[c].tested
    BY <2>0 DEF PayConfigRow
  <2> HIDE DEF row
  <2>4. c \in StripeConfigs /\ payConfig[c].made /\ payConfig[c].secret \in Nat
    BY <1>5, <2>0 DEF SetConfigEnabled, StripeRow, PayConfigRow
  <2>5. ConfigIsSound(c, row, taken) /\ row.secret >= payConfig[c].secret
    BY <1>0, <2>2, <2>3, <2>4 DEF ConfigsAreSound, ConfigIsSound
  <2>6. RoutingTypeOK'
    BY <1>0, <1>5, <2>1, <2>2 DEF SetConfigEnabled, RoutingTypeOK
  <2>7. UNCHANGED <<lapsed, taken, testing, route, payment>>
    BY <1>5 DEF SetConfigEnabled
  <2> QED BY <2>1, <2>2, <2>5, <2>6, <2>7, ConfigChanges
<1>6. ASSUME NEW c \in PayConfigs, NEW t \in Testers, BeginTest(t, c) PROVE RoutingInv'
  <2> DEFINE test == [step |-> "calling", config |-> c, passed |-> FALSE,
                      version |-> payConfig[c].version, secret |-> payConfig[c].secret]
  <2>0. payConfig[c].version \in Nat /\ payConfig[c].secret \in Nat /\ c \in StripeConfigs
    BY <1>0, <1>6 DEF PayConfigRow, BeginTest, StripeRow
  <2>1. test \in TestRow /\ test.step = "calling"
    BY <2>0 DEF TestRow
  <2>2. testing' = [testing EXCEPT ![t] = test]
    BY <1>6 DEF BeginTest
  <2> HIDE DEF test
  <2>3. UNCHANGED <<payConfig, lapsed, taken, route, payment>>
    BY <1>6 DEF BeginTest
  <2>4. RoutingTypeOK'
    BY <1>0, <2>1, <2>2, <2>3 DEF RoutingTypeOK
  <2>5. TestsTellTheTruth'
    BY <1>0, <2>1, <2>2, <2>3 DEF TestsTellTheTruth, RoutingTypeOK
  <2> QED BY <1>0, <2>3, <2>4, <2>5 DEF RoutingInv, ConfigsAreSound, RoutesFit, PaymentsFit
<1>7. ASSUME NEW m \in Shops, NEW mode \in CollectMode, NEW c \in PayConfigs,
             SetTenantRouting(m, mode, c)
      PROVE  RoutingInv'
  <2> DEFINE row == [mode |-> mode, config |-> c]
  <2>1. row \in RouteRow /\ row.mode = mode /\ row.config = c
    BY DEF RouteRow
  <2>2. route' = [route EXCEPT ![m] = row]
    BY <1>7 DEF SetTenantRouting
  <2> HIDE DEF row
  <2>3. UNCHANGED <<payConfig, lapsed, taken, testing, payment>>
    BY <1>7 DEF SetTenantRouting
  <2>4. RoutingTypeOK'
    BY <1>0, <2>1, <2>2, <2>3 DEF RoutingTypeOK
  <2>5. Fitting(m, mode, c)
    BY <1>7 DEF SetTenantRouting, RouteFits, Fitting
  <2>6. RoutesFit'
    BY <1>0, <2>1, <2>2, <2>5 DEF RoutesFit, RoutingTypeOK
  <2> QED BY <1>0, <2>3, <2>4, <2>6
          DEF RoutingInv, ConfigsAreSound, TestsTellTheTruth, PaymentsFit
<1>8. ASSUME NEW t \in Testers, NEW passed \in BOOLEAN, AnswerTest(t, passed) PROVE RoutingInv'
  <2> DEFINE test == [testing[t] EXCEPT !.step = "answered", !.passed = passed]
  <2>0. testing[t] \in TestRow
    BY <1>0, <1>8 DEF AnswerTest, RoutingTypeOK
  <2>1. /\ test \in TestRow /\ test.config = testing[t].config
        /\ test.secret = testing[t].secret /\ (test.passed <=> passed)
    BY <2>0 DEF TestRow
  <2>2. testing' = [testing EXCEPT ![t] = test]
    BY <1>0, <1>8 DEF AnswerTest, RoutingTypeOK
  <2> HIDE DEF test
  <2>3. UNCHANGED <<payConfig, lapsed, route, payment>> /\ taken \subseteq taken'
    BY <1>8 DEF AnswerTest
  <2>4. passed => <<testing[t].config, testing[t].secret>> \in taken'
    BY <1>8 DEF AnswerTest
  <2>5. taken' \subseteq Secrets
    BY <1>0, <1>8, <2>0 DEF AnswerTest, RoutingTypeOK, TestRow, Secrets
  <2>6. RoutingTypeOK'
    BY <1>0, <2>1, <2>2, <2>3, <2>5 DEF RoutingTypeOK
  <2>7. TestsTellTheTruth'
    BY <1>0, <2>1, <2>2, <2>3, <2>4 DEF TestsTellTheTruth, RoutingTypeOK
  <2>8. ConfigsAreSound'
    BY <1>0, <2>3 DEF ConfigsAreSound, ConfigIsSound
  <2> QED BY <1>0, <2>3, <2>6, <2>7, <2>8 DEF RoutingInv, RoutesFit, PaymentsFit
<1>9. ASSUME NEW t \in Testers, RecordTest(t) PROVE RoutingInv'
  <2> DEFINE test == testing[t]
             c == test.config
             newStatus == IF test.passed THEN "passed" ELSE "failed"
             row == [payConfig[c] EXCEPT !.test = newStatus,
                                         !.tested = test.secret, !.version = @ + 1]
  <2>0. test \in TestRow /\ c \in StripeConfigs /\ test.secret \in Nat
    BY <1>0, <1>9 DEF RecordTest, RoutingTypeOK, TestRow
  <2>1. payConfig[c] \in PayConfigRow /\ payConfig[c].version \in Nat
    BY <1>0, <2>0 DEF PayConfigRow
  <2>4. payConfig' = [payConfig EXCEPT ![c] = row] /\ ProviderStateHolds(row)
    BY <1>9 DEF RecordTest
  <2>11. newStatus \in TestStatus /\ (newStatus = "passed" => test.passed)
    BY DEF TestStatus
  <2> HIDE DEF newStatus
  <2>2. row \in PayConfigRow
    <3>1. payConfig[c].version + 1 \in Nat
      BY <2>1
    <3> QED BY <2>0, <2>1, <2>11, <3>1, RowsChange
  <2>12. /\ row.secret = payConfig[c].secret /\ row.made = payConfig[c].made
         /\ row.active = payConfig[c].active /\ row.tested = test.secret
         /\ row.test = newStatus
    BY <2>0, <2>1 DEF PayConfigRow
  <2>3. row.test = "passed" => test.passed
    BY <2>11, <2>12
  <2> HIDE DEF row
  <2>5. /\ payConfig[c].made /\ payConfig[c].secret \in Nat
        /\ test # NoTest /\ test.step = "answered"
    BY <1>9, <2>1 DEF RecordTest, StripeRow, PayConfigRow
  <2>6. test.passed => <<c, test.secret>> \in taken
    BY <1>0, <2>5 DEF TestsTellTheTruth
  <2>13. ConfigIsSound(c, payConfig[c], taken)
    BY <1>0, <2>0 DEF ConfigsAreSound
  <2>7. ConfigIsSound(c, row, taken) /\ row.secret >= payConfig[c].secret
    <3>1. row.secret <= MaxSecrets /\ row.secret >= payConfig[c].secret
      BY <2>5, <2>12, <2>13 DEF ConfigIsSound
    <3>2. row.made /\ row.secret > 0
      BY <2>5, <2>12, <2>13 DEF ConfigIsSound
    <3>3. row.test = "passed" => <<c, row.tested>> \in taken
      BY <2>3, <2>6, <2>12
    <3> QED BY <2>4, <3>1, <3>2, <3>3 DEF ConfigIsSound
  <2>8. UNCHANGED <<lapsed, taken, route, payment>> /\ testing' = [testing EXCEPT ![t] = NoTest]
    BY <1>9 DEF RecordTest
  <2>9. RoutingTypeOK'
    BY <1>0, <2>0, <2>2, <2>4, <2>8 DEF RoutingTypeOK
  <2>10. \A u \in Testers : testing'[u] # NoTest => testing'[u] = testing[u]
    BY <1>0, <2>8 DEF RoutingTypeOK
  <2> HIDE DEF c, test
  <2> QED BY <2>0, <2>2, <2>4, <2>7, <2>8, <2>9, <2>10, ConfigChanges
<1>10. ASSUME NEW t \in Testers, EndTest(t) PROVE RoutingInv'
  <2>1. RoutingTypeOK' /\ TestsTellTheTruth'
    BY <1>0, <1>10 DEF EndTest, RoutingTypeOK, TestsTellTheTruth
  <2>2. UNCHANGED <<payConfig, lapsed, taken, route, payment>>
    BY <1>10 DEF EndTest
  <2> QED BY <1>0, <2>1, <2>2 DEF RoutingInv, ConfigsAreSound, RoutesFit, PaymentsFit
<1>11. ASSUME NEW p \in Payments, NEW m \in Shops, PickConfiguration(p, m) PROVE RoutingInv'
  <2> DEFINE c == route[m].config
             row == [shop |-> m, mode |-> route[m].mode, config |-> route[m].config,
                     secret |-> payConfig[route[m].config].secret]
  <2>0. route[m] # NoRoute /\ route[m] \in RouteRow /\ payConfig[c].active
    BY <1>0, <1>11 DEF PickConfiguration, RoutingTypeOK
  <2>1. c \in PayConfigs /\ route[m].mode \in CollectMode /\ payConfig[c].secret \in Nat
    BY <1>0, <2>0 DEF RouteRow, PayConfigRow
  <2>2. /\ row \in PaymentRow /\ row.config = c /\ row.secret = payConfig[c].secret
        /\ row.shop = m /\ row.mode = route[m].mode
    BY <2>1 DEF PaymentRow
  <2>3. payment' = [payment EXCEPT ![p] = row]
    BY <1>11 DEF PickConfiguration
  <2> HIDE DEF row
  <2>4. UNCHANGED <<payConfig, lapsed, taken, testing, route>>
    BY <1>11 DEF PickConfiguration
  <2>5. Fitting(m, route[m].mode, c)
    BY <1>0, <2>0 DEF RoutesFit
  <2>9. c \in StripeConfigs => ConfigIsSound(c, payConfig[c], taken)
    BY <1>0 DEF ConfigsAreSound
  <2>6. c \in StripeConfigs => /\ <<c, payConfig[c].secret>> \in taken
                               /\ payConfig[c].secret \in 1 .. payConfig[c].secret
    BY <2>0, <2>1, <2>9 DEF ConfigIsSound, ProviderStateHolds
  <2> HIDE DEF c
  <2>7. PaymentsFit'
    <3> SUFFICES ASSUME NEW q \in Payments, payment'[q] # NoPayment
                 PROVE  /\ Fitting(payment'[q].shop, payment'[q].mode, payment'[q].config)
                        /\ payment'[q].config \in StripeConfigs =>
                             /\ <<payment'[q].config, payment'[q].secret>> \in taken
                             /\ payment'[q].secret \in 1 .. payConfig[payment'[q].config].secret
      BY <2>4 DEF PaymentsFit, Fitting
    <3>1. CASE q = p
      BY <1>0, <2>2, <2>3, <2>5, <2>6, <3>1 DEF RoutingTypeOK
    <3>2. CASE q # p
      BY <1>0, <2>3, <3>2 DEF RoutingTypeOK, PaymentsFit
    <3> QED BY <3>1, <3>2
  <2>8. RoutingTypeOK'
    BY <1>0, <2>2, <2>3, <2>4 DEF RoutingTypeOK
  <2> QED BY <1>0, <2>4, <2>7, <2>8
          DEF RoutingInv, ConfigsAreSound, TestsTellTheTruth, RoutesFit
<1>12. CASE UNCHANGED routingVars
  BY <1>0, <1>12 DEF routingVars, RoutingInv, RoutingTypeOK, ConfigsAreSound, TestsTellTheTruth,
                     RoutesFit, PaymentsFit
<1> QED BY <1>1, <1>2, <1>3, <1>4, <1>5, <1>6, <1>7, <1>8, <1>9, <1>10, <1>11, <1>12
        DEF RoutingNext

\* The webhook handler tries every credential a payment was made with.
LEMMA HeardOfAll ==
  ASSUME RoutingInv, NEW c \in StripeConfigs, NEW v \in 1 .. payConfig[c].secret,
         <<c, v>> \notin lapsed
  PROVE  v \in Verifying(c)
<1> DEFINE later == {w \in LiveSecrets(c) : w > v}
<1>1. payConfig[c].secret \in Nat /\ payConfig[c].secret <= MaxSecrets /\ MaxSecrets \in Nat
  BY StripeAssumption, SecretsAssumption
     DEF RoutingInv, RoutingTypeOK, PayConfigRow, ConfigsAreSound, ConfigIsSound
<1>2. v \in LiveSecrets(c)
  BY DEF LiveSecrets
<1>3. later \subseteq v + 1 .. payConfig[c].secret
  BY <1>1 DEF LiveSecrets
<1>7. v \in Int /\ v + 1 \in Int /\ payConfig[c].secret \in Int
  BY <1>1
<1>4. /\ IsFiniteSet(v + 1 .. payConfig[c].secret)
      /\ Cardinality(v + 1 .. payConfig[c].secret)
           = IF v + 1 > payConfig[c].secret THEN 0 ELSE payConfig[c].secret - (v + 1) + 1
  BY <1>7, FS_Interval
<1>5. IsFiniteSet(later) /\ Cardinality(later) <= Cardinality(v + 1 .. payConfig[c].secret)
  BY <1>3, <1>4, FS_Subset
<1>6. Cardinality(later) \in Nat
  BY <1>5, FS_CardinalityType
<1>8. Cardinality(later) < MaxSecrets
  BY <1>1, <1>4, <1>5, <1>6, <1>7
<1> QED BY <1>2, <1>8 DEF Verifying

\* Of any number of merchants, configurations and tests: whoever pays, pays to the
\* account that is meant, with credentials the provider has taken and, as long as
\* they verify at all, that the webhook handler tries.
THEOREM PaymentsFounded == RoutingSpec => []PaymentsAreFounded
<1>1. RoutingInv => PaymentsAreFounded
  <2> SUFFICES ASSUME RoutingInv, NEW p \in Payments, payment[p] # NoPayment
               PROVE  LET c == payment[p].config
                          v == payment[p].secret
                      IN
                      /\ payment[p].mode = "platform_collect" => PayOwner[c] = Headquarters
                      /\ payment[p].mode = "tenant_direct" => PayOwner[c] = payment[p].shop
                      /\ c \in StripeConfigs =>
                           /\ <<c, v>> \in taken
                           /\ v \in Verifying(c) \/ <<c, v>> \in lapsed
    BY DEF PaymentsAreFounded
  <2>1. /\ Fitting(payment[p].shop, payment[p].mode, payment[p].config)
        /\ payment[p].config \in StripeConfigs =>
             /\ <<payment[p].config, payment[p].secret>> \in taken
             /\ payment[p].secret \in 1 .. payConfig[payment[p].config].secret
    BY DEF RoutingInv, PaymentsFit
  <2> QED BY <2>1, HeardOfAll DEF Fitting
<1> QED BY <1>1, RoutingInitially, RoutingStep, PTL DEF RoutingSpec

-----------------------------------------------------------------------------
(* Push campaigns: each worker that may still push is accounted for.     *)

\* The places at which a worker may still give its push to the provider, and those
\* where it no longer asks whether the campaign was cancelled.
Unsent      == {"claimed", "eligible", "current", "bound"}
Unstoppable == {"current", "bound"}

Place == [at: {"idle", "expanding", "stopped"}]
         \cup [at: Unsent \cup {"pushed", "failed"}, account: Accounts]

Open    == {"none", "pending", "retry", "processing"}
PushRow == [status: Open \cup {"sent", "skipped", "dead_letter"}, attempts: Nat, lapsed: BOOLEAN]

CampaignTypeOK ==
  /\ campaign \in {"draft", "scheduled", "dispatching", "completed", "cancelled"}
  /\ recipients \subseteq Accounts
  /\ push \in [Accounts -> PushRow]
  /\ pushes \in [Accounts -> Nat]
  /\ pusher \in [Pushers -> Place]
  /\ atCancel \in [Accounts -> Nat]

\* A delivery that will be tried again has attempts left; only claims lapse.
RowIsSound(p) ==
  /\ p.lapsed => p.status = "processing"
  /\ p.status \in Open => p.attempts < MaxPushAttempts

\* The pushes a delivery may have led to by now: one for each attempt it counts, and
\* one for the claim that it does not count yet.
Allows(p) == IF p.status = "processing" THEN p.attempts + 1
             ELSE IF p.status \in Open THEN p.attempts ELSE MaxPushAttempts

Holders(a, places) == {w \in Pushers : pusher[w].at \in places /\ pusher[w].account = a}

\* Workers that lost their claims are counted with those that hold one.
Budget(a) == pushes[a] + Cardinality(Holders(a, Unsent)) <= Allows(push[a])

\* No worker has been given a push to somebody whom the campaign was not expanded to.
Unaddressed(a) == push[a] = NoPush /\ pushes[a] = 0 /\ Holders(a, Unsent) = {}

AccountKept(a) ==
  /\ RowIsSound(push[a])
  /\ Budget(a)
  /\ a \notin recipients => Unaddressed(a)
  /\ campaign = "cancelled" => pushes[a] + Cardinality(Holders(a, Unstoppable)) <= atCancel[a]

CampaignInv == CampaignTypeOK /\ \A a \in Accounts : AccountKept(a)

\* Holders are finitely many.
LEMMA HoldersAreFinite ==
  ASSUME NEW a, NEW places
  PROVE  /\ IsFiniteSet(Holders(a, places)) /\ Cardinality(Holders(a, places)) \in Nat
         /\ IsFiniteSet(Holders(a, places)') /\ Cardinality(Holders(a, places)') \in Nat
<1>1. Holders(a, places) \in SUBSET Pushers /\ Holders(a, places)' \in SUBSET Pushers
  BY DEF Holders
<1>2. ASSUME NEW T \in SUBSET Pushers PROVE IsFiniteSet(T) /\ Cardinality(T) \in Nat
  BY FS_Subset, FS_CardinalityType, PushersAssumption
<1>3. PICK T \in SUBSET Pushers : T = Holders(a, places)
  BY <1>1
<1>4. PICK U \in SUBSET Pushers : U = Holders(a, places)'
  BY <1>1
<1> QED BY <1>2, <1>3, <1>4

\* How the number of holders moves when one worker does.
LEMMA OneWorkerMoves ==
  ASSUME NEW w \in Pushers, NEW a, NEW places,
         \A v \in Pushers \ {w} : pusher'[v] = pusher[v]
  PROVE  LET had == pusher[w].at \in places /\ pusher[w].account = a
             has == pusher'[w].at \in places /\ pusher'[w].account = a
             m   == Cardinality(Holders(a, places))
             n   == Cardinality(Holders(a, places)')
         IN /\ m \in Nat /\ n \in Nat
            /\ n <= m + 1
            /\ had \/ ~has => n <= m
            /\ had /\ ~has => n + 1 <= m
<1>1. ASSUME NEW S \in SUBSET Pushers, NEW T \in SUBSET Pushers, S \cup {w} = T \cup {w}
      PROVE  /\ Cardinality(S) \in Nat /\ Cardinality(T) \in Nat
             /\ Cardinality(T) <= Cardinality(S) + 1
             /\ w \in S \/ w \notin T => Cardinality(T) <= Cardinality(S)
             /\ w \in S /\ w \notin T => Cardinality(T) + 1 <= Cardinality(S)
  <2>1. /\ IsFiniteSet(S) /\ Cardinality(S) \in Nat
        /\ IsFiniteSet(T) /\ Cardinality(T) \in Nat
    BY FS_Subset, FS_CardinalityType, PushersAssumption
  <2>2. IsFiniteSet(T \ {w}) /\ Cardinality(T \ {w}) \in Nat
    BY <2>1, FS_Subset, FS_CardinalityType
  <2>3. T \ {w} = S \ {w}
    BY <1>1
  <2>4. Cardinality(T) = IF w \in T THEN Cardinality(T \ {w}) + 1 ELSE Cardinality(T \ {w})
    <3>1. CASE w \in T
      BY <2>1, <2>2, <3>1, FS_RemoveElement
    <3>2. CASE w \notin T
      <4>1. T \ {w} = T
        BY <3>2
      <4> QED BY <4>1, <3>2
    <3> QED BY <3>1, <3>2
  <2>5. Cardinality(S) = IF w \in S THEN Cardinality(S \ {w}) + 1 ELSE Cardinality(S \ {w})
    <3>1. CASE w \in S
      <4>1. IsFiniteSet(S \ {w}) /\ Cardinality(S \ {w}) \in Nat
        BY <2>2, <2>3
      <4> QED BY <2>1, <4>1, <3>1, FS_RemoveElement
    <3>2. CASE w \notin S
      <4>1. S \ {w} = S
        BY <3>2
      <4> QED BY <4>1, <3>2
    <3> QED BY <3>1, <3>2
  <2>6. Cardinality(S \ {w}) = Cardinality(T \ {w})
    BY <2>3
  <2> QED BY <2>1, <2>2, <2>4, <2>5, <2>6
<1>2. PICK S \in SUBSET Pushers : S = Holders(a, places)
  BY DEF Holders
<1>3. PICK T \in SUBSET Pushers : T = Holders(a, places)'
  BY DEF Holders
<1>4. S \cup {w} = T \cup {w}
  BY <1>2, <1>3 DEF Holders
<1>5. /\ w \in S <=> pusher[w].at \in places /\ pusher[w].account = a
      /\ w \in T <=> pusher'[w].at \in places /\ pusher'[w].account = a
  BY <1>2, <1>3 DEF Holders
<1> QED BY <1>1, <1>2, <1>3, <1>4, <1>5

\* What becomes of a claimed row keeps it sound and takes back nothing it allows.
LEMMA RowsEndSoundly ==
  ASSUME NEW p \in PushRow, RowIsSound(p), p.status = "processing", NEW q,
         \/ \E s \in {"sent", "skipped", "dead_letter"} : q = [p EXCEPT !.status = s, !.lapsed = FALSE]
         \/ q = [p EXCEPT !.status = "dead_letter", !.lapsed = FALSE, !.attempts = @ + 1]
         \/ q = [status   |-> IF p.attempts + 1 >= MaxPushAttempts THEN "dead_letter" ELSE "retry",
                 attempts |-> p.attempts + 1, lapsed |-> FALSE]
         \/ q = [status |-> "dead_letter", attempts |-> MaxPushAttempts, lapsed |-> FALSE]
  PROVE  q \in PushRow /\ RowIsSound(q) /\ Allows(p) <= Allows(q)
<1>1. p = [status |-> "processing", attempts |-> p.attempts, lapsed |-> p.lapsed]
      /\ p.attempts \in Nat /\ p.attempts < MaxPushAttempts /\ MaxPushAttempts \in Nat \ {0}
  BY CampaignAssumption DEF PushRow, RowIsSound, Open
<1>2. Allows(p) = p.attempts + 1
  BY DEF Allows
<1>3. CASE \E s \in {"sent", "skipped", "dead_letter"} : q = [p EXCEPT !.status = s, !.lapsed = FALSE]
  <2>1. PICK s \in {"sent", "skipped", "dead_letter"} :
          q = [status |-> s, attempts |-> p.attempts, lapsed |-> FALSE]
    BY <1>1, <1>3
  <2> QED BY <1>1, <1>2, <2>1 DEF PushRow, RowIsSound, Allows, Open
<1>4. CASE q = [p EXCEPT !.status = "dead_letter", !.lapsed = FALSE, !.attempts = @ + 1]
  <2>1. q = [status |-> "dead_letter", attempts |-> p.attempts + 1, lapsed |-> FALSE]
    BY <1>1, <1>4
  <2> QED BY <1>1, <1>2, <2>1 DEF PushRow, RowIsSound, Allows, Open
<1>5. CASE q = [status   |-> IF p.attempts + 1 >= MaxPushAttempts THEN "dead_letter" ELSE "retry",
                attempts |-> p.attempts + 1, lapsed |-> FALSE]
  BY <1>1, <1>2, <1>5 DEF PushRow, RowIsSound, Allows, Open
<1>6. CASE q = [status |-> "dead_letter", attempts |-> MaxPushAttempts, lapsed |-> FALSE]
  BY <1>1, <1>2, <1>6 DEF PushRow, RowIsSound, Allows, Open
<1> QED BY <1>3, <1>4, <1>5, <1>6

Has(w, a, places) == pusher[w].at \in places /\ pusher[w].account = a

\* A step of one worker, seen from one account.
LEMMA WorkerKeepsAccount ==
  ASSUME CampaignTypeOK, CampaignTypeOK', NEW w \in Pushers,
         \A v \in Pushers \ {w} : pusher'[v] = pusher[v],
         NEW a \in Accounts, AccountKept(a), RowIsSound(push'[a]), atCancel'[a] = atCancel[a],
         campaign' = "cancelled" => campaign = "cancelled",
         a \notin recipients' => /\ a \notin recipients
                                 /\ push'[a] = push[a] /\ pushes'[a] = pushes[a]
                                 /\ ~Has(w, a, Unsent)',
         \/ /\ Allows(push[a]) <= Allows(push'[a]) /\ pushes'[a] = pushes[a]
            /\ Has(w, a, Unsent) \/ ~Has(w, a, Unsent)'
         \/ /\ Allows(push[a]) <= Allows(push'[a]) /\ pushes'[a] = pushes[a] + 1
            /\ Has(w, a, Unsent) /\ ~Has(w, a, Unsent)'
         \/ Allows(push[a]) + 1 <= Allows(push'[a]) /\ pushes'[a] = pushes[a],
         campaign' = "cancelled" =>
           \/ pushes'[a] = pushes[a] /\ (Has(w, a, Unstoppable) \/ ~Has(w, a, Unstoppable)')
           \/ /\ pushes'[a] = pushes[a] + 1
              /\ Has(w, a, Unstoppable) /\ ~Has(w, a, Unstoppable)'
  PROVE  AccountKept(a)'
<1>1. /\ pushes[a] \in Nat /\ pushes'[a] \in Nat /\ atCancel[a] \in Nat
      /\ Allows(push[a]) \in Nat /\ Allows(push'[a]) \in Nat
  BY CampaignAssumption DEF CampaignTypeOK, Allows, PushRow
<1> DEFINE m(places) == Cardinality(Holders(a, places))
           n(places) == Cardinality(Holders(a, places)')
<1>2. ASSUME NEW places
      PROVE  /\ m(places) \in Nat /\ n(places) \in Nat
             /\ n(places) <= m(places) + 1
             /\ Has(w, a, places) \/ ~Has(w, a, places)' => n(places) <= m(places)
             /\ Has(w, a, places) /\ ~Has(w, a, places)' => n(places) + 1 <= m(places)
  BY OneWorkerMoves DEF Has
<1>3. Budget(a)'
  <2>1. pushes[a] + m(Unsent) <= Allows(push[a])
    BY DEF AccountKept, Budget
  <2>2. Budget(a)' <=> pushes'[a] + n(Unsent) <= Allows(push'[a])
    BY DEF Budget, Allows
  <2> HIDE DEF m, n
  <2> QED BY <1>1, <1>2, <2>1, <2>2
<1>4. a \notin recipients' => Unaddressed(a)'
  <2> SUFFICES ASSUME a \notin recipients' PROVE Unaddressed(a)'
    OBVIOUS
  <2>1. push[a] = NoPush /\ pushes[a] = 0 /\ Holders(a, Unsent) = {}
    BY DEF AccountKept, Unaddressed
  <2>2. Holders(a, Unsent)' = {}
    BY <2>1 DEF Holders, Has
  <2> QED BY <2>1, <2>2 DEF Unaddressed, NoPush
<1>5. campaign' = "cancelled" => (pushes[a] + Cardinality(Holders(a, Unstoppable)) <= atCancel[a])'
  <2>1. campaign = "cancelled" => pushes[a] + m(Unstoppable) <= atCancel[a]
    BY DEF AccountKept
  <2>2. (pushes[a] + Cardinality(Holders(a, Unstoppable)) <= atCancel[a])'
           <=> pushes'[a] + n(Unstoppable) <= atCancel[a]
    OBVIOUS
  <2> HIDE DEF m, n
  <2> QED BY <1>1, <1>2, <2>1, <2>2
<1> QED BY <1>3, <1>4, <1>5 DEF AccountKept

LEMMA CampaignInitially == CampaignInit => CampaignInv
<1> SUFFICES ASSUME CampaignInit PROVE CampaignInv
  OBVIOUS
<1>1. CampaignTypeOK
  BY DEF CampaignInit, CampaignTypeOK, PushRow, Open, NoPush, Idle, Place
<1>2. ASSUME NEW a \in Accounts PROVE AccountKept(a)
  <2>1. Holders(a, Unsent) = {}
    BY DEF CampaignInit, Idle, Holders, Unsent
  <2>2. /\ push[a] = NoPush /\ pushes[a] = 0 /\ campaign = "draft"
    BY DEF CampaignInit
  <2>3. Cardinality(Holders(a, Unsent)) = 0
    BY <2>1, FS_EmptySet
  <2> QED
    BY <2>1, <2>2, <2>3, CampaignAssumption
    DEF AccountKept, RowIsSound, Budget, Allows, Unaddressed, NoPush, Open
<1> QED BY <1>1, <1>2 DEF CampaignInv

\* Steps in which no worker acts on a delivery.
LEMMA BystandersKeepCampaign ==
  ASSUME CampaignInv, UNCHANGED <<recipients, pushVars, atCancel>>,
         campaign' \in {campaign, "scheduled"},
         pusher' = pusher \/ \E w \in Pushers : \E here \in {"idle", "expanding", "stopped"} :
                               pusher' = [pusher EXCEPT ![w] = [at |-> here]]
  PROVE  CampaignInv'
<1>1. CampaignTypeOK'
  BY DEF CampaignInv, CampaignTypeOK, pushVars, Place
<1>2. ASSUME NEW a \in Accounts PROVE AccountKept(a)'
  <2>1. CASE pusher' = pusher
    BY <2>1 DEF CampaignInv, AccountKept, Budget, Unaddressed, Holders, pushVars
  <2>2. ASSUME NEW w \in Pushers, NEW here \in {"idle", "expanding", "stopped"},
               pusher' = [pusher EXCEPT ![w] = [at |-> here]]
        PROVE  AccountKept(a)'
    <3>1. /\ \A v \in Pushers \ {w} : pusher'[v] = pusher[v]
          /\ pusher'[w] = [at |-> here]
      BY <2>2 DEF CampaignInv, CampaignTypeOK
    <3>2. ~Has(w, a, Unsent)' /\ ~Has(w, a, Unstoppable)'
      BY <3>1 DEF Has, Unsent, Unstoppable
    <3>3. /\ push'[a] = push[a] /\ pushes'[a] = pushes[a] /\ atCancel'[a] = atCancel[a]
          /\ recipients' = recipients
      BY DEF pushVars
    <3>4. Allows(push[a]) <= Allows(push'[a])
      BY <3>3, CampaignAssumption DEF CampaignInv, CampaignTypeOK, Allows, PushRow
    <3>5. AccountKept(a) /\ RowIsSound(push[a])
      BY DEF CampaignInv, AccountKept
    <3> QED BY <1>1, <3>1, <3>2, <3>3, <3>4, <3>5, WorkerKeepsAccount DEF CampaignInv
  <2> QED BY <2>1, <2>2
<1> QED BY <1>1, <1>2 DEF CampaignInv

LEMMA CancelKeepsCampaign ==
  ASSUME CampaignInv, CancelCampaign PROVE CampaignInv'
<1>1. ASSUME NEW p \in PushRow PROVE [p EXCEPT !.status = "skipped"] \in PushRow
  BY DEF PushRow
<1>2. ASSUME NEW a \in Accounts
      PROVE  LET held == {w \in Pushers : Holds(w, a)} IN
             /\ Cardinality(held) \in Nat
             /\ Cardinality(Holders(a, Unstoppable)) <= Cardinality(held)
  <2>1. PICK T \in SUBSET Pushers : T = {w \in Pushers : Holds(w, a)}
    OBVIOUS
  <2>2. PICK S \in SUBSET Pushers : S = Holders(a, Unstoppable)
    BY DEF Holders
  <2>3. S \subseteq T
    BY <2>1, <2>2 DEF Holders, Holds, CampaignInv, CampaignTypeOK, Place, Unstoppable
  <2>4. IsFiniteSet(T) /\ Cardinality(T) \in Nat
    BY FS_Subset, FS_CardinalityType, PushersAssumption
  <2> QED BY <2>1, <2>2, <2>3, <2>4, FS_Subset
<1>3. /\ \A a \in Accounts : pushes[a] \in Nat /\ push[a] \in PushRow
      /\ recipients' = recipients /\ pushes' = pushes /\ pusher' = pusher
  BY DEF CampaignInv, CampaignTypeOK, CancelCampaign
<1>4. CampaignTypeOK'
  <2>1. push' \in [Accounts -> PushRow]
    BY <1>1, <1>3 DEF CancelCampaign
  <2>2. ASSUME NEW a \in Accounts
        PROVE  pushes[a] + Cardinality({w \in Pushers : Holds(w, a)}) \in Nat
    BY <1>2, <1>3
  <2>3. atCancel' \in [Accounts -> Nat]
    BY <2>2 DEF CancelCampaign
  <2> QED BY <1>3, <2>1, <2>3 DEF CampaignInv, CampaignTypeOK, CancelCampaign
<1>5. ASSUME NEW a \in Accounts PROVE AccountKept(a)'
  <2>1. PICK p \in PushRow : p = push[a]
    BY <1>3
  <2>2. push'[a] = IF p.status \in {"pending", "retry"} THEN [p EXCEPT !.status = "skipped"] ELSE p
    BY <2>1 DEF CancelCampaign
  <2>3. AccountKept(a)
    BY DEF CampaignInv
  <2>4. RowIsSound(push'[a]) /\ Allows(p) <= Allows(push'[a]) /\ Allows(p) \in Nat
           /\ Allows(push'[a]) \in Nat
    <3>1. RowIsSound(p)
      BY <2>1, <2>3 DEF AccountKept
    <3> QED BY <2>2, <3>1, CampaignAssumption DEF RowIsSound, Allows, PushRow, Open
  <2>5. p = NoPush => push'[a] = NoPush
    BY <2>2 DEF NoPush
  <2>6. Holders(a, Unsent)' = Holders(a, Unsent) /\ Holders(a, Unstoppable)' = Holders(a, Unstoppable)
    BY <1>3 DEF Holders
  <2>7. Cardinality(Holders(a, Unsent)) \in Nat /\ Cardinality(Holders(a, Unstoppable)) \in Nat
    BY HoldersAreFinite
  <2>8. Budget(a)'
    <3>1. pushes[a] + Cardinality(Holders(a, Unsent)) <= Allows(p)
      BY <2>1, <2>3 DEF AccountKept, Budget
    <3>2. pushes'[a] = pushes[a] /\ Cardinality(Holders(a, Unsent)') = Cardinality(Holders(a, Unsent))
      BY <1>3, <2>6
    <3>3. Budget(a)' <=> pushes'[a] + Cardinality(Holders(a, Unsent)') <= Allows(push'[a])
      BY DEF Budget, Allows
    <3> QED BY <1>3, <2>4, <2>7, <3>1, <3>2, <3>3
  <2>9. atCancel'[a] = pushes[a] + Cardinality({w \in Pushers : Holds(w, a)})
    BY DEF CancelCampaign
  <2>10. pushes'[a] + Cardinality(Holders(a, Unstoppable)') <= atCancel'[a]
    <3>1. Cardinality(Holders(a, Unstoppable)') = Cardinality(Holders(a, Unstoppable))
      BY <2>6
    <3> QED BY <1>2, <1>3, <2>7, <2>9, <3>1
  <2>11. a \notin recipients' => Unaddressed(a)'
    BY <1>3, <2>1, <2>3, <2>5, <2>6 DEF AccountKept, Unaddressed, NoPush
  <2> QED BY <2>4, <2>8, <2>10, <2>11 DEF AccountKept, RowIsSound
<1> QED BY <1>4, <1>5 DEF CampaignInv

\* An expansion addresses its batch, and nobody holds a push to them yet.
LEMMA ExpansionKeepsCampaign ==
  ASSUME CampaignInv, NEW w \in Pushers, ExpandCampaign(w) PROVE CampaignInv'
<1>1. PICK batch \in SUBSET (Accounts \ recipients), refused \in SUBSET Accounts :
        /\ recipients' = recipients \cup batch
        /\ push' = [a \in Accounts |-> IF a \in batch \ refused /\ standing[a] = "in"
                                       THEN [NoPush EXCEPT !.status = "pending"] ELSE push[a]]
  <2> DEFINE audience == {a \in Accounts \ recipients : standing[a] # "gone"}
             size     == IF Cardinality(audience) < ExpandBatch THEN Cardinality(audience) ELSE ExpandBatch
             K        == kSubset(size, audience)
  <2>1. \E batch \in K : \E refused \in SUBSET batch :
          /\ recipients' = recipients \cup batch
          /\ push' = [a \in Accounts |-> IF a \in batch \ refused /\ standing[a] = "in"
                                         THEN [NoPush EXCEPT !.status = "pending"] ELSE push[a]]
    BY DEF ExpandCampaign
  <2>2. K \subseteq SUBSET (Accounts \ recipients)
    BY DEF kSubset
  <2> HIDE DEF K
  <2> QED BY <2>1, <2>2
<1>2. /\ campaign \in {"scheduled", "dispatching"} /\ campaign' \in {"completed", "dispatching"}
      /\ pusher' = [pusher EXCEPT ![w] = Idle]
      /\ UNCHANGED <<pushes, atCancel>>
  BY DEF ExpandCampaign
<1>3. CampaignTypeOK'
  <2>1. [NoPush EXCEPT !.status = "pending"] \in PushRow
    BY DEF PushRow, NoPush, Open
  <2>2. push' \in [Accounts -> PushRow] /\ recipients' \subseteq Accounts
    BY <1>1, <2>1 DEF CampaignInv, CampaignTypeOK
  <2>3. pusher' \in [Pushers -> Place]
    BY <1>2 DEF CampaignInv, CampaignTypeOK, Place, Idle
  <2> QED BY <1>2, <2>2, <2>3 DEF CampaignInv, CampaignTypeOK
<1>4. ASSUME NEW a \in Accounts PROVE AccountKept(a)'
  <2>1. AccountKept(a) /\ RowIsSound(push[a])
    BY DEF CampaignInv, AccountKept
  <2>2. /\ \A v \in Pushers \ {w} : pusher'[v] = pusher[v]
        /\ pusher'[w] = Idle
    BY <1>2 DEF CampaignInv, CampaignTypeOK
  <2>3. ~Has(w, a, Unsent)' /\ ~Has(w, a, Unstoppable)'
    BY <2>2 DEF Has, Unsent, Unstoppable, Idle
  <2>4. /\ pushes'[a] = pushes[a] /\ atCancel'[a] = atCancel[a]
        /\ campaign' # "cancelled"
    BY <1>2
  <2>5. CASE push'[a] = push[a] /\ (a \notin recipients' => a \notin recipients)
    <3>1. Allows(push[a]) <= Allows(push'[a]) /\ RowIsSound(push'[a])
      BY <2>1, <2>5, CampaignAssumption DEF CampaignInv, CampaignTypeOK, Allows, PushRow
    <3> QED BY <1>3, <2>1, <2>2, <2>3, <2>4, <2>5, <3>1, WorkerKeepsAccount DEF CampaignInv
  <2>6. CASE a \notin recipients /\ a \in recipients' /\ push'[a] = [NoPush EXCEPT !.status = "pending"]
    <3>1. push[a] = NoPush
      BY <2>1, <2>6 DEF AccountKept, Unaddressed
    <3>2. Allows(push[a]) <= Allows(push'[a]) /\ RowIsSound(push'[a])
      BY <2>6, <3>1, CampaignAssumption DEF Allows, NoPush, RowIsSound, Open
    <3> QED BY <1>3, <2>1, <2>2, <2>3, <2>4, <2>6, <3>2, WorkerKeepsAccount DEF CampaignInv
  <2> QED BY <1>1, <2>5, <2>6
<1> QED BY <1>3, <1>4 DEF CampaignInv

\* A step of one worker on one delivery, which the campaign has addressed.
LEMMA DeliveryKeepsCampaign ==
  ASSUME CampaignInv, NEW w \in Pushers, NEW h \in Accounts, NEW here \in Place, NEW q \in PushRow,
         NEW sent \in {0, 1},
         UNCHANGED <<campaign, recipients, atCancel>>,
         pusher' = [pusher EXCEPT ![w] = here],
         push' = [push EXCEPT ![h] = q],
         pushes' = [pushes EXCEPT ![h] = @ + sent],
         RowIsSound(q),
         here.at \in Unsent => here.account = h,
         pusher[w].at \in Unsent => pusher[w].account = h,
         h \in recipients \/ (q = push[h] /\ sent = 0 /\ here.at \notin Unsent),
         \/ Allows(push[h]) <= Allows(q) /\ sent = 0 /\ (pusher[w].at \in Unsent \/ here.at \notin Unsent)
         \/ Allows(push[h]) <= Allows(q) /\ pusher[w].at \in Unstoppable /\ here.at \notin Unsent
         \/ Allows(push[h]) + 1 <= Allows(q) /\ sent = 0 /\ here.at \notin Unstoppable,
         here.at \in Unstoppable => campaign # "cancelled" \/ pusher[w].at \in Unstoppable
  PROVE  CampaignInv'
<1>1. CampaignTypeOK'
  BY DEF CampaignInv, CampaignTypeOK
<1>2. /\ \A v \in Pushers \ {w} : pusher'[v] = pusher[v]
      /\ pusher'[w] = here
  BY DEF CampaignInv, CampaignTypeOK
<1>3. ASSUME NEW a \in Accounts \ {h} PROVE AccountKept(a)'
  <2>1. /\ push'[a] = push[a] /\ pushes'[a] = pushes[a] /\ atCancel'[a] = atCancel[a]
        /\ campaign' = campaign /\ recipients' = recipients
    BY DEF CampaignInv, CampaignTypeOK
  <2>2. ~Has(w, a, Unsent)' /\ ~Has(w, a, Unstoppable)'
    BY <1>2 DEF Has, Unsent, Unstoppable
  <2>3. AccountKept(a) /\ RowIsSound(push[a])
    BY DEF CampaignInv, AccountKept
  <2>4. Allows(push[a]) <= Allows(push'[a]) /\ RowIsSound(push'[a])
    BY <2>1, <2>3, CampaignAssumption DEF CampaignInv, CampaignTypeOK, Allows, PushRow
  <2> QED BY <1>1, <1>2, <2>1, <2>2, <2>3, <2>4, WorkerKeepsAccount DEF CampaignInv
<1>4. AccountKept(h)'
  <2>1. /\ push'[h] = q /\ pushes'[h] = pushes[h] + sent /\ atCancel'[h] = atCancel[h]
        /\ campaign' = campaign /\ recipients' = recipients /\ pushes[h] \in Nat
    BY DEF CampaignInv, CampaignTypeOK
  <2>2. /\ Has(w, h, Unsent)' <=> here.at \in Unsent
        /\ Has(w, h, Unstoppable)' <=> here.at \in Unstoppable
        /\ Has(w, h, Unsent) <=> pusher[w].at \in Unsent
        /\ Has(w, h, Unstoppable) <=> pusher[w].at \in Unstoppable
    BY <1>2 DEF Has, Unsent, Unstoppable
  <2>3. AccountKept(h) /\ RowIsSound(push'[h])
    BY <2>1 DEF CampaignInv, AccountKept, RowIsSound
  <2>4. /\ Unstoppable \subseteq Unsent
        /\ sent = 0 => pushes'[h] = pushes[h]
        /\ sent = 1 => pushes'[h] = pushes[h] + 1
    BY <2>1 DEF Unstoppable, Unsent
  <2>5. h \notin recipients' => /\ h \notin recipients
                                /\ push'[h] = push[h] /\ pushes'[h] = pushes[h]
                                /\ ~Has(w, h, Unsent)'
    BY <2>1, <2>2, <2>4
  <2>6. \/ /\ Allows(push[h]) <= Allows(push'[h]) /\ pushes'[h] = pushes[h]
           /\ Has(w, h, Unsent) \/ ~Has(w, h, Unsent)'
        \/ /\ Allows(push[h]) <= Allows(push'[h]) /\ pushes'[h] = pushes[h] + 1
           /\ Has(w, h, Unsent) /\ ~Has(w, h, Unsent)'
        \/ Allows(push[h]) + 1 <= Allows(push'[h]) /\ pushes'[h] = pushes[h]
    BY <2>1, <2>2, <2>4
  <2>7. campaign' = "cancelled" =>
          \/ pushes'[h] = pushes[h] /\ (Has(w, h, Unstoppable) \/ ~Has(w, h, Unstoppable)')
          \/ /\ pushes'[h] = pushes[h] + 1
             /\ Has(w, h, Unstoppable) /\ ~Has(w, h, Unstoppable)'
    BY <2>1, <2>2, <2>4
  <2> QED BY <1>1, <1>2, <2>1, <2>3, <2>5, <2>6, <2>7, WorkerKeepsAccount DEF CampaignInv
<1> QED BY <1>1, <1>3, <1>4 DEF CampaignInv

\* A worker reports on its delivery, whoever holds the row by now, and is done.
LEMMA ReportsKeepCampaign ==
  ASSUME CampaignInv, NEW w \in Pushers, NEW h \in Accounts, NEW q, Report(h, q),
         pusher[w].at \in Unsent \cup {"pushed", "failed"}, pusher[w].account = h,
         pusher' = [pusher EXCEPT ![w] = Idle],
         UNCHANGED <<campaign, recipients, pushes, atCancel>>,
         \/ \E s \in {"sent", "skipped", "dead_letter"} : q = Ended(h, s)
         \/ q = [Ended(h, "dead_letter") EXCEPT !.attempts = @ + 1]
         \/ q = FailedPush(h)
  PROVE  CampaignInv'
<1>1. Idle \in Place /\ Idle.at \notin Unsent /\ Idle.at \notin Unstoppable
  BY DEF Idle, Place, Unsent, Unstoppable
<1>2. pushes' = [pushes EXCEPT ![h] = @ + 0] /\ pushes[h] \in Nat
  BY DEF CampaignInv, CampaignTypeOK
<1>3. PICK p \in PushRow : p = push[h]
  BY DEF CampaignInv, CampaignTypeOK
<1>4. RowIsSound(p) /\ AccountKept(h)
  BY <1>3 DEF CampaignInv, AccountKept
<1>5. Allows(p) \in Nat
  BY CampaignAssumption DEF Allows, PushRow
<1>6. CASE p.status = "processing"
  <2>1. push' = [push EXCEPT ![h] = q]
    BY <1>3, <1>6 DEF Report
  <2>2. \/ \E s \in {"sent", "skipped", "dead_letter"} : q = [p EXCEPT !.status = s, !.lapsed = FALSE]
        \/ q = [p EXCEPT !.status = "dead_letter", !.lapsed = FALSE, !.attempts = @ + 1]
        \/ q = [status   |-> IF p.attempts + 1 >= MaxPushAttempts THEN "dead_letter" ELSE "retry",
                attempts |-> p.attempts + 1, lapsed |-> FALSE]
    <3>1. CASE \E s \in {"sent", "skipped", "dead_letter"} : q = Ended(h, s)
      BY <1>3, <3>1 DEF Ended
    <3>2. CASE q = [Ended(h, "dead_letter") EXCEPT !.attempts = @ + 1]
      BY <1>3, <3>2 DEF Ended, PushRow
    <3>3. CASE q = FailedPush(h)
      BY <1>3, <3>3 DEF FailedPush
    <3> QED BY <3>1, <3>2, <3>3
  <2>3. q \in PushRow /\ RowIsSound(q) /\ Allows(p) <= Allows(q)
    BY <1>4, <1>6, <2>2, RowsEndSoundly
  <2>4. h \in recipients
    BY <1>3, <1>4, <1>6 DEF AccountKept, Unaddressed, NoPush
  <2> QED BY <1>1, <1>2, <1>3, <2>1, <2>3, <2>4, DeliveryKeepsCampaign
<1>7. CASE p.status # "processing"
  <2>1. push' = [push EXCEPT ![h] = p]
    BY <1>3, <1>7 DEF Report, CampaignInv, CampaignTypeOK
  <2>2. p.status # "processing" /\ Allows(p) <= Allows(p)
    BY <1>5, <1>7
  <2> QED BY <1>1, <1>2, <1>3, <1>4, <2>1, <2>2, DeliveryKeepsCampaign
<1> QED BY <1>6, <1>7

\* Where a worker with a delivery stands.
LEMMA HoldersPlace ==
  ASSUME CampaignInv, NEW w \in Pushers, pusher[w].at \in Unsent \cup {"pushed", "failed"}
  PROVE  /\ pusher[w].account \in Accounts
         /\ pusher[w] = [at |-> pusher[w].at, account |-> pusher[w].account]
         /\ pusher[w].at \in Unsent => pusher[w].account \in recipients
<1>1. /\ pusher[w].account \in Accounts
      /\ pusher[w] = [at |-> pusher[w].at, account |-> pusher[w].account]
  BY DEF CampaignInv, CampaignTypeOK, Place, Unsent
<1>2. ASSUME pusher[w].at \in Unsent, pusher[w].account \notin recipients PROVE FALSE
  <2>1. PICK h \in Accounts : h = pusher[w].account
    BY <1>1
  <2>2. w \in Holders(h, Unsent)
    BY <1>2, <2>1 DEF Holders
  <2> QED BY <1>2, <2>1, <2>2 DEF CampaignInv, AccountKept, Unaddressed
<1> QED BY <1>1, <1>2

LEMMA ClaimKeepsCampaign ==
  ASSUME CampaignInv, NEW w \in Pushers, NEW a \in Accounts, ClaimDelivery(w, a) PROVE CampaignInv'
<1>1. PICK p \in PushRow : p = push[a]
  BY DEF CampaignInv, CampaignTypeOK
<1> DEFINE q == [status |-> "processing", attempts |-> p.attempts, lapsed |-> FALSE]
           here == [at |-> "claimed", account |-> a]
<1>2. /\ push' = [push EXCEPT ![a] = q] /\ pusher' = [pusher EXCEPT ![w] = here]
      /\ p.status \in {"pending", "retry"} /\ pusher[w] = Idle
      /\ UNCHANGED <<campaign, recipients, pushes, atCancel>>
  <2>1. push' = [push EXCEPT ![a] = [[push[a] EXCEPT !.status = "processing"] EXCEPT !.lapsed = FALSE]]
    BY DEF ClaimDelivery, CampaignInv, CampaignTypeOK
  <2>2. q = [[p EXCEPT !.status = "processing"] EXCEPT !.lapsed = FALSE]
    <3>1. PICK r : r = [p EXCEPT !.status = "processing"]
      OBVIOUS
    <3>2. r = [status |-> "processing", attempts |-> p.attempts, lapsed |-> p.lapsed]
      BY <3>1 DEF PushRow
    <3>3. ASSUME NEW b
          PROVE  [r EXCEPT !.lapsed = b] = [status |-> "processing", attempts |-> p.attempts, lapsed |-> b]
      BY <3>2
    <3>4. [r EXCEPT !.lapsed = FALSE] = q
      BY <3>3, Zenon
    <3> QED BY <3>1, <3>4
  <2>3. push' = [push EXCEPT ![a] = q]
    BY <1>1, <2>1, <2>2
  <2> QED BY <1>1, <2>3 DEF ClaimDelivery
<1>3. RowIsSound(p) /\ AccountKept(a)
  BY <1>1 DEF CampaignInv, AccountKept
<1>4. q \in PushRow /\ RowIsSound(q) /\ Allows(p) + 1 <= Allows(q)
  BY <1>2, <1>3 DEF RowIsSound, Allows, PushRow, Open
<1>5. a \in recipients
  BY <1>1, <1>2, <1>3 DEF AccountKept, Unaddressed, NoPush
<1>6. /\ here \in Place /\ here.account = a /\ here.at \in Unsent /\ here.at \notin Unstoppable
      /\ pusher[w].at \notin Unsent
  BY <1>2 DEF Place, Unsent, Unstoppable, Idle
<1>7. pushes' = [pushes EXCEPT ![a] = @ + 0]
  BY <1>2 DEF CampaignInv, CampaignTypeOK
<1> HIDE DEF q, here
<1> QED BY <1>1, <1>2, <1>4, <1>5, <1>6, <1>7, DeliveryKeepsCampaign

\* A worker goes on with its delivery: the row is left alone.
LEMMA MovesKeepCampaign ==
  ASSUME CampaignInv, NEW w \in Pushers, NEW h \in Accounts, NEW next \in Unsent \cup {"pushed", "failed"},
         NEW sent \in {0, 1},
         pusher[w].at \in Unsent, pusher[w].account = h,
         pusher' = [pusher EXCEPT ![w] = [at |-> next, account |-> h]],
         pushes' = [pushes EXCEPT ![h] = @ + sent],
         UNCHANGED <<campaign, recipients, push, atCancel>>,
         sent = 1 => pusher[w].at = "bound" /\ next \notin Unsent,
         next \in Unstoppable => campaign # "cancelled" \/ pusher[w].at \in Unstoppable
  PROVE  CampaignInv'
<1>1. PICK p \in PushRow : p = push[h]
  BY DEF CampaignInv, CampaignTypeOK
<1>2. PICK here \in Place : here = [at |-> next, account |-> h]
  BY DEF Place
<1>3. here.account = h /\ here.at = next
  BY <1>2
<1>4. push' = [push EXCEPT ![h] = p]
  BY <1>1 DEF CampaignInv, CampaignTypeOK
<1>5. RowIsSound(p) /\ h \in recipients
  BY <1>1, HoldersPlace DEF CampaignInv, AccountKept
<1>6. Allows(p) <= Allows(p)
  BY CampaignAssumption DEF Allows, PushRow
<1>7. \/ Allows(push[h]) <= Allows(p) /\ sent = 0 /\ (pusher[w].at \in Unsent \/ here.at \notin Unsent)
      \/ Allows(push[h]) <= Allows(p) /\ pusher[w].at \in Unstoppable /\ here.at \notin Unsent
  BY <1>1, <1>3, <1>6 DEF Unstoppable
<1> QED BY <1>1, <1>2, <1>3, <1>4, <1>5, <1>7, DeliveryKeepsCampaign

LEMMA CheckKeepsCampaign ==
  ASSUME CampaignInv, NEW w \in Pushers, CheckDelivery(w) PROVE CampaignInv'
<1>1. pusher[w].at \in {"claimed", "eligible", "current"}
  BY DEF CheckDelivery, After
<1>2. pusher[w].at \in Unsent
  BY <1>1 DEF Unsent
<1>3. PICK h \in Accounts : h = pusher[w].account
  BY <1>2, HoldersPlace
<1>4. CASE Passes(pusher[w].at, h)
  <2>1. PICK next \in {"eligible", "current", "bound"} : next = After[pusher[w].at]
    BY <1>1 DEF After
  <2>2. pusher' = [pusher EXCEPT ![w].at = next] /\ UNCHANGED <<campaign, recipients, push, pushes, atCancel>>
    BY <1>3, <1>4, <2>1 DEF CheckDelivery
  <2>3. next \in Unstoppable => campaign # "cancelled" \/ pusher[w].at \in Unstoppable
    BY <1>1, <1>4, <2>1 DEF After, Passes, Unstoppable
  <2>4. PICK none \in {0, 1} : none = 0
    OBVIOUS
  <2>5. pushes' = [pushes EXCEPT ![h] = @ + none] /\ next \in Unsent \cup {"pushed", "failed"}
    BY <2>2, <2>4 DEF CampaignInv, CampaignTypeOK, Unsent
  <2>6. none # 1 /\ UNCHANGED <<campaign, recipients, push, atCancel>>
    BY <2>2, <2>4
  <2>7. pusher' = [pusher EXCEPT ![w] = [at |-> next, account |-> h]]
    <3>1. pusher[w] = [at |-> pusher[w].at, account |-> h]
      BY <1>2, <1>3, HoldersPlace
    <3>2. [pusher[w] EXCEPT !.at = next] = [at |-> next, account |-> h]
      BY <3>1
    <3>3. pusher' = [pusher EXCEPT ![w] = [pusher[w] EXCEPT !.at = next]]
      BY <2>2 DEF CampaignInv, CampaignTypeOK
    <3> QED BY <3>2, <3>3
  <2> QED BY <1>2, <1>3, <2>3, <2>5, <2>6, <2>7, MovesKeepCampaign
<1>5. CASE ~Passes(pusher[w].at, h)
  <2>1. /\ pusher' = [pusher EXCEPT ![w] = Idle] /\ Report(h, Ended(h, "skipped"))
        /\ UNCHANGED <<campaign, recipients, pushes, atCancel>>
    BY <1>3, <1>5 DEF CheckDelivery
  <2>2. PICK q : q = Ended(h, "skipped")
    OBVIOUS
  <2>3. Report(h, q)
    BY <2>1, <2>2 DEF Report
  <2> QED BY <1>2, <1>3, <2>1, <2>2, <2>3, ReportsKeepCampaign
<1> QED BY <1>4, <1>5

LEMMA RateLimitKeepsCampaign ==
  ASSUME CampaignInv, NEW w \in Pushers, RateLimit(w) PROVE CampaignInv'
<1>1. pusher[w].at \in Unsent
  BY DEF RateLimit, Unsent
<1>2. PICK h \in Accounts : h = pusher[w].account
  BY <1>1, HoldersPlace
<1>3. /\ pusher' = [pusher EXCEPT ![w] = Idle]
      /\ UNCHANGED <<campaign, recipients, pushes, atCancel>>
      /\ \E p \in {Ended(h, "skipped"), FailedPush(h)} : Report(h, p)
  BY <1>2 DEF RateLimit
<1>4. PICK q : Report(h, q) /\ (q = Ended(h, "skipped") \/ q = FailedPush(h))
  BY <1>3
<1> QED BY <1>1, <1>2, <1>3, <1>4, ReportsKeepCampaign

LEMMA SendKeepsCampaign ==
  ASSUME CampaignInv, NEW w \in Pushers, SendPush(w) PROVE CampaignInv'
<1>1. pusher[w].at = "bound" /\ pusher[w].at \in Unsent
  BY DEF SendPush, Unsent
<1>2. PICK h \in Accounts : h = pusher[w].account
  BY <1>1, HoldersPlace
<1>3. PICK next \in {"pushed", "failed"} : pusher' = [pusher EXCEPT ![w].at = next]
  BY DEF SendPush
<1>4. /\ pushes' = [pushes EXCEPT ![h] = @ + 1]
      /\ UNCHANGED <<campaign, recipients, push, atCancel>>
  BY <1>2 DEF SendPush
<1>5. next \notin Unsent /\ next \notin Unstoppable
  BY DEF Unsent, Unstoppable
<1>6. pusher' = [pusher EXCEPT ![w] = [at |-> next, account |-> h]]
  <2>1. pusher[w] = [at |-> pusher[w].at, account |-> h]
    BY <1>1, <1>2, HoldersPlace
  <2>2. [pusher[w] EXCEPT !.at = next] = [at |-> next, account |-> h]
    BY <2>1
  <2>3. pusher' = [pusher EXCEPT ![w] = [pusher[w] EXCEPT !.at = next]]
    BY <1>3 DEF CampaignInv, CampaignTypeOK
  <2> QED BY <2>2, <2>3
<1> QED BY <1>1, <1>2, <1>4, <1>5, <1>6, MovesKeepCampaign

LEMMA RefusalKeepsCampaign ==
  ASSUME CampaignInv, NEW w \in Pushers, RefusePush(w) PROVE CampaignInv'
<1>1. pusher[w].at = "bound" /\ pusher[w].at \in Unsent
  BY DEF RefusePush, Unsent
<1>2. PICK h \in Accounts : h = pusher[w].account
  BY <1>1, HoldersPlace
<1>3. UNCHANGED <<campaign, recipients, pushes, atCancel>>
  BY DEF RefusePush
<1>4. CASE pusher' = [pusher EXCEPT ![w].at = "failed"] /\ UNCHANGED push
  <2>1. PICK next \in {"failed"}, none \in {0, 1} : next = "failed" /\ none = 0
    OBVIOUS
  <2>2. pushes' = [pushes EXCEPT ![h] = @ + none] /\ next \notin Unstoppable
    BY <1>3, <2>1 DEF CampaignInv, CampaignTypeOK, Unstoppable
  <2>3. /\ none # 1 /\ UNCHANGED <<campaign, recipients, push, atCancel>>
        /\ pusher' = [pusher EXCEPT ![w].at = next]
    BY <1>3, <1>4, <2>1
  <2>4. pusher' = [pusher EXCEPT ![w] = [at |-> next, account |-> h]]
    <3>1. pusher[w] = [at |-> pusher[w].at, account |-> h]
      BY <1>1, <1>2, HoldersPlace
    <3>2. [pusher[w] EXCEPT !.at = next] = [at |-> next, account |-> h]
      BY <3>1
    <3>3. pusher' = [pusher EXCEPT ![w] = [pusher[w] EXCEPT !.at = next]]
      BY <2>3 DEF CampaignInv, CampaignTypeOK
    <3> QED BY <3>2, <3>3
  <2> QED BY <1>1, <1>2, <2>2, <2>3, <2>4, MovesKeepCampaign
<1>5. CASE pusher' = [pusher EXCEPT ![w] = Idle]
           /\ Report(h, [Ended(h, "dead_letter") EXCEPT !.attempts = @ + 1])
  <2>1. PICK q : q = [Ended(h, "dead_letter") EXCEPT !.attempts = @ + 1]
    OBVIOUS
  <2>2. Report(h, q)
    BY <1>5, <2>1 DEF Report
  <2> QED BY <1>1, <1>2, <1>3, <1>5, <2>1, <2>2, ReportsKeepCampaign
<1>6. CASE pusher' = [pusher EXCEPT ![w] = Idle] /\ Report(h, Ended(h, "skipped"))
  <2>1. PICK q : q = Ended(h, "skipped")
    OBVIOUS
  <2>2. Report(h, q)
    BY <1>6, <2>1 DEF Report
  <2> QED BY <1>1, <1>2, <1>3, <1>6, <2>1, <2>2, ReportsKeepCampaign
<1>7. \/ pusher' = [pusher EXCEPT ![w].at = "failed"] /\ UNCHANGED push
      \/ pusher' = [pusher EXCEPT ![w] = Idle]
         /\ Report(h, [Ended(h, "dead_letter") EXCEPT !.attempts = @ + 1])
      \/ pusher' = [pusher EXCEPT ![w] = Idle] /\ Report(h, Ended(h, "skipped"))
  BY <1>2 DEF RefusePush
<1> QED BY <1>4, <1>5, <1>6, <1>7

LEMMA ReportKeepsCampaign ==
  ASSUME CampaignInv, NEW w \in Pushers, ReportPush(w) PROVE CampaignInv'
<1>1. pusher[w].at \in {"pushed", "failed"}
  BY DEF ReportPush
<1>2. PICK h \in Accounts : h = pusher[w].account
  BY <1>1, HoldersPlace
<1>3. /\ pusher' = [pusher EXCEPT ![w] = Idle]
      /\ UNCHANGED <<campaign, recipients, pushes, atCancel>>
      /\ Report(h, Ended(h, "sent")) \/ Report(h, FailedPush(h))
  BY <1>2 DEF ReportPush
<1>4. PICK q : Report(h, q) /\ (q = Ended(h, "sent") \/ q = FailedPush(h))
  BY <1>3
<1> QED BY <1>1, <1>2, <1>3, <1>4, ReportsKeepCampaign

\* A starting worker takes back what lapsed: that is claimed, and not yet counted.
LEMMA RecoveryKeepsCampaign ==
  ASSUME CampaignInv, NEW w \in Pushers, RecoverLocks(w) PROVE CampaignInv'
<1>1. /\ \A a \in Accounts : push[a] \in PushRow /\ pushes[a] \in Nat /\ AccountKept(a)
      /\ pusher' = [pusher EXCEPT ![w] = Idle]
      /\ push' = [a \in Accounts |-> Recovered(a)]
      /\ UNCHANGED <<campaign, recipients, pushes, atCancel>>
  BY DEF CampaignInv, CampaignTypeOK, RecoverLocks
<1>2. ASSUME NEW a \in Accounts
      PROVE  /\ Recovered(a) \in PushRow /\ RowIsSound(Recovered(a))
             /\ Allows(push[a]) <= Allows(Recovered(a))
             /\ push[a] = NoPush => Recovered(a) = push[a]
  <2>1. PICK p \in PushRow : p = push[a]
    BY <1>1
  <2>2. RowIsSound(p)
    BY <1>1, <2>1 DEF AccountKept
  <2>3. PICK q : q = Recovered(a)
    OBVIOUS
  <2>4. CASE ~p.lapsed
    <3>1. q = p
      BY <2>1, <2>3, <2>4, Zenon DEF Recovered
    <3>2. Allows(p) <= Allows(q)
      BY <3>1, CampaignAssumption DEF Allows, PushRow
    <3> QED BY <2>1, <2>2, <2>3, <3>1, <3>2
  <2>5. CASE p.lapsed
    <3>1. p.status = "processing" /\ p # NoPush /\ p.attempts \in Nat
      BY <2>2, <2>5 DEF RowIsSound, NoPush, PushRow
    <3>2. \/ /\ p.attempts + 1 < MaxPushAttempts
             /\ q = [status |-> "retry", attempts |-> p.attempts + 1, lapsed |-> FALSE]
          \/ q = [status |-> "dead_letter", attempts |-> MaxPushAttempts, lapsed |-> FALSE]
      BY <2>1, <2>3, <2>5, Zenon DEF Recovered
    <3>3. \/ q = [status   |-> IF p.attempts + 1 >= MaxPushAttempts THEN "dead_letter" ELSE "retry",
                  attempts |-> p.attempts + 1, lapsed |-> FALSE]
          \/ q = [status |-> "dead_letter", attempts |-> MaxPushAttempts, lapsed |-> FALSE]
      BY <3>1, <3>2, CampaignAssumption
    <3>4. q \in PushRow /\ RowIsSound(q) /\ Allows(p) <= Allows(q)
      BY <2>2, <3>1, <3>3, RowsEndSoundly
    <3> QED BY <2>1, <2>3, <3>1, <3>4
  <2> QED BY <2>4, <2>5
<1>3. CampaignTypeOK'
  BY <1>1, <1>2 DEF CampaignInv, CampaignTypeOK, Idle, Place
<1>4. ASSUME NEW a \in Accounts PROVE AccountKept(a)'
  <2>1. /\ \A v \in Pushers \ {w} : pusher'[v] = pusher[v]
        /\ pusher'[w] = Idle
    BY <1>1 DEF CampaignInv, CampaignTypeOK
  <2>2. ~Has(w, a, Unsent)' /\ ~Has(w, a, Unstoppable)'
    BY <2>1 DEF Has, Unsent, Unstoppable, Idle
  <2>3. /\ push'[a] = Recovered(a) /\ pushes'[a] = pushes[a] /\ atCancel'[a] = atCancel[a]
        /\ recipients' = recipients /\ campaign' = campaign
    BY <1>1
  <2>4. RowIsSound(push'[a]) /\ Allows(push[a]) <= Allows(push'[a])
    BY <1>2, <2>3
  <2>5. a \notin recipients => push'[a] = push[a]
    BY <1>1, <1>2, <2>3 DEF AccountKept, Unaddressed
  <2> QED BY <1>1, <1>3, <2>1, <2>2, <2>3, <2>4, <2>5, WorkerKeepsAccount DEF CampaignInv
<1> QED BY <1>3, <1>4 DEF CampaignInv

\* Five minutes pass for a claimed row.
LEMMA LapseKeepsCampaign ==
  ASSUME CampaignInv, LocksLapse PROVE CampaignInv'
<1>1. CASE UNCHANGED push
  <2>1. UNCHANGED <<recipients, pushVars, atCancel, campaign, pusher>>
    BY <1>1 DEF LocksLapse, pushVars
  <2> QED BY <2>1, BystandersKeepCampaign
<1>2. ASSUME NEW h \in Accounts, push[h].status = "processing",
             push' = [push EXCEPT ![h].lapsed = TRUE]
      PROVE  CampaignInv'
  <2>1. PICK p \in PushRow : p = push[h]
    BY DEF CampaignInv, CampaignTypeOK
  <2>2. PICK q \in PushRow : q = [status |-> p.status, attempts |-> p.attempts, lapsed |-> TRUE]
    BY DEF PushRow
  <2>3. push' = [push EXCEPT ![h] = q]
    <3>1. push' = [push EXCEPT ![h] = [p EXCEPT !.lapsed = TRUE]]
      BY <1>2, <2>1
    <3>2. [p EXCEPT !.lapsed = TRUE] = q
      <4>1. ASSUME NEW b
            PROVE  [p EXCEPT !.lapsed = b] = [status |-> p.status, attempts |-> p.attempts, lapsed |-> b]
        BY DEF PushRow
      <4>2. [p EXCEPT !.lapsed = TRUE] = [status |-> p.status, attempts |-> p.attempts, lapsed |-> TRUE]
        BY <4>1, Zenon
      <4> QED BY <2>2, <4>2, Zenon
    <3> QED BY <3>1, <3>2
  <2>4. UNCHANGED <<campaign, recipients, pushes, pusher, atCancel>>
    BY DEF LocksLapse
  <2>5. Allows(q) = Allows(p) /\ q # NoPush /\ p # NoPush
    BY <1>2, <2>1, <2>2 DEF Allows, NoPush
  <2>6. RowIsSound(q)
    BY <1>2, <2>1, <2>2 DEF CampaignInv, AccountKept, RowIsSound
  <2>7. CampaignTypeOK'
    BY <2>3, <2>4 DEF CampaignInv, CampaignTypeOK
  <2>8. ASSUME NEW a \in Accounts PROVE AccountKept(a)'
    <3>1. AccountKept(a)
      BY DEF CampaignInv
    <3>2. /\ Holders(a, Unsent)' = Holders(a, Unsent)
          /\ Holders(a, Unstoppable)' = Holders(a, Unstoppable)
      BY <2>4 DEF Holders
    <3>3. CASE a # h
      <4>1. push'[a] = push[a]
        BY <2>3, <3>3 DEF CampaignInv, CampaignTypeOK
      <4> QED BY <2>4, <3>1, <3>2, <4>1 DEF AccountKept, Budget, Unaddressed
    <3>4. CASE a = h
      <4>1. push'[a] = q /\ push[a] = p
        BY <2>1, <2>3, <3>4 DEF CampaignInv, CampaignTypeOK
      <4>2. Budget(a)'
        BY <2>4, <2>5, <3>1, <3>2, <4>1 DEF AccountKept, Budget, Allows
      <4>3. a \in recipients
        BY <2>5, <3>1, <4>1 DEF AccountKept, Unaddressed
      <4> QED BY <2>4, <2>6, <3>1, <3>2, <4>1, <4>2, <4>3 DEF AccountKept, RowIsSound
    <3> QED BY <3>3, <3>4
  <2> QED BY <2>7, <2>8 DEF CampaignInv
<1> QED BY <1>1, <1>2 DEF LocksLapse

LEMMA CampaignStep ==
  ASSUME CampaignInv, [CampaignNext]_campaignVars PROVE CampaignInv'
<1>1. CASE ScheduleCampaign
  BY <1>1, BystandersKeepCampaign DEF ScheduleCampaign
<1>2. ASSUME NEW a \in Accounts, LeaveCampaign(a) PROVE CampaignInv'
  BY <1>2, BystandersKeepCampaign DEF LeaveCampaign
<1>3. ASSUME NEW w \in Pushers, ClaimJob(w) PROVE CampaignInv'
  BY <1>3, BystandersKeepCampaign DEF ClaimJob
<1>4. ASSUME NEW w \in Pushers, NothingToExpand(w) \/ FailJob(w) PROVE CampaignInv'
  <2>1. pusher' = [pusher EXCEPT ![w] = [at |-> "idle"]] /\ UNCHANGED <<campaign, recipients, pushVars, atCancel>>
    BY <1>4 DEF NothingToExpand, FailJob, Idle
  <2> QED BY <2>1, BystandersKeepCampaign
<1>5. ASSUME NEW w \in Pushers, PusherStops(w) PROVE CampaignInv'
  BY <1>5, BystandersKeepCampaign DEF PusherStops
<1>6. CASE UNCHANGED campaignVars
  BY <1>6, BystandersKeepCampaign DEF campaignVars
<1> QED
  BY <1>1, <1>2, <1>3, <1>4, <1>5, <1>6, CancelKeepsCampaign, LapseKeepsCampaign,
     ExpansionKeepsCampaign, ClaimKeepsCampaign, CheckKeepsCampaign, RateLimitKeepsCampaign,
     SendKeepsCampaign, RefusalKeepsCampaign, ReportKeepsCampaign, RecoveryKeepsCampaign
  DEF CampaignNext

LEMMA CampaignInvariant == CampaignSpec => []CampaignInv
<1>1. CampaignInv /\ [CampaignNext]_campaignVars => CampaignInv'
  BY CampaignStep
<1> QED BY <1>1, CampaignInitially, PTL DEF CampaignSpec

\* A cancelled campaign stays cancelled, and nobody joins its recipients.
LEMMA CancelledForGood ==
  ASSUME campaign = "cancelled", [CampaignNext]_campaignVars
  PROVE  campaign' = "cancelled" /\ recipients' = recipients
BY DEF CampaignNext, ScheduleCampaign, CancelCampaign, LocksLapse, LeaveCampaign, ClaimJob,
   ExpandCampaign, NothingToExpand, FailJob, ClaimDelivery, CheckDelivery, RateLimit, SendPush,
   RefusePush, ReportPush, PusherStops, RecoverLocks, campaignVars

\* A push campaign's recipient is given no more pushes than the delivery has attempts,
\* however many workers lost their claim of it, and after the cancellation no more than
\* were made or in workers' hands by then (NotificationWorkerService.processDelivery,
\* recoverStaleLocks, cancelCampaign).
THEOREM PushesStayBounded == CampaignSpec => PushesAreBounded
<1>1. CampaignInv /\ CampaignInv' /\ [CampaignNext]_campaignVars
        => [/\ \A a \in Accounts : pushes'[a] <= MaxPushAttempts
            /\ campaign = "cancelled" =>
                 /\ recipients' = recipients
                 /\ \A a \in Accounts : pushes'[a] <= atCancel[a]]_campaignVars
  <2> SUFFICES ASSUME CampaignInv, CampaignInv', [CampaignNext]_campaignVars,
                      ~UNCHANGED campaignVars
               PROVE  /\ \A a \in Accounts : pushes'[a] <= MaxPushAttempts
                      /\ campaign = "cancelled" =>
                           /\ recipients' = recipients
                           /\ \A a \in Accounts : pushes'[a] <= atCancel[a]
    OBVIOUS
  <2>1. ASSUME NEW a \in Accounts PROVE pushes'[a] <= MaxPushAttempts
    <3>1. /\ pushes'[a] \in Nat /\ Cardinality(Holders(a, Unsent)') \in Nat /\ push'[a] \in PushRow
          /\ MaxPushAttempts \in Nat
      BY HoldersAreFinite, CampaignAssumption DEF CampaignInv, CampaignTypeOK
    <3>2. RowIsSound(push'[a]) /\ Budget(a)'
      BY DEF CampaignInv, AccountKept, RowIsSound
    <3>3. pushes'[a] + Cardinality(Holders(a, Unsent)') <= Allows(push'[a])
      BY <3>2 DEF Budget, Allows
    <3>4. Allows(push'[a]) <= MaxPushAttempts /\ Allows(push'[a]) \in Nat
      BY <3>1, <3>2 DEF Allows, RowIsSound, PushRow, Open
    <3> QED BY <3>1, <3>3, <3>4
  <2>2. ASSUME campaign = "cancelled", NEW a \in Accounts PROVE pushes'[a] <= atCancel[a]
    <3>1. campaign' = "cancelled"
      BY <2>2, CancelledForGood
    <3>2. /\ pushes'[a] \in Nat /\ Cardinality(Holders(a, Unstoppable)') \in Nat /\ atCancel'[a] \in Nat
      BY HoldersAreFinite DEF CampaignInv, CampaignTypeOK
    <3>3. pushes'[a] + Cardinality(Holders(a, Unstoppable)') <= atCancel'[a]
      BY <3>1 DEF CampaignInv, AccountKept
    <3>4. atCancel'[a] = atCancel[a]
      BY <2>2 DEF CampaignNext, ScheduleCampaign, CancelCampaign, LocksLapse, LeaveCampaign, ClaimJob,
         ExpandCampaign, NothingToExpand, FailJob, ClaimDelivery, CheckDelivery, RateLimit, SendPush,
         RefusePush, ReportPush, PusherStops, RecoverLocks, campaignVars
    <3> QED BY <3>2, <3>3, <3>4
  <2> QED BY <2>1, <2>2, CancelledForGood
<1> QED BY <1>1, CampaignInvariant, PTL DEF CampaignSpec, PushesAreBounded

-----------------------------------------------------------------------------
(* Schedules: whatever waits has a job that will wake it.                *)

JobRow == [status: JobStatus, at: 0 .. Horizon, attempts: 0 .. MaxScheduleAttempts,
           lockedBy: Schedulers \cup {NoScheduler}]

\* The job that publishes the drama or an episode as staff last chose.
PublishJob(t) == [target |-> t, action |-> "publish", publication |-> publication]
Kept == Live \cup {"failed"}

\* A claim of a job never exceeds its attempts.
TriesAreLeft == \A j \in JobIds : job[j].status \in {"pending", "retry"} => job[j].attempts < MaxScheduleAttempts

LiveJobsAreCurrent ==
  owner = "tenant" => \A j \in JobIds : job[j].status \in Live => j.publication = publication

\* Staff published whatever is on its way to the public.
PublishedOnce == status["drama"] \in {"approved", "published"} => publication \in 1 .. MaxPublications

DramaWaits == status["drama"] = "approved" => job[PublishJob("drama")].status \in Kept

\* Until an episode's time has come its job stands as the publication left it, whatever
\* other jobs did to the episode.
EpisodesWait ==
  status["drama"] \in {"approved", "published"} =>
    \A e \in Episodes :
      status[e] \in {"approved", "published"} /\ ~Released(e) =>
        job[PublishJob(e)].status = "pending" /\ job[PublishJob(e)].at = window[e].release

\* After that, it is public, or the job is under way or failed.
LateEpisodesWait ==
  status["drama"] = "published" =>
    \A e \in Episodes : status[e] = "approved" /\ Released(e) => job[PublishJob(e)].status \in Kept

FrozenIsWritten == frozen => status["drama"] # "none"

ContentInv ==
  /\ ContentTypeOK
  /\ TriesAreLeft
  /\ LiveJobsAreCurrent
  /\ PublishedOnce
  /\ DramaWaits /\ EpisodesWait /\ LateEpisodesWait
  /\ FrozenIsWritten

LEMMA PublishJobExists ==
  ASSUME publication \in 1 .. MaxPublications, NEW t \in Targets PROVE PublishJob(t) \in JobIds
BY DEF PublishJob, JobIds

LEMMA ContentInitially == ContentInit => ContentInv
<1> SUFFICES ASSUME ContentInit PROVE ContentInv
  OBVIOUS
<1>1. NoJob \in JobRow
  BY ScheduleBoundsAssumption DEF NoJob, JobRow, JobStatus
<1>2. status["drama"] \in {"none", "pending_review", "rejected"} /\ status \in [Targets -> Status]
  BY DramaAssumption DEF ContentInit, Targets, Status
<1>3. [release |-> 0, unpublish |-> Never] \in Windows
  BY ScheduleBoundsAssumption DEF Windows, Never
<1>4. window \in [Targets -> Windows] /\ job \in [JobIds -> JobRow]
  BY <1>1, <1>3 DEF ContentInit
<1>5. ContentTypeOK
  <2>1. {deleted, frozen, takenDown} \subseteq BOOLEAN
    BY DEF ContentInit
  <2>2. /\ owner \in Owners /\ clock \in 0 .. Horizon /\ revision \in Nat
        /\ publication \in 0 .. MaxPublications /\ schedulerStops \in Nat
        /\ listing \in {"none", "approved", "rejected", "published", "unpublished"}
    BY ScheduleBoundsAssumption DEF ContentInit
  <2>3. /\ lockOld \subseteq JobIds /\ schedulerUp \in [Schedulers -> BOOLEAN]
        /\ claimed \in [Schedulers -> SUBSET JobIds]
    BY DEF ContentInit
  <2> QED BY <1>2, <1>4, <2>1, <2>2, <2>3 DEF ContentTypeOK, JobRow
<1>6. \A j \in JobIds : job[j].status = "none"
  BY DEF ContentInit, NoJob
<1> QED
  BY <1>2, <1>5, <1>6 DEF ContentInit, ContentInv, TriesAreLeft, LiveJobsAreCurrent, PublishedOnce,
     DramaWaits, EpisodesWait, LateEpisodesWait, FrozenIsWritten, Live

\* Steps that leave status, schedule and time alone.
LEMMA OthersKeepContent ==
  ASSUME ContentInv, UNCHANGED <<owner, status, window, publication, clock, job>>, ContentTypeOK',
         frozen' => frozen \/ status["drama"] = "published"
  PROVE  ContentInv'
<1>1. \A t : PublishJob(t)' = PublishJob(t) /\ (Released(t)' <=> Released(t))
  BY DEF PublishJob, Released
<1>2. TriesAreLeft' /\ LiveJobsAreCurrent' /\ PublishedOnce' /\ FrozenIsWritten'
  BY DEF ContentInv, TriesAreLeft, LiveJobsAreCurrent, PublishedOnce, FrozenIsWritten
<1>3. DramaWaits' /\ EpisodesWait' /\ LateEpisodesWait'
  BY <1>1 DEF ContentInv, DramaWaits, EpisodesWait, LateEpisodesWait, PublishJob, Released
<1> QED BY <1>2, <1>3 DEF ContentInv

\* Steps after which the drama is neither public nor on its way.
LEMMA HiddenDramasWaitForNothing ==
  ASSUME ContentInv, ContentTypeOK', status'["drama"] \notin {"approved", "published"},
         UNCHANGED <<owner, publication>>,
         \A j \in JobIds : /\ job'[j].status \in Live => job[j].status \in Live
                           /\ job'[j].status \in {"pending", "retry"} => job'[j] = job[j],
         frozen' => frozen /\ (status["drama"] # "none" => status'["drama"] # "none")
  PROVE  ContentInv'
<1>1. TriesAreLeft'
  BY DEF ContentInv, TriesAreLeft
<1>2. LiveJobsAreCurrent'
  BY DEF ContentInv, LiveJobsAreCurrent
<1>3. FrozenIsWritten'
  BY DEF ContentInv, FrozenIsWritten
<1> QED BY <1>1, <1>2, <1>3 DEF ContentInv, PublishedOnce, DramaWaits, EpisodesWait, LateEpisodesWait

LEMMA EditsKeepContent ==
  ASSUME ContentInv,
         CreateDrama \/ EditDrama \/ WithdrawReview
           \/ \E e \in Episodes : AddEpisode(e) \/ EditEpisode(e) \/ EditTrack(e)
  PROVE  ContentInv'
<1>1. /\ UNCHANGED <<owner, deleted, frozen, takenDown, publication, clock, listing, job, schedulers>>
      /\ revision' \in {revision, revision + 1}
      /\ window' = window \/ \E t \in Targets : ChooseWindow(t)
  BY DEF CreateDrama, EditDrama, WithdrawReview, AddEpisode, EditEpisode, EditTrack, Revise, Targets
<1>2. /\ status' \in [Targets -> Status]
      /\ status'["drama"] \in {"draft", "rejected", "unpublished"}
  <2> USE DramaAssumption DEF Status, Targets
  <2>1. status \in [Targets -> Status]
    BY DEF ContentInv, ContentTypeOK
  <2>2. CASE CreateDrama \/ WithdrawReview
    BY <2>1, <2>2 DEF CreateDrama, WithdrawReview
  <2>3. CASE EditDrama
    BY <2>1, <2>3 DEF EditDrama, Revise, CanEdit, Editable, AfterEdit
  <2>4. ASSUME NEW e \in Episodes, AddEpisode(e) \/ EditTrack(e)
        PROVE  /\ status' \in [Targets -> Status]
               /\ status'["drama"] \in {"draft", "rejected", "unpublished"}
    BY <2>1, <2>4 DEF AddEpisode, EditTrack, Revise, CanEdit, Editable
  <2>5. ASSUME NEW e \in Episodes, EditEpisode(e)
        PROVE  /\ status' \in [Targets -> Status]
               /\ status'["drama"] \in {"draft", "rejected", "unpublished"}
    BY <2>1, <2>5 DEF EditEpisode, Revise, CanEdit, Editable, AfterEdit
  <2> QED BY <2>2, <2>3, <2>4, <2>5
<1>3. window' \in [Targets -> Windows]
  BY <1>1 DEF ContentInv, ContentTypeOK, ChooseWindow
<1>4. ContentTypeOK'
  BY <1>1, <1>2, <1>3 DEF ContentInv, ContentTypeOK, schedulers
<1>5. \A j \in JobIds : job'[j] = job[j]
  BY <1>1
<1> QED BY <1>1, <1>2, <1>4, <1>5, HiddenDramasWaitForNothing

\* Publishing schedules whatever has to wait.
LEMMA PublishKeepsContent ==
  ASSUME ContentInv, Publish PROVE ContentInv'
<1> DEFINE s == IF Released("drama") THEN "published" ELSE "approved"
           ids == Scheduled(s)
           next == publication + 1
<1>1. /\ status["drama"] \in Editable \cup {"approved"}
      /\ status' = [t \in Targets |->
           IF t = "drama" THEN s
           ELSE IF t \notin Written THEN "none"
           ELSE IF Elapsed(t) THEN "unpublished"
           ELSE IF s = "published" /\ Released(t) THEN "published" ELSE "approved"]
      /\ publication' = next
      /\ job' = [j \in JobIds |->
           IF j \in ids
           THEN [NoJob EXCEPT !.status = "pending",
                              !.at = IF j.action = "publish" THEN window[j.target].release
                                                             ELSE window[j.target].unpublish]
           ELSE IF owner = "tenant" /\ job[j].status \in Live THEN Cancel(job[j]) ELSE job[j]]
      /\ UNCHANGED <<owner, window, revision, deleted, frozen, takenDown, clock, listing, schedulers>>
  BY Zenon DEF Publish
<1>2. /\ next \in 1 .. MaxPublications /\ clock \in 0 .. Horizon /\ publication \in 0 .. MaxPublications
      /\ \A t \in Targets : window[t].release \in 0 .. Horizon /\ window[t].unpublish \in 1 .. Never
  <2>1. publication < MaxPublications
    BY DEF Publish
  <2>2. /\ clock \in 0 .. Horizon /\ publication \in 0 .. MaxPublications
        /\ window \in [Targets -> Windows]
    BY DEF ContentInv, ContentTypeOK
  <2>3. next \in 1 .. MaxPublications
    BY <2>1, <2>2, ScheduleBoundsAssumption
  <2> QED BY <2>2, <2>3 DEF Windows
<1>3. s \in {"approved", "published"} /\ "drama" \in Targets
  BY DEF Targets
<1>4. ASSUME NEW j \in ids
      PROVE  /\ j \in JobIds /\ j.publication = next
             /\ j.action = "unpublish" => window[j.target].unpublish # Never
             /\ j.target \in Targets
  <2>1. /\ j \in JobIds /\ j.publication = next /\ j.target \in Targets
        /\ j.action = "unpublish" => window[j.target].unpublish # Never
    BY DEF Scheduled, JobIds, Written, Targets
  <2> QED BY <2>1
<1>5. ASSUME NEW j \in JobIds
      PROVE  /\ job'[j] \in JobRow
             /\ job'[j].status \in {"pending", "retry"} => job'[j].attempts < MaxScheduleAttempts
             /\ owner = "tenant" /\ job'[j].status \in Live => j.publication = next
  <2>1. job[j] \in JobRow
    BY DEF ContentInv, ContentTypeOK, JobRow
  <2>2. CASE j \in ids
    <3>1. PICK at \in 0 .. Horizon :
            at = IF j.action = "publish" THEN window[j.target].release ELSE window[j.target].unpublish
      BY <1>2, <1>4, <2>2, ScheduleBoundsAssumption DEF Never, JobIds
    <3>2. job'[j] = [status |-> "pending", at |-> at, attempts |-> 0, lockedBy |-> NoScheduler]
      BY <1>1, <2>2, <3>1 DEF NoJob
    <3> QED BY <1>4, <2>2, <3>2, ScheduleBoundsAssumption DEF JobRow, JobStatus
  <2>3. CASE j \notin ids /\ owner = "tenant" /\ job[j].status \in Live
    <3>1. PICK row \in JobRow : row = job[j]
      BY <2>1
    <3>2. job'[j] = [row EXCEPT !.status = "cancelled", !.lockedBy = NoScheduler]
      BY <1>1, <2>3, <3>1 DEF Cancel
    <3> QED BY <3>2 DEF JobRow, JobStatus, Live
  <2>4. CASE j \notin ids /\ ~(owner = "tenant" /\ job[j].status \in Live)
    BY <1>1, <2>1, <2>4 DEF ContentInv, TriesAreLeft
  <2> QED BY <2>2, <2>3, <2>4
<1>6. ASSUME NEW t \in Targets, [target |-> t, action |-> "publish", publication |-> next] \in ids
      PROVE  /\ PublishJob(t)' \in JobIds /\ job'[PublishJob(t)'].status = "pending"
             /\ job'[PublishJob(t)'].at = window[t].release
  <2>1. PublishJob(t)' = [target |-> t, action |-> "publish", publication |-> next]
    BY <1>1 DEF PublishJob
  <2>2. PICK j \in ids : j = [target |-> t, action |-> "publish", publication |-> next]
    BY <1>6
  <2>3. j \in JobIds /\ j.action = "publish" /\ j.target = t
    BY <1>4, <2>2
  <2>4. job'[j] = [NoJob EXCEPT !.status = "pending", !.at = window[t].release]
    BY <1>1, <2>3
  <2>5. job'[j].status = "pending" /\ job'[j].at = window[t].release
    BY <2>4 DEF NoJob
  <2> QED BY <2>1, <2>2, <2>3, <2>5
<1>7. /\ s = "approved" => [target |-> "drama", action |-> "publish", publication |-> next] \in ids
      /\ \A e \in Written : ~Released(e) => [target |-> e, action |-> "publish", publication |-> next] \in ids
  <2>1. \A t \in Targets : [target |-> t, action |-> "publish", publication |-> next] \in JobIds
    BY <1>2 DEF JobIds
  <2>2. Written \subseteq Targets /\ "drama" \notin Written
    BY DramaAssumption DEF Written, Targets
  <2>3. s = "approved" => [target |-> "drama", action |-> "publish", publication |-> next] \in ids
    BY <1>3, <2>1 DEF Scheduled
  <2>4. ASSUME NEW e \in Written, ~Released(e)
        PROVE  [target |-> e, action |-> "publish", publication |-> next] \in ids
    BY <2>1, <2>2, <2>4 DEF Scheduled
  <2> QED BY <2>3, <2>4
<1> HIDE DEF s, ids, next
<1>8. ContentTypeOK'
  <2>1. status' \in [Targets -> Status]
    BY <1>1, <1>3 DEF Status
  <2>2. job' \in [JobIds -> JobRow]
    BY <1>1, <1>5
  <2>3. publication' \in 0 .. MaxPublications
    <3>1. publication' \in 1 .. MaxPublications
      BY <1>1, <1>2
    <3> QED BY <3>1, ScheduleBoundsAssumption
  <2> QED BY <1>1, <2>1, <2>2, <2>3 DEF ContentInv, ContentTypeOK, schedulers, JobRow
<1>9. TriesAreLeft' /\ LiveJobsAreCurrent'
  BY <1>1, <1>5 DEF TriesAreLeft, LiveJobsAreCurrent
<1>10. PublishedOnce' /\ FrozenIsWritten'
  <2>1. status'["drama"] = s
    BY <1>1, <1>3
  <2> QED BY <1>1, <1>2, <1>3, <2>1 DEF PublishedOnce, FrozenIsWritten
<1>11. \A t : Released(t)' <=> Released(t)
  BY <1>1 DEF Released
<1>12. DramaWaits'
  <2>1. status'["drama"] = s
    BY <1>1, <1>3
  <2> QED BY <1>3, <1>6, <1>7, <2>1 DEF DramaWaits, Kept, Live
<1>13. EpisodesWait' /\ LateEpisodesWait'
  <2>1. ASSUME NEW e \in Episodes, status'[e] \in {"approved", "published"}
        PROVE  /\ e \in Written /\ e \in Targets /\ e # "drama"
               /\ s = "published" /\ status'[e] = "approved" => ~Released(e)
    BY <1>1, <2>1, DramaAssumption DEF Targets
  <2>2. ASSUME NEW e \in Episodes, status'[e] \in {"approved", "published"}, ~Released(e)
        PROVE  job'[PublishJob(e)'].status = "pending" /\ job'[PublishJob(e)'].at = window'[e].release
    BY <1>1, <1>6, <1>7, <2>1, <2>2
  <2>3. status'["drama"] = s
    BY <1>1, <1>3
  <2>4. EpisodesWait'
    BY <1>11, <2>2 DEF EpisodesWait
  <2>5. LateEpisodesWait'
    BY <1>11, <2>1, <2>3 DEF LateEpisodesWait
  <2> QED BY <2>4, <2>5
<1> QED BY <1>8, <1>9, <1>10, <1>12, <1>13 DEF ContentInv

\* Taking the drama down.
LEMMA UnpublishKeepsContent ==
  ASSUME ContentInv, Unpublish \/ EmergencyTakedown PROVE ContentInv'
<1>1. status \in [Targets -> Status] /\ job \in [JobIds -> JobRow] /\ "drama" \in Targets
  BY DEF ContentInv, ContentTypeOK, JobRow, Targets
<1>2. /\ status' \in [Targets -> Status] /\ status'["drama"] = "unpublished"
  <2>1. CASE Unpublish
    BY <1>1, <2>1 DEF Unpublish, Status
  <2>2. CASE EmergencyTakedown
    BY <1>1, <2>2 DEF EmergencyTakedown, Status
  <2> QED BY <2>1, <2>2
<1>3. ASSUME NEW j \in JobIds
      PROVE  /\ job'[j] \in JobRow
             /\ job'[j].status \in Live => job[j].status \in Live
             /\ job'[j].status \in {"pending", "retry"} => job'[j] = job[j]
  <2>1. CASE job'[j] = job[j]
    BY <1>1, <2>1
  <2>2. CASE job'[j] = Cancel(job[j])
    <3>1. PICK row \in JobRow : row = job[j]
      BY <1>1
    <3>2. job'[j] = [row EXCEPT !.status = "cancelled", !.lockedBy = NoScheduler]
      BY <2>2, <3>1 DEF Cancel
    <3> QED BY <3>2 DEF JobRow, JobStatus, Live
  <2>3. job'[j] = job[j] \/ job'[j] = Cancel(job[j])
    BY <1>1 DEF Unpublish, EmergencyTakedown
  <2> QED BY <2>1, <2>2, <2>3
<1>4. /\ UNCHANGED <<owner, window, revision, deleted, frozen, publication, clock, listing, schedulers>>
      /\ takenDown' \in BOOLEAN
      /\ job' = job \/ job' = [j \in JobIds |-> job'[j]]
  <2>1. CASE Unpublish
    BY <2>1 DEF Unpublish, ContentInv, ContentTypeOK
  <2>2. CASE EmergencyTakedown
    BY <2>2 DEF EmergencyTakedown
  <2> QED BY <2>1, <2>2
<1>5. job' \in [JobIds -> JobRow]
  BY <1>1, <1>3, <1>4
<1>6. ContentTypeOK'
  BY <1>2, <1>4, <1>5 DEF ContentInv, ContentTypeOK, schedulers, JobRow
<1> QED BY <1>2, <1>3, <1>4, <1>6, HiddenDramasWaitForNothing

LEMMA TickKeepsContent ==
  ASSUME ContentInv, Tick PROVE ContentInv'
<1>1. UNCHANGED <<dramaRows, listing, job, schedulers>> /\ clock' = clock + 1 /\ clock' \in 0 .. Horizon
  BY ScheduleBoundsAssumption DEF ContentInv, ContentTypeOK, Tick
<1>2. ContentTypeOK'
  BY <1>1 DEF ContentInv, ContentTypeOK, dramaRows, schedulers
<1>3. UNCHANGED <<owner, status, window, publication, job, frozen>> /\ \A t : PublishJob(t)' = PublishJob(t)
  BY <1>1 DEF dramaRows, PublishJob
<1>4. ASSUME NEW e \in Episodes, ~Released(e)' PROVE ~Released(e)
  <2>1. window[e].release \in 0 .. Horizon /\ clock \in 0 .. Horizon
    BY DEF ContentInv, ContentTypeOK, Windows, Targets
  <2> QED BY <1>1, <1>3, <1>4, <2>1, ScheduleBoundsAssumption DEF Released
<1>5. TriesAreLeft' /\ LiveJobsAreCurrent' /\ PublishedOnce' /\ FrozenIsWritten' /\ DramaWaits'
  BY <1>3 DEF ContentInv, TriesAreLeft, LiveJobsAreCurrent, PublishedOnce, FrozenIsWritten, DramaWaits
<1>6. EpisodesWait'
  BY <1>3, <1>4 DEF ContentInv, EpisodesWait
<1>7. LateEpisodesWait'
  <2>1. ASSUME status["drama"] = "published", NEW e \in Episodes, status[e] = "approved"
        PROVE  job[PublishJob(e)].status \in Kept
    <3>1. CASE Released(e)
      BY <2>1, <3>1 DEF ContentInv, LateEpisodesWait
    <3>2. CASE ~Released(e)
      BY <2>1, <3>2 DEF ContentInv, EpisodesWait, Kept, Live
    <3> QED BY <3>1, <3>2
  <2> QED BY <1>3, <2>1 DEF LateEpisodesWait
<1> QED BY <1>2, <1>5, <1>6, <1>7 DEF ContentInv

\* Jobs that move without taking effect: nothing that waits for its time is claimed before
\* it, and no job of a publication that stands is forgotten.
LEMMA MovesKeepContent ==
  ASSUME ContentInv, ContentTypeOK', UNCHANGED <<dramaRows, clock>>,
         \A j \in JobIds :
           /\ job'[j].status \in {"pending", "retry"} => job'[j].attempts < MaxScheduleAttempts
           /\ job'[j].status \in Live => job[j].status \in Live
           /\ job[j].status \in Kept => job'[j].status \in Kept
           /\ job[j].status = "pending" /\ job[j].at > clock => job'[j] = job[j]
  PROVE  ContentInv'
<1>1. UNCHANGED <<owner, status, window, publication, frozen, clock>> /\ \A t : PublishJob(t)' = PublishJob(t)
  BY DEF dramaRows, PublishJob
<1>2. TriesAreLeft' /\ PublishedOnce' /\ FrozenIsWritten'
  BY <1>1 DEF ContentInv, TriesAreLeft, PublishedOnce, FrozenIsWritten
<1>3. LiveJobsAreCurrent'
  BY <1>1 DEF ContentInv, LiveJobsAreCurrent
<1>4. status["drama"] \in {"approved", "published"} => \A t \in Targets : PublishJob(t) \in JobIds
  BY PublishJobExists DEF ContentInv, PublishedOnce
<1>5. DramaWaits'
  BY <1>1, <1>4 DEF ContentInv, DramaWaits, Targets
<1>6. EpisodesWait'
  <2>1. ASSUME status["drama"] \in {"approved", "published"}, NEW e \in Episodes,
               status[e] \in {"approved", "published"}, ~Released(e)
        PROVE  job'[PublishJob(e)].status = "pending" /\ job'[PublishJob(e)].at = window[e].release
    <3>1. PICK j \in JobIds : j = PublishJob(e)
      BY <1>4, <2>1 DEF Targets
    <3>2. job[j].status = "pending" /\ job[j].at = window[e].release
      BY <2>1, <3>1 DEF ContentInv, EpisodesWait
    <3>3. job[j].at > clock
      <4>1. window[e].release \in 0 .. Horizon /\ clock \in 0 .. Horizon
        BY DEF ContentInv, ContentTypeOK, Windows, Targets
      <4> QED BY <2>1, <3>2, <4>1, ScheduleBoundsAssumption DEF Released
    <3> QED BY <3>1, <3>2, <3>3
  <2>2. \A e \in Episodes : Released(e)' <=> Released(e)
    BY <1>1 DEF Released
  <2> QED BY <1>1, <2>1, <2>2 DEF EpisodesWait
<1>7. LateEpisodesWait'
  <2>1. \A e \in Episodes : Released(e)' <=> Released(e)
    BY <1>1 DEF Released
  <2> QED BY <1>1, <1>4, <2>1 DEF ContentInv, LateEpisodesWait, Targets
<1> QED BY <1>2, <1>3, <1>5, <1>6, <1>7 DEF ContentInv

\* A failed job is tried again if it has tries left, and says so if not.
LEMMA FailedJobs ==
  ASSUME NEW row \in JobRow, NEW retryable \in BOOLEAN
  PROVE  /\ FailedJob(row, retryable) \in JobRow
         /\ FailedJob(row, retryable).status \in {"retry", "failed"}
         /\ FailedJob(row, retryable).status = "retry"
              => FailedJob(row, retryable).attempts < MaxScheduleAttempts
<1>1. PICK s \in {"retry", "failed"} :
        /\ s = IF retryable /\ row.attempts < MaxScheduleAttempts THEN "retry" ELSE "failed"
        /\ s = "retry" => row.attempts < MaxScheduleAttempts
  OBVIOUS
<1>2. FailedJob(row, retryable) = [row EXCEPT !.status = s, !.lockedBy = NoScheduler]
  BY <1>1 DEF FailedJob
<1>3. PICK r : r = FailedJob(row, retryable)
  OBVIOUS
<1>4. r = [status |-> s, at |-> row.at, attempts |-> row.attempts, lockedBy |-> NoScheduler]
  BY <1>2, <1>3 DEF JobRow
<1> QED BY <1>1, <1>3, <1>4 DEF JobRow, JobStatus

LEMMA StartKeepsContent ==
  ASSUME ContentInv, NEW w \in Schedulers, StartScheduler(w) PROVE ContentInv'
<1> DEFINE stale == {j \in lockOld : job[j].status = "processing"}
<1>1. /\ job' = [j \in JobIds |-> IF j \in stale THEN FailedJob(job[j], TRUE) ELSE job[j]]
      /\ schedulerUp' = [schedulerUp EXCEPT ![w] = TRUE] /\ lockOld' = {}
      /\ UNCHANGED <<dramaRows, clock, listing, claimed, schedulerStops>>
  BY DEF StartScheduler
<1>2. job \in [JobIds -> JobRow] /\ TriesAreLeft
  BY DEF ContentInv, ContentTypeOK, JobRow
<1>3. ASSUME NEW j \in JobIds
      PROVE  /\ job'[j] \in JobRow
             /\ job'[j].status \in {"pending", "retry"} => job'[j].attempts < MaxScheduleAttempts
             /\ job'[j].status \in Live => job[j].status \in Live
             /\ job[j].status \in Kept => job'[j].status \in Kept
             /\ job[j].status = "pending" => job'[j] = job[j]
  <2>1. CASE j \in stale
    <3>1. PICK row \in JobRow : row = job[j]
      BY <1>2
    <3>2. PICK b \in BOOLEAN : b = TRUE
      OBVIOUS
    <3>3. job'[j] = FailedJob(row, b)
      BY <1>1, <2>1, <3>1, <3>2
    <3>4. job'[j] \in JobRow /\ job'[j].status \in {"retry", "failed"}
          /\ (job'[j].status = "retry" => job'[j].attempts < MaxScheduleAttempts)
      BY <3>3, FailedJobs
    <3> QED BY <2>1, <3>4 DEF Live, Kept
  <2>2. CASE j \notin stale
    BY <1>1, <1>2, <2>2 DEF TriesAreLeft
  <2> QED BY <2>1, <2>2
<1>4. job' \in [JobIds -> JobRow]
  BY <1>1, <1>3
<1>5. ContentTypeOK'
  BY <1>1, <1>4 DEF ContentInv, ContentTypeOK, dramaRows, JobRow
<1> QED BY <1>1, <1>3, <1>5, MovesKeepContent

LEMMA ClaimKeepsContent ==
  ASSUME ContentInv, NEW w \in Schedulers, ClaimDue(w) PROVE ContentInv'
<1>1. PICK batch \in SUBSET Due :
        /\ job' = [j \in JobIds |->
             IF j \in batch
             THEN [job[j] EXCEPT !.status = "processing", !.attempts = @ + 1, !.lockedBy = w]
             ELSE job[j]]
        /\ lockOld' = lockOld \ batch
        /\ claimed' = [claimed EXCEPT ![w] = batch]
        /\ UNCHANGED <<dramaRows, clock, listing, schedulerUp, schedulerStops>>
  BY DEF ClaimDue
<1>2. job \in [JobIds -> JobRow] /\ TriesAreLeft /\ clock \in 0 .. Horizon
  BY DEF ContentInv, ContentTypeOK, JobRow
<1>3. ASSUME NEW j \in JobIds
      PROVE  /\ job'[j] \in JobRow
             /\ job'[j].status \in {"pending", "retry"} => job'[j].attempts < MaxScheduleAttempts
             /\ job'[j].status \in Live => job[j].status \in Live
             /\ job[j].status \in Kept => job'[j].status \in Kept
             /\ job[j].status = "pending" /\ job[j].at > clock => job'[j] = job[j]
  <2>1. CASE j \in batch
    <3>1. PICK row \in JobRow : row = job[j]
      BY <1>2
    <3>2. /\ row.status \in {"pending", "retry"} /\ row.at <= clock /\ row.attempts < MaxScheduleAttempts
      BY <1>2, <2>1, <3>1 DEF Due, TriesAreLeft
    <3>3. job'[j] = [status |-> "processing", at |-> row.at, attempts |-> row.attempts + 1, lockedBy |-> w]
      BY <1>1, <2>1, <3>1 DEF JobRow
    <3>4. row.attempts + 1 \in 0 .. MaxScheduleAttempts /\ row.at \in 0 .. Horizon
      BY <3>2, ScheduleBoundsAssumption DEF JobRow
    <3> QED BY <1>2, <3>1, <3>2, <3>3, <3>4, ScheduleBoundsAssumption DEF JobRow, JobStatus, Live, Kept
  <2>2. CASE j \notin batch
    BY <1>1, <1>2, <2>2 DEF TriesAreLeft
  <2> QED BY <2>1, <2>2
<1>4. job' \in [JobIds -> JobRow]
  BY <1>1, <1>3
<1>5. ContentTypeOK'
  BY <1>1, <1>4 DEF ContentInv, ContentTypeOK, dramaRows, JobRow, Due
<1> QED BY <1>1, <1>3, <1>5, MovesKeepContent

LEMMA RefusalKeepsSchedule ==
  ASSUME ContentInv, NEW w \in Schedulers, NEW j \in JobIds, NEW retryable \in BOOLEAN,
         LocksJob(w, j), RefuseJob(j, retryable), Done(w, j), lockOld' = lockOld \ {j},
         UNCHANGED <<clock, listing, schedulerUp, schedulerStops>>
  PROVE  ContentInv'
<1>1. job \in [JobIds -> JobRow] /\ TriesAreLeft
  BY DEF ContentInv, ContentTypeOK, JobRow
<1>2. PICK row \in JobRow : row = job[j]
  BY <1>1
<1>3. PICK failed \in JobRow :
        /\ failed = FailedJob(row, retryable)
        /\ failed.status \in {"retry", "failed"}
        /\ failed.status = "retry" => failed.attempts < MaxScheduleAttempts
  BY FailedJobs
<1>4. job' = [job EXCEPT ![j] = failed] /\ row.status = "processing" /\ UNCHANGED dramaRows
  BY <1>2, <1>3 DEF RefuseJob, LocksJob
<1>5. job' \in [JobIds -> JobRow]
  BY <1>1, <1>3, <1>4
<1>6. ContentTypeOK'
  BY <1>4, <1>5 DEF ContentInv, ContentTypeOK, dramaRows, JobRow, Done
<1>7. ASSUME NEW k \in JobIds
      PROVE  /\ job'[k].status \in {"pending", "retry"} => job'[k].attempts < MaxScheduleAttempts
             /\ job'[k].status \in Live => job[k].status \in Live
             /\ job[k].status \in Kept => job'[k].status \in Kept
             /\ job[k].status = "pending" => job'[k] = job[k]
  <2>1. CASE k = j
    BY <1>1, <1>2, <1>3, <1>4, <2>1 DEF Live, Kept
  <2>2. CASE k # j
    BY <1>1, <1>4, <2>2 DEF TriesAreLeft
  <2> QED BY <2>1, <2>2
<1> QED BY <1>4, <1>6, <1>7, MovesKeepContent

\* What a job leaves of the drama: an episode that waits now waits for its time.
LEMMA AfterAJob ==
  ASSUME ContentInv, NEW j \in JobIds, ~NotPermitted(j), status' = AfterJob(j)
  PROVE  /\ status' \in [Targets -> Status]
         /\ \A t \in Targets : status[t] # "none" <=> status'[t] # "none"
         /\ status["drama"] = "none" => status'["drama"] = "none"
         /\ status'["drama"] \in {"approved", "published"} => status["drama"] \in {"approved", "published"}
         /\ status'["drama"] = "approved" => status["drama"] = "approved" /\ j.target # "drama"
         /\ \A e \in Episodes : status'[e] \in {"approved", "published"} =>
              \/ status[e] \in {"approved", "published"}
              \/ status'["drama"] \notin {"approved", "published"}
         /\ \A e \in Episodes : status'["drama"] = "published" /\ status'[e] = "approved" =>
              \/ ~Released(e)
              \/ /\ status["drama"] = "published" /\ status[e] = "approved"
                 /\ j.target # e
<1>1. status \in [Targets -> Status] /\ j.target \in Targets /\ j.action \in {"publish", "unpublish"}
      /\ owner \in Owners
  BY DEF ContentInv, ContentTypeOK, JobIds
<1>2. "drama" \in Targets /\ "drama" \notin Episodes /\ \A e \in Episodes : e \in Targets /\ e # "drama"
  BY DramaAssumption DEF Targets
<1>3. status[j.target] \in {"approved", "published", "unpublished"}
      /\ (j.action = "publish" => status[j.target] \in {"approved", "published"})
  BY <1>1 DEF NotPermitted
<1>4. CASE j.target # "drama"
  <2>1. /\ status' = [t \in Targets |->
             IF t = j.target THEN IF j.action = "publish" THEN "published" ELSE "unpublished"
             ELSE status[t]]
    BY <1>4 DEF AfterJob
  <2> QED BY <1>1, <1>2, <1>3, <1>4, <2>1 DEF Status
<1>5. CASE j.target = "drama" /\ j.action = "publish"
  <2>1. /\ status' = [t \in Targets |->
             IF t = "drama" THEN "published"
             ELSE IF t \in Written
             THEN IF status[t] \notin {"approved", "published"} THEN status[t]
                  ELSE IF Elapsed(t) THEN "unpublished"
                  ELSE IF Released(t) THEN "published" ELSE "approved"
             ELSE status[t]]
    BY <1>5 DEF AfterJob
  <2>2. \A e \in Episodes : e \in Written <=> status[e] # "none"
    BY DEF Written
  <2>3. /\ status' \in [Targets -> Status]
        /\ \A t \in Targets : status[t] # "none" <=> status'[t] # "none"
    BY <1>1, <1>2, <1>3, <1>5, <2>1 DEF Status
  <2>4. status'["drama"] = "published" /\ status["drama"] \in {"approved", "published"}
    BY <1>1, <1>2, <1>3, <1>5, <2>1
  <2>5. ASSUME NEW e \in Episodes, status'[e] \in {"approved", "published"}
        PROVE  status[e] \in {"approved", "published"} /\ (status'[e] = "approved" => ~Released(e))
    BY <1>2, <2>1, <2>2, <2>5
  <2> QED BY <1>1, <1>2, <2>3, <2>4, <2>5
<1>6. CASE j.target = "drama" /\ j.action = "unpublish"
  <2>1. /\ status' = [t \in Targets |->
             IF t = "drama" THEN "unpublished"
             ELSE IF t \in Written
             THEN IF status[t] = "published" \/ (status[t] = "approved" /\ owner = "platform")
                  THEN "unpublished" ELSE status[t]
             ELSE status[t]]
    BY <1>6 DEF AfterJob
  <2> QED BY <1>1, <1>2, <1>3, <1>6, <2>1 DEF Status
<1> QED BY <1>1, <1>4, <1>5, <1>6

LEMMA CompletionKeepsContent ==
  ASSUME ContentInv, NEW w \in Schedulers, NEW j \in JobIds,
         LocksJob(w, j), ~NotPermitted(j), Complete(w, j), Done(w, j), lockOld' = lockOld \ {j},
         UNCHANGED <<clock, listing, schedulerUp, schedulerStops>>
  PROVE  ContentInv'
<1>1. job \in [JobIds -> JobRow] /\ job[j].status = "processing"
  BY DEF ContentInv, ContentTypeOK, JobRow, LocksJob
<1>2. PICK row \in JobRow : row = job[j]
  BY <1>1
<1>3. PICK done \in JobRow : done = [row EXCEPT !.status = "completed", !.lockedBy = NoScheduler]
  BY DEF JobRow, JobStatus
<1>4. done.status = "completed" /\ done.status \notin Live
  BY <1>3 DEF JobRow, Live
<1>5. /\ job' = [job EXCEPT ![j] = done] /\ status' = AfterJob(j)
      /\ UNCHANGED <<owner, window, revision, deleted, frozen, takenDown, publication>>
  BY <1>2, <1>3 DEF Complete
<1>6. job' \in [JobIds -> JobRow] /\ \A k \in JobIds : job'[k] = IF k = j THEN done ELSE job[k]
  BY <1>1, <1>5
<1>7. /\ status' \in [Targets -> Status]
      /\ \A t \in Targets : status[t] # "none" <=> status'[t] # "none"
      /\ status'["drama"] \in {"approved", "published"} => status["drama"] \in {"approved", "published"}
      /\ status'["drama"] = "approved" => status["drama"] = "approved" /\ j.target # "drama"
      /\ \A e \in Episodes : status'[e] \in {"approved", "published"} =>
           \/ status[e] \in {"approved", "published"}
           \/ status'["drama"] \notin {"approved", "published"}
      /\ \A e \in Episodes : status'["drama"] = "published" /\ status'[e] = "approved" =>
           \/ ~Released(e)
           \/ /\ status["drama"] = "published" /\ status[e] = "approved"
              /\ j.target # e
  BY <1>5, AfterAJob
<1>8. ContentTypeOK'
  BY <1>5, <1>6, <1>7 DEF ContentInv, ContentTypeOK, JobRow, Done
<1>9. TriesAreLeft' /\ LiveJobsAreCurrent'
  BY <1>4, <1>5, <1>6 DEF ContentInv, TriesAreLeft, LiveJobsAreCurrent, Live
<1>10. PublishedOnce' /\ FrozenIsWritten'
  BY <1>5, <1>7 DEF ContentInv, PublishedOnce, FrozenIsWritten, Targets
<1>11. /\ \A t : PublishJob(t)' = PublishJob(t) /\ PublishJob(t).target = t
       /\ \A t : Released(t)' <=> Released(t)
       /\ status["drama"] \in {"approved", "published"} => \A t \in Targets : PublishJob(t) \in JobIds
  <2>1. \A t : PublishJob(t)' = PublishJob(t) /\ PublishJob(t).target = t
    BY <1>5 DEF PublishJob
  <2>2. \A t : Released(t)' <=> Released(t)
    BY <1>5 DEF Released
  <2> QED BY <2>1, <2>2, PublishJobExists DEF ContentInv, PublishedOnce
<1>12. DramaWaits'
  <2>1. ASSUME status'["drama"] = "approved" PROVE job'[PublishJob("drama")].status \in Kept
    <3>1. PICK k \in JobIds : k = PublishJob("drama")
      BY <1>7, <1>11, <2>1 DEF Targets
    <3>2. k # j /\ job[k].status \in Kept
      BY <1>7, <1>11, <2>1, <3>1 DEF ContentInv, DramaWaits
    <3> QED BY <1>6, <3>1, <3>2
  <2> QED BY <1>11, <2>1 DEF DramaWaits
<1>13. EpisodesWait'
  <2>1. ASSUME status'["drama"] \in {"approved", "published"}, NEW e \in Episodes,
               status'[e] \in {"approved", "published"}, ~Released(e)
        PROVE  job'[PublishJob(e)].status = "pending" /\ job'[PublishJob(e)].at = window[e].release
    <3>1. PICK k \in JobIds : k = PublishJob(e)
      BY <1>7, <1>11, <2>1 DEF Targets
    <3>2. job[k].status = "pending" /\ job[k].at = window[e].release
      BY <1>7, <2>1, <3>1 DEF ContentInv, EpisodesWait
    <3> QED BY <1>1, <1>6, <3>1, <3>2
  <2> QED BY <1>5, <1>11, <2>1 DEF EpisodesWait
<1>14. LateEpisodesWait'
  <2>1. ASSUME status'["drama"] = "published", NEW e \in Episodes, status'[e] = "approved", Released(e)
        PROVE  job'[PublishJob(e)].status \in Kept
    <3>1. PICK k \in JobIds : k = PublishJob(e)
      BY <1>7, <1>11, <2>1 DEF Targets
    <3>2. k # j /\ job[k].status \in Kept
      BY <1>7, <1>11, <2>1, <3>1 DEF ContentInv, LateEpisodesWait
    <3> QED BY <1>6, <3>1, <3>2
  <2> QED BY <1>11, <2>1 DEF LateEpisodesWait
<1> QED BY <1>8, <1>9, <1>10, <1>12, <1>13, <1>14 DEF ContentInv

LEMMA ContentStep ==
  ASSUME ContentInv, [ContentNext]_contentVars PROVE ContentInv'
<1>1. CASE CreateDrama \/ EditDrama \/ WithdrawReview
             \/ \E e \in Episodes : AddEpisode(e) \/ EditEpisode(e) \/ EditTrack(e)
  BY <1>1, EditsKeepContent
<1>2. CASE Delete \/ Restore
  <2>1. /\ UNCHANGED <<owner, status, window, revision, frozen, takenDown, publication, clock, listing,
                       job, schedulers>>
        /\ deleted' \in BOOLEAN
    BY <1>2 DEF Delete, Restore
  <2>2. ContentTypeOK'
    BY <2>1 DEF ContentInv, ContentTypeOK, schedulers
  <2> QED BY <2>1, <2>2, OthersKeepContent
<1>3. CASE ReviewListing \/ UnlistDrama
  <2>1. /\ UNCHANGED <<dramaRows, clock, job, schedulers>>
        /\ listing' \in {"none", "approved", "rejected", "published", "unpublished"}
    BY <1>3 DEF ReviewListing, UnlistDrama
  <2>2. ContentTypeOK' /\ UNCHANGED <<owner, status, window, publication, clock, job, frozen>>
    BY <2>1 DEF ContentInv, ContentTypeOK, dramaRows, schedulers
  <2> QED BY <2>2, OthersKeepContent
<1>4. CASE ListDrama
  <2>1. ContentTypeOK'
    BY <1>4 DEF ListDrama, ContentInv, ContentTypeOK, schedulers
  <2> QED BY <1>4, <2>1, OthersKeepContent DEF ListDrama
<1>5. ASSUME NEW j \in JobIds, LockAges(j) PROVE ContentInv'
  <2>1. ContentTypeOK' /\ UNCHANGED <<owner, status, window, publication, clock, job, frozen>>
    BY <1>5 DEF LockAges, ContentInv, ContentTypeOK, dramaRows
  <2> QED BY <2>1, OthersKeepContent
<1>6. ASSUME NEW w \in Schedulers, StopScheduler(w) \/ \E j \in JobIds : SkipJob(w, j) PROVE ContentInv'
  <2>1. /\ UNCHANGED <<dramaRows, clock, listing, job, lockOld>>
        /\ schedulerUp' \in [Schedulers -> BOOLEAN] /\ claimed' \in [Schedulers -> SUBSET JobIds]
        /\ schedulerStops' \in Nat
    <3>1. CASE StopScheduler(w)
      BY <3>1 DEF StopScheduler, ContentInv, ContentTypeOK
    <3>2. ASSUME NEW j \in JobIds, SkipJob(w, j)
          PROVE  /\ UNCHANGED <<dramaRows, clock, listing, job, lockOld, schedulerUp, schedulerStops>>
                 /\ claimed' = [claimed EXCEPT ![w] = @ \ {j}]
      BY <3>2 DEF SkipJob, Done
    <3>3. ASSUME NEW j \in JobIds, SkipJob(w, j) PROVE claimed' \in [Schedulers -> SUBSET JobIds]
      BY <3>2, <3>3 DEF ContentInv, ContentTypeOK
    <3> QED BY <1>6, <3>1, <3>2, <3>3 DEF ContentInv, ContentTypeOK
  <2>2. ContentTypeOK' /\ UNCHANGED <<owner, status, window, publication, clock, job, frozen>>
    BY <2>1 DEF ContentInv, ContentTypeOK, dramaRows
  <2> QED BY <2>2, OthersKeepContent
<1>7. ASSUME NEW w \in Schedulers, NEW j \in JobIds, ExecuteJob(w, j) PROVE ContentInv'
  <2>1. /\ LocksJob(w, j) /\ Done(w, j) /\ lockOld' = lockOld \ {j}
        /\ UNCHANGED <<clock, listing, schedulerUp, schedulerStops>>
    BY <1>7 DEF ExecuteJob
  <2>2. CASE deleted \/ NotPermitted(j)
    BY <1>7, <2>1, <2>2, RefusalKeepsSchedule DEF ExecuteJob
  <2>3. CASE ~(deleted \/ NotPermitted(j))
    BY <1>7, <2>1, <2>3, CompletionKeepsContent DEF ExecuteJob
  <2> QED BY <2>2, <2>3
<1>8. ASSUME NEW w \in Schedulers, NEW j \in JobIds, ExecuteJobFails(w, j) PROVE ContentInv'
  BY <1>8, RefusalKeepsSchedule DEF ExecuteJobFails
<1>9. CASE UNCHANGED contentVars
  <2>1. ContentTypeOK' /\ UNCHANGED <<owner, status, window, publication, clock, job, frozen>>
    BY <1>9 DEF contentVars, dramaRows, schedulers, ContentInv, ContentTypeOK
  <2> QED BY <2>1, OthersKeepContent
<1> QED
  BY <1>1, <1>2, <1>3, <1>4, <1>5, <1>6, <1>7, <1>8, <1>9, PublishKeepsContent, UnpublishKeepsContent,
     TickKeepsContent, StartKeepsContent, ClaimKeepsContent
  DEF ContentNext, StaffNext, SchedulerNext

LEMMA ContentInvariant == ContentSpec => []ContentInv
<1>1. ContentInv /\ [ContentNext]_contentVars => ContentInv'
  BY ContentStep
<1> QED BY <1>1, ContentInitially, PTL DEF ContentSpec

\* Whatever waits for its time has a job that will wake it, or one that failed and says so.
LEMMA WaitingHasItsJob == ContentInv => WaitingIsScheduled
<1> SUFFICES ASSUME ContentInv PROVE WaitingIsScheduled
  OBVIOUS
<1>1. ASSUME NEW t \in Targets, status["drama"] \in {"approved", "published"}, job[PublishJob(t)].status \in Kept
      PROVE  \E j \in JobIds : /\ j.target = t /\ j.action = "publish"
                               /\ j.publication = publication
                               /\ job[j].status \in {"pending", "retry", "processing", "failed"}
  <2>1. PICK j \in JobIds : j = PublishJob(t)
    BY <1>1, PublishJobExists DEF ContentInv, PublishedOnce
  <2>2. j.target = t /\ j.action = "publish" /\ j.publication = publication
    BY <2>1 DEF PublishJob
  <2> QED BY <1>1, <2>1, <2>2 DEF Kept, Live
<1>2. ASSUME NEW e \in Episodes, status["drama"] = "published", status[e] = "approved"
      PROVE  job[PublishJob(e)].status \in Kept
  BY <1>2 DEF ContentInv, EpisodesWait, LateEpisodesWait, Kept, Live
<1> QED BY <1>1, <1>2 DEF ContentInv, DramaWaits, WaitingIsScheduled, Targets

LEMMA CompletionsAreCurrent ==
  ASSUME ContentInv, [ContentNext]_contentVars PROVE TenantSchedulesAreCurrent
<1> SUFFICES ASSUME NEW j \in JobIds, owner = "tenant", JobCompletes(j) PROVE j.publication = publication
  BY DEF TenantSchedulesAreCurrent
<1>1. job[j].status = "processing"
  <2>1. job \in [JobIds -> JobRow] /\ job[j].status # "completed" /\ job'[j].status = "completed"
    BY DEF ContentInv, ContentTypeOK, JobRow, JobCompletes
  <2>2. ASSUME NEW k \in JobIds, NEW retryable \in BOOLEAN PROVE FailedJob(job[k], retryable).status # "completed"
    <3>1. PICK row \in JobRow : row = job[k]
      BY <2>1
    <3> QED BY <3>1, FailedJobs
  <2>3. job' # job
    BY <2>1
  <2>4. ASSUME NEW k \in JobIds PROVE Cancel(job[k]).status # "completed"
    <3>1. PICK row \in JobRow : row = job[k]
      BY <2>1
    <3> QED BY <3>1 DEF Cancel, JobRow
  <2>5. ~Publish
    <3> SUFFICES ASSUME Publish PROVE FALSE
      OBVIOUS
    <3>1. \/ job'[j] = Cancel(job[j]) \/ job'[j] = job[j]
          \/ \E at : job'[j] = [NoJob EXCEPT !.status = "pending", !.at = at]
      BY DEF Publish
    <3>2. \A at : [NoJob EXCEPT !.status = "pending", !.at = at].status = "pending"
      BY DEF NoJob
    <3> QED BY <2>1, <2>4, <3>1, <3>2
  <2>6. ~Unpublish
    <3>1. Unpublish => job'[j] \in {job[j], Cancel(job[j])}
      BY DEF Unpublish
    <3> QED BY <2>1, <2>4, <3>1
  <2>7. ASSUME NEW w \in Schedulers, StartScheduler(w) PROVE FALSE
    <3>1. job'[j] \in {job[j], FailedJob(job[j], TRUE)}
      BY <2>7 DEF StartScheduler
    <3> QED BY <2>1, <2>2, <3>1
  <2>8. ASSUME NEW w \in Schedulers, ClaimDue(w) PROVE FALSE
    <3>1. job'[j] = job[j] \/ job'[j] = [job[j] EXCEPT !.status = "processing", !.attempts = @ + 1, !.lockedBy = w]
      BY <2>8 DEF ClaimDue
    <3>2. PICK row \in JobRow : row = job[j]
      BY <2>1
    <3>3. job'[j] = job[j] \/ job'[j].status = "processing"
      BY <3>1, <3>2 DEF JobRow
    <3> QED BY <2>1, <3>3
  <2>9. ASSUME NEW w \in Schedulers, NEW k \in JobIds, ExecuteJob(w, k) \/ ExecuteJobFails(w, k)
        PROVE  job[j].status = "processing"
    <3>1. job[k].status = "processing"
      BY <2>9 DEF ExecuteJob, ExecuteJobFails, LocksJob
    <3>2. \A i \in JobIds \ {k} : job'[i] = job[i]
      BY <2>1, <2>9 DEF ExecuteJob, ExecuteJobFails, RefuseJob, Complete
    <3> QED BY <2>1, <3>1, <3>2
  <2> QED
    BY <2>3, <2>5, <2>6, <2>7, <2>8, <2>9
    DEF ContentNext, StaffNext, SchedulerNext, CreateDrama, EditDrama, WithdrawReview, AddEpisode,
        EditEpisode, EditTrack, Delete, Restore, EmergencyTakedown, ReviewListing, ListDrama,
        UnlistDrama, Tick, LockAges, StopScheduler, SkipJob, contentVars
<1> QED BY <1>1 DEF ContentInv, LiveJobsAreCurrent, Live

\* No drama or episode waits in vain, whatever stale jobs, crashes and edits do in
\* between, and a tenant's drama is moved by jobs of its last publication only
\* (publishDrama, setTenantDramaPublication, ContentScheduleWorkerService).
THEOREM SchedulesStayKept == ContentSpec => SchedulesAreKept
<1>1. ContentInv /\ ContentInv' /\ [ContentNext]_contentVars
        => [WaitingIsScheduled' /\ TenantSchedulesAreCurrent]_contentVars
  <2>1. ContentInv' => WaitingIsScheduled'
    <3>1. ContentInv => WaitingIsScheduled
      BY WaitingHasItsJob
    <3> QED BY <3>1, PTL
  <2> QED BY <2>1, CompletionsAreCurrent
<1> QED BY <1>1, ContentInvariant, PTL DEF ContentSpec, SchedulesAreKept

\* What a merchant listed is never edited again: no path of the platform's editors nor of
\* the worker changes the drama's content (app.freeze_public_release and the guards of
\* PlatformContentLibraryService).
THEOREM ListedStaysFrozen == ContentSpec => ListedContentIsFrozen
<1>1. ContentInv /\ [ContentNext]_contentVars
        => [frozen => frozen' /\ UNCHANGED <<revision, window, Written>>]_contentVars
  <2> SUFFICES ASSUME ContentInv, [ContentNext]_contentVars, frozen
               PROVE  frozen' /\ UNCHANGED <<revision, window, Written>>
    OBVIOUS
  <2>1. status["drama"] # "none" /\ status \in [Targets -> Status]
    BY DEF ContentInv, FrozenIsWritten, ContentTypeOK
  <2>2. ~CreateDrama /\ ~EditDrama /\ \A e \in Episodes : ~AddEpisode(e) /\ ~EditEpisode(e) /\ ~EditTrack(e)
    BY <2>1 DEF CreateDrama, EditDrama, AddEpisode, EditEpisode, EditTrack, Revise, CanEdit
  <2>3. CASE UNCHANGED <<status, frozen, revision, window>>
    BY <2>3 DEF Written
  <2>4. CASE WithdrawReview
    BY <2>1, <2>4, DramaAssumption DEF WithdrawReview, Written
  <2>5. CASE Publish
    <3>1. /\ frozen' = frozen /\ revision' = revision /\ window' = window
          /\ \A e \in Episodes : e \in Targets /\ e # "drama"
      BY <2>5, DramaAssumption DEF Publish, Targets
    <3>2. \A e \in Episodes : status'[e] = "none" <=> e \notin Written
      BY <2>5, <3>1 DEF Publish
    <3> QED BY <3>1, <3>2 DEF Written
  <2>6. CASE Unpublish \/ EmergencyTakedown
    <3>1. /\ frozen' = frozen /\ revision' = revision /\ window' = window
          /\ \A e \in Episodes : e \in Targets /\ e # "drama"
      BY <2>6, DramaAssumption DEF Unpublish, EmergencyTakedown, Targets
    <3>2. \A e \in Episodes : status'[e] = "none" <=> status[e] = "none"
      BY <2>6, <3>1 DEF Unpublish, EmergencyTakedown, Written
    <3> QED BY <3>1, <3>2 DEF Written
  <2>7. CASE ListDrama
    BY <2>7 DEF ListDrama, Written
  <2>8. ASSUME NEW w \in Schedulers, NEW j \in JobIds, ExecuteJob(w, j)
        PROVE  frozen' /\ UNCHANGED <<revision, window, Written>>
    <3>1. CASE deleted \/ NotPermitted(j)
      BY <2>8, <3>1 DEF ExecuteJob, RefuseJob, dramaRows, Written
    <3>2. CASE ~(deleted \/ NotPermitted(j))
      <4>1. status' = AfterJob(j) /\ UNCHANGED <<frozen, revision, window>>
        BY <2>8, <3>2 DEF ExecuteJob, Complete
      <4>2. \A t \in Targets : status[t] # "none" <=> status'[t] # "none"
        BY <3>2, <4>1, AfterAJob
      <4> QED BY <4>1, <4>2 DEF Written, Targets
    <3> QED BY <3>1, <3>2
  <2> QED
    BY <2>2, <2>3, <2>4, <2>5, <2>6, <2>7, <2>8
    DEF ContentNext, StaffNext, SchedulerNext, Delete, Restore, ReviewListing, UnlistDrama, Tick,
        LockAges, StartScheduler, ClaimDue, StopScheduler, SkipJob, ExecuteJobFails, RefuseJob,
        dramaRows, contentVars
<1> QED BY <1>1, ContentInvariant, PTL DEF ContentSpec, ListedContentIsFrozen

=============================================================================
