------------------------ MODULE OutboxPublisherProofs ------------------------
(* What holds of OutboxPublisher for all events, workers and batches.    *)
EXTENDS OutboxPublisher, FiniteSetTheorems, TLAPS

-----------------------------------------------------------------------------
(* Types.                                                                *)

(* A mark keeps every column in its type.                                *)
LEMMA MarkTypeOK ==
  ASSUME OutboxTypeOK, NEW w \in Workers, NEW e \in Events,
         NEW s \in EventStatus, NEW n \in Nat, Mark(w, e, s, n)
  PROVE  /\ status' \in [Events -> EventStatus]
         /\ retryCount' \in [Events -> Nat]
         /\ lockedBy' \in [Events -> Workers \cup {NoOne}]
         /\ lapsed' \subseteq Events
         /\ recovered' \in [Events -> Nat]
BY DEF Mark, OutboxTypeOK, rowVars

(* No step writes a value outside its column.                            *)
LEMMA NextTypeOK == OutboxTypeOK /\ [OutboxNext]_outboxVars => OutboxTypeOK'
<1> SUFFICES ASSUME OutboxTypeOK, [OutboxNext]_outboxVars PROVE OutboxTypeOK'
  OBVIOUS
<1> USE DEF OutboxTypeOK, EventStatus
<1>1. ASSUME NEW e \in Events, LockLapses(e) \/ Insert(e) PROVE OutboxTypeOK'
  BY <1>1 DEF LockLapses, Insert, workerVars
<1>2. ASSUME NEW w \in Workers, Start(w) PROVE OutboxTypeOK'
  <2>1. \A e \in Events : StatusOfStale(e) \in EventStatus
    BY DEF StatusOfStale
  <2> QED
    BY <1>2, <2>1 DEF Start, Recover
<1>3. ASSUME NEW w \in Workers, Crash(w) PROVE OutboxTypeOK'
  BY <1>3 DEF Crash, rowVars
<1>4. ASSUME NEW w \in Workers, ClaimBatch(w) PROVE OutboxTypeOK'
  <2>1. PICK S \in SUBSET Due :
          /\ status' = [e \in Events |-> IF e \in S THEN "processing" ELSE status[e]]
          /\ lockedBy' = [e \in Events |-> IF e \in S THEN w ELSE lockedBy[e]]
          /\ batch' = [batch EXCEPT ![w] =
                         {[event |-> e, retryCount |-> retryCount[e]] : e \in S}]
    BY <1>4 DEF ClaimBatch
  <2>2. {[event |-> e, retryCount |-> retryCount[e]] : e \in S} \subseteq Claim
    BY DEF Due, Claim
  <2>3. batch' \in [Workers -> SUBSET Claim]
    BY <2>1, <2>2
  <2>4. /\ status' \in [Events -> EventStatus]
        /\ lockedBy' \in [Events -> Workers \cup {NoOne}]
    BY <2>1
  <2> QED
    BY <1>4, <2>3, <2>4 DEF ClaimBatch
<1>5. ASSUME NEW w \in Workers, AppendStream(w) \/ AppendFails(w) PROVE OutboxTypeOK'
  <2>1. PICK c \in batch[w] :
          /\ Take(w, c, "appended") \/ Take(w, c, "failed")
          /\ appended' \in {appended, [appended EXCEPT ![c.event] = @ + 1]}
    BY <1>5 DEF AppendStream, AppendFails
  <2>2. c \in Claim /\ c.event \in Events
    BY DEF Claim
  <2>3. appended' \in [Events -> Nat]
    BY <2>1, <2>2
  <2> QED
    BY <2>1, <2>2, <2>3 DEF Take, rowVars
<1>6. ASSUME NEW w \in Workers, MarkPublished(w) PROVE OutboxTypeOK'
  <2>1. PICK c \in current[w] : Mark(w, c.event, "published", retryCount[c.event])
    BY <1>6 DEF MarkPublished
  <2>2. c.event \in Events /\ retryCount[c.event] \in Nat
    BY DEF Claim
  <2> QED
    BY <1>6, <2>1, <2>2, MarkTypeOK DEF MarkPublished, Continue
<1>7. ASSUME NEW w \in Workers, MarkPublishedFails(w) PROVE OutboxTypeOK'
  BY <1>7 DEF MarkPublishedFails, rowVars
<1>8. ASSUME NEW w \in Workers, MarkFailed(w) PROVE OutboxTypeOK'
  <2>1. PICK c \in current[w] :
          Mark(w, c.event, IF c.retryCount + 1 >= MaxAttempts THEN "dead_letter" ELSE "retry",
               c.retryCount + 1)
    BY <1>8 DEF MarkFailed
  <2>2. c.event \in Events /\ c.retryCount + 1 \in Nat
    BY DEF Claim
  <2>3. (IF c.retryCount + 1 >= MaxAttempts THEN "dead_letter" ELSE "retry") \in EventStatus
    OBVIOUS
  <2> QED
    BY <1>8, <2>1, <2>2, <2>3, MarkTypeOK DEF MarkFailed, Continue
<1>9. CASE UNCHANGED outboxVars
  BY <1>9 DEF outboxVars, rowVars, workerVars
<1> QED
  BY <1>1, <1>2, <1>3, <1>4, <1>5, <1>6, <1>7, <1>8, <1>9 DEF OutboxNext, OutboxStep, PublishAvailable

(* Initially the table is empty and no worker runs.                      *)
LEMMA InitTypeOK == OutboxInit => OutboxTypeOK
BY DEF OutboxInit, OutboxTypeOK, EventStatus

(* Rows, claims and counters keep the types of their columns for ever.   *)
THEOREM TypeCorrect == OutboxSpec => []OutboxTypeOK
BY InitTypeOK, NextTypeOK, PTL DEF OutboxSpec

-----------------------------------------------------------------------------
(* How the set of workers that still owe a copy changes.                 *)

(* It is finite.                                                         *)
LEMMA InBatchFinite ==
  ASSUME NEW e \in Events
  PROVE  IsFiniteSet(InBatch(e)) /\ Cardinality(InBatch(e)) \in Nat
<1>1. InBatch(e) \subseteq Workers
  BY DEF InBatch
<1> QED
  BY <1>1, WorkersAssumption, FS_Subset, FS_CardinalityType

(* A claim adds one worker to it, for the events it takes.               *)
LEMMA ClaimOwesOne ==
  ASSUME OutboxTypeOK, NEW w \in Workers, batch[w] = {}, NEW S \in SUBSET Events,
         batch' = [batch EXCEPT ![w] = {[event |-> e, retryCount |-> retryCount[e]] : e \in S}],
         NEW e \in Events
  PROVE  IF e \in S THEN Cardinality(InBatch(e)') = Cardinality(InBatch(e)) + 1
                    ELSE InBatch(e)' = InBatch(e)
<1>1. \A v \in Workers : v # w => batch'[v] = batch[v]
  BY DEF OutboxTypeOK
<1>2. batch'[w] = {[event |-> d, retryCount |-> retryCount[d]] : d \in S}
  BY DEF OutboxTypeOK
<1>3. w \notin InBatch(e)
  BY DEF InBatch
<1>4. w \in InBatch(e)' <=> e \in S
  <2>1. \A c \in batch'[w] : c.event \in S
    BY <1>2
  <2>2. ASSUME e \in S PROVE \E c \in batch'[w] : c.event = e
    <3>1. [event |-> e, retryCount |-> retryCount[e]] \in batch'[w]
      BY <1>2, <2>2
    <3> QED
      BY <3>1
  <2> QED
    BY <2>1, <2>2 DEF InBatch
<1>5. \A v \in Workers : v # w => (v \in InBatch(e)' <=> v \in InBatch(e))
  BY <1>1 DEF InBatch
<1>6. InBatch(e)' \subseteq Workers /\ InBatch(e) \subseteq Workers
  BY DEF InBatch
<1>7. CASE e \in S
  <2>1. InBatch(e)' = InBatch(e) \cup {w}
    BY <1>4, <1>5, <1>6, <1>7
  <2> QED
    BY <1>3, <1>7, <2>1, InBatchFinite, FS_AddElement
<1>8. CASE e \notin S
  BY <1>3, <1>4, <1>5, <1>6, <1>8
<1> QED
  BY <1>7, <1>8

(* Taking a claim off a batch pays for one copy.                         *)
LEMMA TakePaysOne ==
  ASSUME OutboxTypeOK, BatchNamesOnce, NEW w \in Workers, NEW c \in batch[w],
         batch' = [batch EXCEPT ![w] = @ \ {c}], NEW e \in Events
  PROVE  IF e = c.event THEN Cardinality(InBatch(e)') + 1 = Cardinality(InBatch(e))
                        ELSE InBatch(e)' = InBatch(e)
<1>1. \A v \in Workers : v # w => batch'[v] = batch[v]
  BY DEF OutboxTypeOK
<1>2. batch'[w] = batch[w] \ {c}
  BY DEF OutboxTypeOK
<1>5. \A v \in Workers : v # w => (v \in InBatch(e)' <=> v \in InBatch(e))
  BY <1>1 DEF InBatch
<1>6. InBatch(e)' \subseteq Workers /\ InBatch(e) \subseteq Workers
  BY DEF InBatch
<1>7. CASE e = c.event
  <2>1. w \in InBatch(e)
    BY <1>7 DEF InBatch
  <2>2. w \notin InBatch(e)'
    BY <1>2, <1>7 DEF InBatch, BatchNamesOnce
  <2>3. InBatch(e)' = InBatch(e) \ {w}
    BY <1>5, <1>6, <2>1, <2>2
  <2>4. Cardinality(InBatch(e)') = Cardinality(InBatch(e)) - 1
    BY <2>1, <2>3, InBatchFinite, FS_RemoveElement
  <2> QED
    BY <1>7, <2>4, InBatchFinite
<1>8. CASE e # c.event
  <2>1. w \in InBatch(e)' <=> w \in InBatch(e)
    BY <1>2, <1>8 DEF InBatch
  <2> QED
    BY <1>5, <1>6, <1>8, <2>1
<1> QED
  BY <1>7, <1>8

(* A crash forgives what the worker owed.                                *)
LEMMA CrashForgives ==
  ASSUME OutboxTypeOK, NEW w \in Workers, batch' = [batch EXCEPT ![w] = {}],
         NEW e \in Events
  PROVE  Cardinality(InBatch(e)') <= Cardinality(InBatch(e)) /\ Cardinality(InBatch(e)') \in Nat
<1>1. InBatch(e)' \subseteq InBatch(e)
  <2>1. \A v \in Workers : v # w => batch'[v] = batch[v]
    BY DEF OutboxTypeOK
  <2>2. batch'[w] = {}
    BY DEF OutboxTypeOK
  <2> QED
    BY <2>1, <2>2 DEF InBatch
<1> QED
  BY <1>1, InBatchFinite, FS_Subset, FS_CardinalityType

-----------------------------------------------------------------------------
(* The invariant each step hands to the next.                            *)

(* Nothing is recorded and nobody works, so everything agrees.           *)
LEMMA InitConsistent == OutboxInit => OutboxConsistent
<1> SUFFICES ASSUME OutboxInit PROVE OutboxConsistent
  OBVIOUS
<1>1. OutboxTypeOK
  BY InitTypeOK
<1>2. GivenUpAfterAllAttempts
  BY MaxAttemptsAssumption DEF OutboxInit, GivenUpAfterAllAttempts
<1>3. ClaimsAreCurrent /\ BatchNamesOnce /\ ConfirmedIsAppended /\ IdleHandsAreEmpty
  BY DEF OutboxInit, ClaimsAreCurrent, InHand, BatchNamesOnce, ConfirmedIsAppended,
     IdleHandsAreEmpty
<1>4. CopiesAreCounted
  <2>1. \A e \in Events : InBatch(e) = {}
    BY DEF OutboxInit, InBatch
  <2> QED
    BY <2>1, FS_EmptySet DEF OutboxInit, CopiesAreCounted
<1> QED
  BY <1>1, <1>2, <1>3, <1>4 DEF OutboxConsistent

(* A mark changes a row only for the worker that holds it; then nobody does, *)
(* and a row that is returned has a counted failure.                     *)
LEMMA MarkConsistent ==
  ASSUME OutboxConsistent, OutboxTypeOK', NEW w \in Workers, NEW c \in current[w],
         NEW s \in {"published", "retry", "dead_letter"}, NEW n \in Nat,
         Mark(w, c.event, s, n), Continue(w),
         Holds(w, c.event) => (s = "dead_letter" <=> n >= MaxAttempts),
         \/ s = "published" /\ n = retryCount[c.event] /\ appended[c.event] > 0
         \/ s # "published" /\ n = c.retryCount + 1
  PROVE  OutboxConsistent'
<1> DEFINE d == c.event
<1>1. d \in Events /\ c \in InHand(w) /\ c.retryCount \in Nat
  BY DEF OutboxConsistent, OutboxTypeOK, Claim, InHand
<1>2. Holds(w, d) => c.retryCount = retryCount[d]
  BY <1>1 DEF OutboxConsistent, ClaimsAreCurrent
<1>3. /\ UNCHANGED <<appended, batch, recovered>>
      /\ \A v \in Workers : InHand(v)' \subseteq InHand(v)
      /\ \A v \in Workers : current'[v] \subseteq current[v]
      /\ \A v \in Workers : pc'[v] = "appended" => pc[v] = "appended"
  BY DEF Continue, Mark, rowVars, InHand, OutboxConsistent, OutboxTypeOK
<1>4. \A e \in Events : InBatch(e)' = InBatch(e)
  BY <1>3 DEF InBatch
<1>7. IdleHandsAreEmpty'
  BY DEF Continue, OutboxConsistent, OutboxTypeOK, IdleHandsAreEmpty
<1>5. CASE ~Holds(w, d)
  <2>1. UNCHANGED rowVars
    BY <1>5 DEF Mark
  <2>2. GivenUpAfterAllAttempts' /\ ConfirmedIsAppended' /\ BatchNamesOnce'
    BY <1>3, <2>1 DEF rowVars, OutboxConsistent, GivenUpAfterAllAttempts,
       ConfirmedIsAppended, BatchNamesOnce
  <2>3. ClaimsAreCurrent'
    BY <1>3, <2>1 DEF rowVars, OutboxConsistent, ClaimsAreCurrent, Holds
  <2>4. CopiesAreCounted'
    BY <1>3, <1>4, <2>1 DEF rowVars, OutboxConsistent, CopiesAreCounted
  <2> QED
    BY <1>7, <2>2, <2>3, <2>4 DEF OutboxConsistent
<1>6. CASE Holds(w, d)
  <2>1. /\ status' = [status EXCEPT ![d] = s]
        /\ retryCount' = [retryCount EXCEPT ![d] = n]
        /\ lockedBy' = [lockedBy EXCEPT ![d] = NoOne]
        /\ status[d] = "processing"
    BY <1>6 DEF Mark, Holds
  <2>2. \A e \in Events : e # d =>
          /\ status'[e] = status[e]
          /\ retryCount'[e] = retryCount[e]
          /\ lockedBy'[e] = lockedBy[e]
    BY <2>1 DEF OutboxConsistent, OutboxTypeOK
  <2>3. status'[d] = s /\ retryCount'[d] = n
    BY <1>1, <2>1 DEF OutboxConsistent, OutboxTypeOK
  <2>4. GivenUpAfterAllAttempts'
    BY <1>6, <2>2, <2>3 DEF OutboxConsistent, GivenUpAfterAllAttempts
  <2>5. ClaimsAreCurrent'
    <3> SUFFICES ASSUME NEW v \in Workers, NEW b \in InHand(v)
                 PROVE  status'[b.event] # "none"
                        /\ (Holds(v, b.event)' => b.retryCount = retryCount'[b.event])
      BY <1>3 DEF ClaimsAreCurrent
    <3>1. b.event \in Events
      BY DEF InHand, OutboxConsistent, OutboxTypeOK, Claim
    <3>2. /\ status[b.event] # "none"
          /\ Holds(v, b.event) => b.retryCount = retryCount[b.event]
      BY DEF OutboxConsistent, ClaimsAreCurrent
    <3> QED
      BY <2>2, <2>3, <3>1, <3>2 DEF Holds
  <2>6. BatchNamesOnce'
    BY <1>3 DEF OutboxConsistent, BatchNamesOnce
  <2>7. CopiesAreCounted'
    <3> SUFFICES ASSUME NEW e \in Events
                 PROVE  appended[e] + Cardinality(InBatch(e))
                          <= retryCount'[e] + recovered[e]
                               + (IF status'[e] \in {"none", "pending", "retry"} THEN 0 ELSE 1)
      BY <1>3, <1>4 DEF CopiesAreCounted
    <3>1. appended[e] + Cardinality(InBatch(e))
            <= retryCount[e] + recovered[e]
                 + (IF status[e] \in {"none", "pending", "retry"} THEN 0 ELSE 1)
      BY DEF OutboxConsistent, CopiesAreCounted
    <3>2. /\ appended[e] \in Nat /\ retryCount[e] \in Nat /\ recovered[e] \in Nat
          /\ Cardinality(InBatch(e)) \in Nat
      BY InBatchFinite DEF OutboxConsistent, OutboxTypeOK
    <3>3. CASE e = d
      BY <1>1, <1>2, <1>6, <2>1, <2>3, <3>1, <3>2, <3>3
    <3>4. CASE e # d
      BY <2>2, <3>1, <3>4
    <3> QED
      BY <3>3, <3>4
  <2>8. ConfirmedIsAppended'
    BY <1>1, <1>3, <2>2, <2>3 DEF OutboxConsistent, ConfirmedIsAppended
  <2> QED
    BY <1>7, <2>4, <2>5, <2>6, <2>7, <2>8 DEF OutboxConsistent
<1> QED
  BY <1>5, <1>6

(* The time, a new event, and a lost mark change nothing it relates.     *)
LEMMA QuietConsistent ==
  ASSUME OutboxConsistent, OutboxTypeOK',
         UNCHANGED <<retryCount, lockedBy, recovered, appended, batch, current>>,
         \/ UNCHANGED status
         \/ \E e \in Events : /\ status[e] = "none"
                             /\ status' = [status EXCEPT ![e] = "pending"],
         \A w \in Workers : pc'[w] = pc[w] \/ (pc[w] = "appended" /\ pc'[w] = "failed")
  PROVE  OutboxConsistent'
<1>1. \A e \in Events : InBatch(e)' = InBatch(e)
  BY DEF InBatch
<1>2. \A e \in Events : \/ status'[e] = status[e]
                        \/ status[e] = "none" /\ status'[e] = "pending"
  BY DEF OutboxConsistent, OutboxTypeOK
<1>3. GivenUpAfterAllAttempts' /\ ConfirmedIsAppended' /\ BatchNamesOnce' /\ IdleHandsAreEmpty'
  BY <1>2 DEF OutboxConsistent, GivenUpAfterAllAttempts, ConfirmedIsAppended, BatchNamesOnce,
     IdleHandsAreEmpty
<1>4. ClaimsAreCurrent'
  <2> SUFFICES ASSUME NEW w \in Workers, NEW c \in InHand(w)
               PROVE  status'[c.event] # "none"
                      /\ (Holds(w, c.event)' => c.retryCount = retryCount[c.event])
    BY DEF ClaimsAreCurrent, InHand
  <2>1. c.event \in Events
    BY DEF InHand, OutboxConsistent, OutboxTypeOK, Claim
  <2> QED
    BY <1>2, <2>1 DEF OutboxConsistent, ClaimsAreCurrent, Holds
<1>5. CopiesAreCounted'
  BY <1>1, <1>2 DEF OutboxConsistent, CopiesAreCounted
<1> QED
  BY <1>3, <1>4, <1>5 DEF OutboxConsistent

(* Recovery counts what it returns, and nobody holds it any more.        *)
LEMMA StartConsistent ==
  ASSUME OutboxConsistent, OutboxTypeOK', NEW w \in Workers, Start(w)
  PROVE  OutboxConsistent'
<1>1. /\ UNCHANGED <<appended, batch, current, retryCount>>
      /\ \A v \in Workers : pc'[v] = "appended" => pc[v] = "appended"
  BY DEF Start, Recover, OutboxConsistent, OutboxTypeOK
<1>2. \A e \in Events : retryCount[e] >= MaxAttempts <=> status[e] = "dead_letter"
  BY DEF OutboxConsistent, GivenUpAfterAllAttempts
<1>3. \A e \in Events :
        \/ status'[e] = status[e] /\ recovered'[e] = recovered[e] /\ lockedBy'[e] = lockedBy[e]
        \/ /\ status[e] = "processing" /\ status'[e] = "retry"
           /\ recovered'[e] = recovered[e] + 1
  BY <1>2 DEF Start, Recover, Stale, StatusOfStale
<1>4. \A e \in Events : InBatch(e)' = InBatch(e)
  BY <1>1 DEF InBatch
<1>5. GivenUpAfterAllAttempts' /\ ConfirmedIsAppended' /\ BatchNamesOnce'
  BY <1>1, <1>3 DEF OutboxConsistent, GivenUpAfterAllAttempts, ConfirmedIsAppended, BatchNamesOnce
<1>8. IdleHandsAreEmpty'
  BY DEF Start, OutboxConsistent, OutboxTypeOK, IdleHandsAreEmpty
<1>6. ClaimsAreCurrent'
  <2> SUFFICES ASSUME NEW v \in Workers, NEW c \in InHand(v)
               PROVE  status'[c.event] # "none"
                      /\ (Holds(v, c.event)' => c.retryCount = retryCount[c.event])
    BY <1>1 DEF ClaimsAreCurrent, InHand
  <2>1. c.event \in Events
    BY DEF InHand, OutboxConsistent, OutboxTypeOK, Claim
  <2> QED
    BY <1>3, <2>1 DEF OutboxConsistent, ClaimsAreCurrent, Holds
<1>7. CopiesAreCounted'
  <2> SUFFICES ASSUME NEW e \in Events
               PROVE  appended[e] + Cardinality(InBatch(e))
                        <= retryCount[e] + recovered'[e]
                             + (IF status'[e] \in {"none", "pending", "retry"} THEN 0 ELSE 1)
    BY <1>1, <1>4 DEF CopiesAreCounted
  <2>1. /\ appended[e] \in Nat /\ retryCount[e] \in Nat /\ recovered[e] \in Nat
        /\ Cardinality(InBatch(e)) \in Nat
    BY InBatchFinite DEF OutboxConsistent, OutboxTypeOK
  <2> QED
    BY <1>3, <2>1 DEF OutboxConsistent, CopiesAreCounted
<1> QED
  BY <1>5, <1>6, <1>7, <1>8 DEF OutboxConsistent

(* A worker that stops forgets its claims; the rows stay.                *)
LEMMA CrashConsistent ==
  ASSUME OutboxConsistent, OutboxTypeOK', NEW w \in Workers, Crash(w)
  PROVE  OutboxConsistent'
<1>1. /\ UNCHANGED <<status, retryCount, lockedBy, recovered, appended>>
      /\ \A v \in Workers : pc'[v] = "appended" => pc[v] = "appended"
      /\ \A v \in Workers : /\ batch'[v] \subseteq batch[v]
                            /\ current'[v] \subseteq current[v]
      /\ batch' = [batch EXCEPT ![w] = {}]
  BY DEF Crash, rowVars, OutboxConsistent, OutboxTypeOK
<1>2. GivenUpAfterAllAttempts' /\ ConfirmedIsAppended' /\ BatchNamesOnce'
  BY <1>1 DEF OutboxConsistent, GivenUpAfterAllAttempts, ConfirmedIsAppended, BatchNamesOnce
<1>5. IdleHandsAreEmpty'
  BY DEF Crash, OutboxConsistent, OutboxTypeOK, IdleHandsAreEmpty
<1>3. ClaimsAreCurrent'
  BY <1>1 DEF OutboxConsistent, ClaimsAreCurrent, InHand, Holds
<1>4. CopiesAreCounted'
  <2> SUFFICES ASSUME NEW e \in Events
               PROVE  appended[e] + Cardinality(InBatch(e)')
                        <= retryCount[e] + recovered[e]
                             + (IF status[e] \in {"none", "pending", "retry"} THEN 0 ELSE 1)
    BY <1>1 DEF CopiesAreCounted
  <2>1. Cardinality(InBatch(e)') <= Cardinality(InBatch(e)) /\ Cardinality(InBatch(e)') \in Nat
    BY <1>1, CrashForgives DEF OutboxConsistent
  <2>2. /\ appended[e] \in Nat /\ retryCount[e] \in Nat /\ recovered[e] \in Nat
        /\ Cardinality(InBatch(e)) \in Nat
    BY InBatchFinite DEF OutboxConsistent, OutboxTypeOK
  <2> QED
    BY <2>1, <2>2 DEF OutboxConsistent, CopiesAreCounted
<1> QED
  BY <1>2, <1>3, <1>4, <1>5 DEF OutboxConsistent

(* A claim takes rows that nobody holds, with the counts they have.      *)
LEMMA ClaimConsistent ==
  ASSUME OutboxConsistent, OutboxTypeOK', NEW w \in Workers, ClaimBatch(w)
  PROVE  OutboxConsistent'
<1> DEFINE Row(e) == [event |-> e, retryCount |-> retryCount[e]]
<1>1. PICK S \in SUBSET Due :
        /\ status' = [e \in Events |-> IF e \in S THEN "processing" ELSE status[e]]
        /\ lockedBy' = [e \in Events |-> IF e \in S THEN w ELSE lockedBy[e]]
        /\ batch' = [batch EXCEPT ![w] = {Row(e) : e \in S}]
  BY DEF ClaimBatch
<1>2. UNCHANGED <<retryCount, recovered, appended, pc, current>> /\ batch[w] = {}
  BY DEF ClaimBatch
<1>3. /\ S \subseteq Events
      /\ \A e \in S : status[e] \in {"pending", "retry"}
  BY DEF Due
<1>4. /\ \A e \in S : status'[e] = "processing" /\ lockedBy'[e] = w
      /\ \A e \in Events \ S : status'[e] = status[e] /\ lockedBy'[e] = lockedBy[e]
  BY <1>1, <1>3
<1>5. /\ batch'[w] = {Row(e) : e \in S}
      /\ \A v \in Workers : v # w => batch'[v] = batch[v]
  BY <1>1 DEF OutboxConsistent, OutboxTypeOK
<1>6. \A c \in batch'[w] : c.event \in S /\ c.retryCount = retryCount[c.event] /\ c = Row(c.event)
  BY <1>5
<1>7. GivenUpAfterAllAttempts' /\ ConfirmedIsAppended'
  BY <1>2, <1>3, <1>4 DEF OutboxConsistent, GivenUpAfterAllAttempts, ConfirmedIsAppended
<1>8. BatchNamesOnce'
  <2> SUFFICES ASSUME NEW v \in Workers, NEW c \in batch'[v], NEW d \in batch'[v],
                      c.event = d.event
               PROVE  c = d
    BY DEF BatchNamesOnce
  <2>1. CASE v = w
    BY <1>6, <2>1
  <2>2. CASE v # w
    BY <1>5, <2>2 DEF OutboxConsistent, BatchNamesOnce
  <2> QED
    BY <2>1, <2>2
<1>9. ClaimsAreCurrent'
  <2> SUFFICES ASSUME NEW v \in Workers, NEW c \in batch'[v] \cup current[v]
               PROVE  status'[c.event] # "none"
                      /\ (Holds(v, c.event)' => c.retryCount = retryCount[c.event])
    BY <1>2 DEF ClaimsAreCurrent, InHand
  <2>1. CASE v = w /\ c \in batch'[w]
    BY <1>4, <1>6, <2>1
  <2>2. CASE c \in InHand(v)
    <3>1. /\ c.event \in Events
          /\ status[c.event] # "none"
          /\ Holds(v, c.event) => c.retryCount = retryCount[c.event]
      BY <2>2 DEF InHand, OutboxConsistent, OutboxTypeOK, Claim, ClaimsAreCurrent
    <3>2. CASE c.event \notin S
      BY <1>4, <3>1, <3>2 DEF Holds
    <3>3. CASE c.event \in S /\ v # w
      BY <1>4, <3>1, <3>3 DEF Holds
    <3>4. CASE c.event \in S /\ v = w
      <4>1. current[w] = {}
        BY DEF ClaimBatch, OutboxConsistent, IdleHandsAreEmpty
      <4> QED
        BY <1>2, <2>2, <3>4, <4>1 DEF InHand
    <3> QED
      BY <3>2, <3>3, <3>4
  <2> QED
    BY <1>5, <2>1, <2>2 DEF InHand
<1>10. CopiesAreCounted'
  <2> SUFFICES ASSUME NEW e \in Events
               PROVE  appended[e] + Cardinality(InBatch(e)')
                        <= retryCount[e] + recovered[e]
                             + (IF status'[e] \in {"none", "pending", "retry"} THEN 0 ELSE 1)
    BY <1>2 DEF CopiesAreCounted
  <2>1. IF e \in S THEN Cardinality(InBatch(e)') = Cardinality(InBatch(e)) + 1
                   ELSE InBatch(e)' = InBatch(e)
    BY <1>1, <1>2, <1>3, ClaimOwesOne DEF OutboxConsistent
  <2>2. /\ appended[e] \in Nat /\ retryCount[e] \in Nat /\ recovered[e] \in Nat
        /\ Cardinality(InBatch(e)) \in Nat
    BY InBatchFinite DEF OutboxConsistent, OutboxTypeOK
  <2>3. appended[e] + Cardinality(InBatch(e))
          <= retryCount[e] + recovered[e]
               + (IF status[e] \in {"none", "pending", "retry"} THEN 0 ELSE 1)
    BY DEF OutboxConsistent, CopiesAreCounted
  <2> QED
    BY <1>3, <1>4, <2>1, <2>2, <2>3
<1> QED
  BY <1>2, <1>7, <1>8, <1>9, <1>10 DEF OutboxConsistent, IdleHandsAreEmpty

(* An append pays one of the copies the batch owes.                      *)
LEMMA AppendConsistent ==
  ASSUME OutboxConsistent, OutboxTypeOK', NEW w \in Workers,
         AppendStream(w) \/ AppendFails(w)
  PROVE  OutboxConsistent'
<1>1. PICK c \in batch[w] :
        /\ \/ Take(w, c, "appended") /\ appended' = [appended EXCEPT ![c.event] = @ + 1]
           \/ Take(w, c, "failed")
        /\ appended' \in {appended, [appended EXCEPT ![c.event] = @ + 1]}
  BY DEF AppendStream, AppendFails
<1>2. /\ UNCHANGED <<status, retryCount, lockedBy, recovered>>
      /\ batch' = [batch EXCEPT ![w] = @ \ {c}]
      /\ current' = [current EXCEPT ![w] = {c}]
      /\ \A v \in Workers : v # w => pc'[v] = pc[v]
      /\ pc'[w] \in {"appended", "failed"}
  BY <1>1 DEF Take, rowVars, OutboxConsistent, OutboxTypeOK
<1>3. /\ \A v \in Workers : InHand(v)' \subseteq InHand(v) /\ batch'[v] \subseteq batch[v]
      /\ \A v \in Workers : v # w => current'[v] = current[v]
      /\ current'[w] = {c}
  BY <1>2 DEF InHand, OutboxConsistent, OutboxTypeOK
<1>4. c.event \in Events
  BY DEF OutboxConsistent, OutboxTypeOK, Claim
<1>5. \A e \in Events :
        /\ appended[e] \in Nat
        /\ appended'[e] = appended[e] \/ appended'[e] = appended[e] + 1
        /\ e # c.event => appended'[e] = appended[e]
  BY <1>1 DEF OutboxConsistent, OutboxTypeOK
<1>6. GivenUpAfterAllAttempts' /\ BatchNamesOnce' /\ ClaimsAreCurrent' /\ IdleHandsAreEmpty'
  BY <1>2, <1>3 DEF OutboxConsistent, GivenUpAfterAllAttempts, BatchNamesOnce,
     ClaimsAreCurrent, Holds, IdleHandsAreEmpty
<1>7. ConfirmedIsAppended'
  <2>1. ASSUME NEW e \in Events, status'[e] = "published" PROVE appended'[e] > 0
    BY <1>2, <1>5, <2>1 DEF OutboxConsistent, ConfirmedIsAppended
  <2>2. ASSUME NEW v \in Workers, pc'[v] = "appended", NEW d \in current'[v]
        PROVE  appended'[d.event] > 0
    <3>1. CASE v = w
      <4>1. appended' = [appended EXCEPT ![c.event] = @ + 1]
        BY <1>1, <2>2, <3>1 DEF Take, OutboxConsistent, OutboxTypeOK
      <4> QED
        BY <1>3, <1>4, <1>5, <2>2, <3>1, <4>1 DEF OutboxConsistent, OutboxTypeOK
    <3>2. CASE v # w
      <4>1. d \in current[v] /\ pc[v] = "appended" /\ d.event \in Events
        BY <1>2, <1>3, <2>2, <3>2 DEF OutboxConsistent, OutboxTypeOK, Claim
      <4> QED
        BY <1>5, <4>1 DEF OutboxConsistent, ConfirmedIsAppended
    <3> QED
      BY <3>1, <3>2
  <2> QED
    BY <2>1, <2>2 DEF ConfirmedIsAppended
<1>8. CopiesAreCounted'
  <2> SUFFICES ASSUME NEW e \in Events
               PROVE  appended'[e] + Cardinality(InBatch(e)')
                        <= retryCount[e] + recovered[e]
                             + (IF status[e] \in {"none", "pending", "retry"} THEN 0 ELSE 1)
    BY <1>2 DEF CopiesAreCounted
  <2>1. IF e = c.event THEN Cardinality(InBatch(e)') + 1 = Cardinality(InBatch(e))
                       ELSE InBatch(e)' = InBatch(e)
    BY <1>2, TakePaysOne DEF OutboxConsistent
  <2>2. /\ appended[e] \in Nat /\ retryCount[e] \in Nat /\ recovered[e] \in Nat
        /\ Cardinality(InBatch(e)) \in Nat
    BY InBatchFinite DEF OutboxConsistent, OutboxTypeOK
  <2>3. Cardinality(InBatch(e)') \in Nat
    <3>1. InBatch(e)' \subseteq Workers
      BY DEF InBatch
    <3> QED
      BY <3>1, WorkersAssumption, FS_Subset, FS_CardinalityType
  <2>4. appended[e] + Cardinality(InBatch(e))
          <= retryCount[e] + recovered[e]
               + (IF status[e] \in {"none", "pending", "retry"} THEN 0 ELSE 1)
    BY DEF OutboxConsistent, CopiesAreCounted
  <2> QED
    BY <1>5, <2>1, <2>2, <2>3, <2>4
<1> QED
  BY <1>6, <1>7, <1>8 DEF OutboxConsistent

(* Every step preserves what the rows and the workers agree on.          *)
LEMMA NextConsistent == OutboxConsistent /\ [OutboxNext]_outboxVars => OutboxConsistent'
<1> SUFFICES ASSUME OutboxConsistent, [OutboxNext]_outboxVars PROVE OutboxConsistent'
  OBVIOUS
<1>0. OutboxTypeOK /\ OutboxTypeOK'
  BY NextTypeOK DEF OutboxConsistent
<1>1. ASSUME NEW e \in Events, LockLapses(e) \/ Insert(e) PROVE OutboxConsistent'
  BY <1>0, <1>1, QuietConsistent DEF LockLapses, Insert, workerVars
<1>2. ASSUME NEW w \in Workers, Start(w) PROVE OutboxConsistent'
  BY <1>0, <1>2, StartConsistent
<1>3. ASSUME NEW w \in Workers, Crash(w) PROVE OutboxConsistent'
  BY <1>0, <1>3, CrashConsistent
<1>4. ASSUME NEW w \in Workers, ClaimBatch(w) PROVE OutboxConsistent'
  BY <1>0, <1>4, ClaimConsistent
<1>5. ASSUME NEW w \in Workers, AppendStream(w) \/ AppendFails(w) PROVE OutboxConsistent'
  BY <1>0, <1>5, AppendConsistent
<1>6. ASSUME NEW w \in Workers, MarkPublished(w) PROVE OutboxConsistent'
  <2>1. PICK c \in current[w] : Mark(w, c.event, "published", retryCount[c.event])
    BY <1>6 DEF MarkPublished
  <2>2. c.event \in Events /\ retryCount[c.event] \in Nat
    BY <1>0 DEF OutboxTypeOK, Claim
  <2>3. appended[c.event] > 0
    BY <1>6 DEF MarkPublished, OutboxConsistent, ConfirmedIsAppended
  <2>4. Holds(w, c.event) => ~(retryCount[c.event] >= MaxAttempts)
    BY <2>2 DEF Holds, OutboxConsistent, GivenUpAfterAllAttempts
  <2> QED
    BY <1>0, <1>6, <2>1, <2>2, <2>3, <2>4, MarkConsistent DEF MarkPublished
<1>7. ASSUME NEW w \in Workers, MarkPublishedFails(w) PROVE OutboxConsistent'
  <2>1. \A v \in Workers : pc'[v] = pc[v] \/ (pc[v] = "appended" /\ pc'[v] = "failed")
    BY <1>0, <1>7 DEF MarkPublishedFails, OutboxTypeOK
  <2> QED
    BY <1>0, <1>7, <2>1, QuietConsistent DEF MarkPublishedFails, rowVars
<1>8. ASSUME NEW w \in Workers, MarkFailed(w) PROVE OutboxConsistent'
  <2> DEFINE Outcome(c) == IF c.retryCount + 1 >= MaxAttempts THEN "dead_letter" ELSE "retry"
  <2>1. PICK c \in current[w] : Mark(w, c.event, Outcome(c), c.retryCount + 1)
    BY <1>8 DEF MarkFailed
  <2>2. c.retryCount + 1 \in Nat
    BY <1>0 DEF OutboxTypeOK, Claim
  <2>3. /\ Outcome(c) \in {"published", "retry", "dead_letter"}
        /\ Outcome(c) = "dead_letter" <=> c.retryCount + 1 >= MaxAttempts
        /\ Outcome(c) # "published"
    OBVIOUS
  <2> HIDE DEF Outcome
  <2> QED
    BY <1>0, <1>8, <2>1, <2>2, <2>3, MarkConsistent DEF MarkFailed
<1>9. CASE UNCHANGED outboxVars
  BY <1>0, <1>9, QuietConsistent DEF outboxVars, rowVars, workerVars
<1> QED
  BY <1>1, <1>2, <1>3, <1>4, <1>5, <1>6, <1>7, <1>8, <1>9 DEF OutboxNext, OutboxStep, PublishAvailable

(* What the steps hand to each other always holds.                       *)
THEOREM OutboxStaysConsistent == OutboxSpec => []OutboxConsistent
BY InitConsistent, NextConsistent, PTL DEF OutboxSpec

(* For any number of workers, batches and crashes: every copy on the stream  *)
(* beyond the first is owed to a counted failure or a recovered lock.    *)
THEOREM NoUnexplainedDuplicates == OutboxSpec => []DuplicatesAreRetries
<1>1. OutboxConsistent => DuplicatesAreRetries
  <2> SUFFICES ASSUME OutboxConsistent, NEW e \in Events
               PROVE  appended[e] + Cardinality(InBatch(e)) <= 1 + retryCount[e] + recovered[e]
    BY DEF DuplicatesAreRetries
  <2>1. /\ appended[e] \in Nat /\ retryCount[e] \in Nat /\ recovered[e] \in Nat
        /\ Cardinality(InBatch(e)) \in Nat
    BY InBatchFinite DEF OutboxConsistent, OutboxTypeOK
  <2> QED
    BY <2>1 DEF OutboxConsistent, CopiesAreCounted
<1> QED
  BY <1>1, OutboxStaysConsistent, PTL

(* A worker whose lock was recovered cannot return the event behind its new  *)
(* owner: what leaves "processing" unpublished was counted in that step. *)
THEOREM NoUncountedReturn == OutboxSpec => ReturnsAreCounted
<1> DEFINE Counted ==
      \A e \in Events :
        status[e] = "processing" /\ status'[e] \notin {"processing", "published"} =>
          \/ retryCount'[e] = retryCount[e] + 1
          \/ recovered'[e] = recovered[e] + 1
<1>1. OutboxConsistent /\ [OutboxNext]_outboxVars => [Counted]_outboxVars
  <2> SUFFICES ASSUME OutboxConsistent, OutboxNext, NEW e \in Events,
                      status[e] = "processing", status'[e] \notin {"processing", "published"}
               PROVE  \/ retryCount'[e] = retryCount[e] + 1
                      \/ recovered'[e] = recovered[e] + 1
    OBVIOUS
  <2>0. OutboxTypeOK
    BY DEF OutboxConsistent
  <2>1. ASSUME NEW d \in Events, LockLapses(d) \/ Insert(d) PROVE FALSE
    BY <2>0, <2>1 DEF LockLapses, Insert, OutboxTypeOK
  <2>2. ASSUME NEW w \in Workers, Start(w) PROVE recovered'[e] = recovered[e] + 1
    BY <2>2 DEF Start, Recover
  <2>3. ASSUME NEW w \in Workers,
               Crash(w) \/ AppendStream(w) \/ AppendFails(w) \/ MarkPublishedFails(w)
        PROVE  FALSE
    BY <2>3 DEF Crash, AppendStream, AppendFails, Take, MarkPublishedFails, rowVars
  <2>4. ASSUME NEW w \in Workers, ClaimBatch(w) PROVE FALSE
    BY <2>4 DEF ClaimBatch
  <2>5. ASSUME NEW w \in Workers, MarkPublished(w) PROVE FALSE
    <3>1. PICK c \in current[w] : Mark(w, c.event, "published", retryCount[c.event])
      BY <2>5 DEF MarkPublished
    <3> QED
      BY <2>0, <3>1 DEF Mark, rowVars, OutboxTypeOK
  <2>6. ASSUME NEW w \in Workers, MarkFailed(w) PROVE retryCount'[e] = retryCount[e] + 1
    <3>1. PICK c \in current[w], s \in {"dead_letter", "retry"} :
            Mark(w, c.event, s, c.retryCount + 1)
      BY <2>6 DEF MarkFailed
    <3>2. Holds(w, c.event) /\ c.event = e
      BY <2>0, <3>1 DEF Mark, rowVars, OutboxTypeOK
    <3>3. c.retryCount = retryCount[e]
      BY <3>2 DEF OutboxConsistent, ClaimsAreCurrent, InHand
    <3> QED
      BY <2>0, <3>1, <3>2, <3>3 DEF Mark, OutboxTypeOK
  <2> QED
    BY <2>1, <2>2, <2>3, <2>4, <2>5, <2>6 DEF OutboxNext, OutboxStep, PublishAvailable
<1> QED
  BY <1>1, OutboxStaysConsistent, PTL DEF OutboxSpec, ReturnsAreCounted

-----------------------------------------------------------------------------
(* Workers implement the promise of EventDelivery.                       *)

(* A mark closes an open event, as the promise allows, or changes nothing.   *)
LEMMA MarkRefines ==
  ASSUME OutboxConsistent, NEW w \in Workers, NEW c \in current[w],
         NEW s \in {"published", "retry", "dead_letter"}, NEW n \in Nat,
         Mark(w, c.event, s, n), UNCHANGED appended,
         s = "published" => appended[c.event] > 0
  PROVE  [Delivery!Next]_<<stage, onStream>>
<1> DEFINE e == c.event
<1>1. e \in Events /\ status \in [Events -> EventStatus]
  BY DEF OutboxConsistent, OutboxTypeOK, Claim
<1>2. UNCHANGED onStream
  BY DEF onStream
<1>3. CASE ~Holds(w, e)
  BY <1>2, <1>3 DEF Mark, rowVars, stage
<1>4. CASE Holds(w, e)
  <2>1. status' = [status EXCEPT ![e] = s] /\ stage[e] = "open"
    BY <1>1, <1>4 DEF Mark, Holds, stage
  <2>2. CASE s = "retry"
    BY <1>1, <1>2, <2>1, <2>2 DEF stage
  <2>3. CASE s = "published"
    <3>1. stage' = [stage EXCEPT ![e] = "delivered"]
      BY <1>1, <2>1, <2>3 DEF stage
    <3>2. e \in onStream
      BY <1>1, <2>3 DEF onStream
    <3> QED
      BY <1>1, <1>2, <2>1, <3>1, <3>2 DEF Delivery!Next, Delivery!Deliver
  <2>4. CASE s = "dead_letter"
    <3>1. stage' = [stage EXCEPT ![e] = "abandoned"]
      BY <1>1, <2>1, <2>4 DEF stage
    <3> QED
      BY <1>1, <1>2, <2>1, <3>1 DEF Delivery!Next, Delivery!Abandon
  <2> QED
    BY <2>2, <2>3, <2>4
<1> QED
  BY <1>3, <1>4

(* Every step is a step of the promise, or none.                         *)
LEMMA StepRefines ==
  OutboxConsistent /\ [OutboxNext]_outboxVars => [Delivery!Next]_<<stage, onStream>>
<1> SUFFICES ASSUME OutboxConsistent, [OutboxNext]_outboxVars
             PROVE  [Delivery!Next]_<<stage, onStream>>
  OBVIOUS
<1>0. OutboxTypeOK
  BY DEF OutboxConsistent
<1>1. ASSUME NEW e \in Events, LockLapses(e) PROVE UNCHANGED <<stage, onStream>>
  BY <1>1 DEF LockLapses, stage, onStream
<1>2. ASSUME NEW e \in Events, Insert(e) PROVE [Delivery!Next]_<<stage, onStream>>
  <2>1. stage[e] = "none" /\ stage' = [stage EXCEPT ![e] = "open"]
    BY <1>0, <1>2 DEF Insert, stage, OutboxTypeOK
  <2>2. UNCHANGED onStream
    BY <1>2 DEF Insert, onStream
  <2> QED
    BY <2>1, <2>2 DEF Delivery!Next, Delivery!Record
<1>3. ASSUME NEW w \in Workers, Start(w) PROVE UNCHANGED <<stage, onStream>>
  <2>1. \A e \in Stale : e \in Events /\ status[e] = "processing" /\ status'[e] = "retry"
    <3>1. \A e \in Stale : e \in Events /\ ~(retryCount[e] >= MaxAttempts)
      BY <1>0 DEF Stale, OutboxTypeOK, OutboxConsistent, GivenUpAfterAllAttempts
    <3> QED
      BY <1>3, <3>1 DEF Start, Recover, StatusOfStale, Stale
  <2>2. \A e \in Events : e \notin Stale => status'[e] = status[e]
    BY <1>3 DEF Start, Recover
  <2> QED
    BY <1>3, <2>1, <2>2 DEF Start, stage, onStream
<1>4. ASSUME NEW w \in Workers, ClaimBatch(w) PROVE UNCHANGED <<stage, onStream>>
  <2>1. PICK S \in SUBSET Due :
          status' = [e \in Events |-> IF e \in S THEN "processing" ELSE status[e]]
    BY <1>4 DEF ClaimBatch
  <2>2. \A e \in S : status[e] \in {"pending", "retry"}
    BY DEF Due
  <2> QED
    BY <1>4, <2>1, <2>2 DEF ClaimBatch, stage, onStream
<1>5. ASSUME NEW w \in Workers, AppendStream(w) \/ AppendFails(w)
      PROVE  [Delivery!Next]_<<stage, onStream>>
  <2>1. PICK c \in batch[w] :
          /\ UNCHANGED status
          /\ appended' \in {appended, [appended EXCEPT ![c.event] = @ + 1]}
    BY <1>5 DEF AppendStream, AppendFails, Take, rowVars
  <2>2. c.event \in Events /\ status[c.event] # "none"
    BY <1>0 DEF OutboxTypeOK, Claim, OutboxConsistent, ClaimsAreCurrent, InHand
  <2>3. UNCHANGED stage /\ stage[c.event] # "none"
    BY <2>1, <2>2 DEF stage
  <2>4. onStream' = onStream \/ onStream' = onStream \cup {c.event}
    BY <1>0, <2>1, <2>2 DEF onStream, OutboxTypeOK
  <2> QED
    BY <2>2, <2>3, <2>4 DEF Delivery!Next, Delivery!Copy
<1>6. ASSUME NEW w \in Workers, MarkPublished(w) PROVE [Delivery!Next]_<<stage, onStream>>
  <2>1. PICK c \in current[w] : Mark(w, c.event, "published", retryCount[c.event])
    BY <1>6 DEF MarkPublished
  <2>2. /\ retryCount[c.event] \in Nat
        /\ appended[c.event] > 0
        /\ UNCHANGED appended
    BY <1>0, <1>6 DEF MarkPublished, Continue, OutboxTypeOK, Claim, OutboxConsistent,
       ConfirmedIsAppended
  <2> QED
    BY <2>1, <2>2, MarkRefines
<1>7. ASSUME NEW w \in Workers, Crash(w) \/ MarkPublishedFails(w)
      PROVE  UNCHANGED <<stage, onStream>>
  BY <1>7 DEF Crash, MarkPublishedFails, rowVars, stage, onStream
<1>8. ASSUME NEW w \in Workers, MarkFailed(w) PROVE [Delivery!Next]_<<stage, onStream>>
  <2>1. PICK c \in current[w], s \in {"dead_letter", "retry"} :
          Mark(w, c.event, s, c.retryCount + 1)
    BY <1>8 DEF MarkFailed
  <2>2. c.retryCount + 1 \in Nat /\ UNCHANGED appended
    BY <1>0, <1>8 DEF OutboxTypeOK, Claim, MarkFailed, Continue
  <2> QED
    BY <2>1, <2>2, MarkRefines
<1>9. CASE UNCHANGED outboxVars
  BY <1>9 DEF outboxVars, rowVars, stage, onStream
<1> QED
  BY <1>1, <1>2, <1>3, <1>4, <1>5, <1>6, <1>7, <1>8, <1>9
     DEF OutboxNext, OutboxStep, PublishAvailable

(* Nothing is recorded and nothing is on the stream.                     *)
LEMMA InitRefines == OutboxInit => Delivery!Init
BY DEF OutboxInit, Delivery!Init, stage, onStream

(* Whatever workers crash, stall or race: an event counts as delivered only  *)
(* with a copy on the stream, and final states are final.                *)
THEOREM WorkersDeliver == OutboxSpec => DeliverySpec
BY InitRefines, StepRefines, OutboxStaysConsistent, PTL
   DEF OutboxSpec, DeliverySpec, Delivery!Spec, Delivery!deliveryVars
=============================================================================
