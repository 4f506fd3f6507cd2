--------------------------- MODULE VerificationCodes ---------------------------
(*************************************************************************)
(* Verification codes of one merchant's customers and the channel that   *)
(* carries them: CustomerOtpService, OtpDeliveryService,                 *)
(* TenantCommunicationService, CommunicationWorkerService and the rules  *)
(* of migration 0024.                                                    *)
(*                                                                       *)
(* A code is a challenge and, unless the universal code is on and no     *)
(* channel is active, a delivery job pinned to the version of the        *)
(* channel.  A worker takes one job at a time: it claims it and reads    *)
(* the credentials, looks again, calls the provider and reports, each in *)
(* a transaction of its own.                                             *)
(*************************************************************************)
EXTENDS Integers, FiniteSets

CONSTANTS
  Codes,             (* customer_otp_challenges and their delivery jobs.   *)
  Trials,            (* Delivery jobs that test the channel (config_test). *)
  Couriers,          (* Worker processes.                                  *)
  MaxSends,          (* max_attempts of a job.                             *)
  MaxGuesses,        (* max_attempts of a challenge.                       *)
  MaxChannelChanges, (* Bound on the channel's version.                    *)
  MaxCourierStops,   (* Bound on crashes.                                  *)
  UniversalCode,     (* CUSTOMER_OTP_UNIVERSAL_CODE is on.                 *)
  NoCourier

Mail == Codes \cup Trials

ASSUME MailAssumption == Codes \cap Trials = {} /\ NoCourier \notin Couriers /\ IsFiniteSet(Couriers)
ASSUME SendsAssumption == MaxSends \in Nat \ {0} /\ MaxGuesses \in Nat /\ UniversalCode \in BOOLEAN

VARIABLES
  channel,    (* tenant_communication_configs and its secret; version 0 is
                 no row yet.                                               *)
  mail,       (* customer_otp_delivery_jobs                               *)
  pastDue,    (* Codes and tests whose expires_at has passed.             *)
  oldLocks,   (* Jobs locked for more than two minutes.                   *)
  courier,    (* What each worker process holds in its memory.            *)
  code,       (* customer_otp_challenges                                  *)
  proven,     (* Credentials with which the provider took a test message. *)
  copies,     (* How often the provider was given each message.           *)
  courierStops

codeVars == <<channel, mail, pastDue, oldLocks, courier, code, proven, copies, courierStops>>

NoMail == [status |-> "none", attempts |-> 0, lock |-> NoCourier, version |-> 0]
NoTask == [step |-> "idle", job |-> NoCourier, secret |-> 0, answer |-> "none"]
OffDuty == [NoTask EXCEPT !.step = "off"]

CodeTypeOK ==
  /\ channel \in [version: Nat, active: BOOLEAN, test: {"none", "passed", "failed"}, secret: Nat]
  /\ mail \in [Mail -> [status: {"none", "pending", "processing", "retry", "sent",
                                 "dead_letter", "expired", "erased"},
                        attempts: Nat, lock: Couriers \cup {NoCourier}, version: Nat]]
  /\ pastDue \subseteq Mail /\ oldLocks \subseteq Mail
  /\ courier \in [Couriers -> [step: {"off", "idle", "claimed", "checked", "answered"},
       job: Mail \cup {NoCourier}, secret: Nat,
       answer: {"none", "accepted", "unclear", "refused", "changed"}]]
  /\ code \in [Codes -> [status: {"none", "open", "used", "erased"}, guesses: 0 .. MaxGuesses]]
  /\ proven \subseteq Nat /\ copies \in [Mail -> Nat] /\ courierStops \in Nat

CodeInit ==
  /\ channel = [version |-> 0, active |-> FALSE, test |-> "none", secret |-> 0]
  /\ mail = [j \in Mail |-> NoMail]
  /\ pastDue = {} /\ oldLocks = {}
  /\ courier = [w \in Couriers |-> OffDuty]
  /\ code = [c \in Codes |-> [status |-> "none", guesses |-> 0]]
  /\ proven = {} /\ copies = [j \in Mail |-> 0] /\ courierStops = 0

(*************************************************************************)
(* The channel, by platform staff.  Each form carries the version it     *)
(* shows.                                                                *)
(*************************************************************************)
ChangeChannel(new) ==
  /\ channel.version < MaxChannelChanges
  /\ channel' = [new EXCEPT !.version = channel.version + 1]

\* upsertConfig: new credentials start unproven and out of use.
UpsertChannel ==
  /\ ChangeChannel([channel EXCEPT !.active = FALSE, !.test = "none", !.secret = @ + 1])
  /\ UNCHANGED <<mail, pastDue, oldLocks, courier, code, proven, copies, courierStops>>

\* testConfig takes the channel out of use and orders a test message.
TestChannel(t) ==
  /\ channel.version > 0 /\ mail[t].status = "none"
  /\ ChangeChannel([channel EXCEPT !.active = FALSE, !.test = "none"])
  /\ mail' = [mail EXCEPT ![t] = [NoMail EXCEPT !.status = "pending", !.version = channel'.version]]
  /\ UNCHANGED <<pastDue, oldLocks, courier, code, proven, copies, courierStops>>

\* setConfigStatus
SetChannelStatus(active) ==
  /\ channel.version > 0
  /\ active => channel.test = "passed"
  /\ ChangeChannel([channel EXCEPT !.active = active])
  /\ UNCHANGED <<mail, pastDue, oldLocks, courier, code, proven, copies, courierStops>>

(*************************************************************************)
(* A customer's code.                                                    *)
(*************************************************************************)
\* enqueueOtp: without an active channel the universal code is the only one, or
\* there is no challenge.
EnqueueCode(c) ==
  \/ /\ channel.active
     /\ mail' = [mail EXCEPT ![c] =
                   [NoMail EXCEPT !.status = "pending", !.version = channel.version]]
  \/ ~channel.active /\ UniversalCode /\ UNCHANGED mail

\* createChallenge
CreateCode(c) ==
  /\ code[c].status = "none"
  /\ code' = [code EXCEPT ![c].status = "open"]
  /\ EnqueueCode(c)
  /\ UNCHANGED <<channel, pastDue, oldLocks, courier, proven, copies, courierStops>>

\* verifyChallenge: the row is locked, so guesses are taken one after another.
VerifyCode(c, right) ==
  /\ code[c].status = "open" /\ c \notin pastDue /\ code[c].guesses < MaxGuesses
  /\ right => copies[c] > 0 \/ UniversalCode
  /\ code' = [code EXCEPT ![c] = [status |-> IF right THEN "used" ELSE @.status,
                                  guesses |-> @.guesses + 1]]
  /\ UNCHANGED <<channel, mail, pastDue, oldLocks, courier, proven, copies, courierStops>>

\* deleteOtpSecrets, when the customer's account is erased.
EraseCode(c) ==
  /\ code[c].status \in {"open", "used"}
  /\ code' = [code EXCEPT ![c].status = "erased"]
  /\ mail' = [mail EXCEPT ![c].status = IF @ = "none" THEN @ ELSE "erased",
                          ![c].lock = NoCourier]
  /\ oldLocks' = oldLocks \ {c}
  /\ UNCHANGED <<channel, pastDue, courier, proven, copies, courierStops>>

(*************************************************************************)
(* Workers.                                                              *)
(*************************************************************************)
\* The row of a job that leaves processing: every way counts an attempt.
ReturnedMail(j, retryable) ==
  [mail[j] EXCEPT !.attempts = @ + 1, !.lock = NoCourier,
     !.status = IF j \in pastDue THEN "expired"
                ELSE IF retryable /\ mail[j].attempts + 1 < MaxSends THEN "retry"
                ELSE "dead_letter"]

\* A test that ends without success disables the version it tested.
FailedTests(js) == { j \in js \cap Trials : mail'[j].status # "retry" /\
                                             mail[j].version = channel.version }
DisableUntested(js) ==
  channel' = IF FailedTests(js) = {} THEN channel
             ELSE [channel EXCEPT !.active = FALSE, !.test = "failed"]

\* A process starts, under a new random name, with recoverStaleLocks.
StartCourier(w) ==
  LET stale == { j \in oldLocks : mail[j].status = "processing" } IN
  /\ courier[w].step = "off"
  /\ courier' = [courier EXCEPT ![w] = NoTask]
  /\ mail' = [j \in Mail |-> IF j \in stale THEN ReturnedMail(j, TRUE) ELSE mail[j]]
  /\ DisableUntested(stale)
  /\ oldLocks' = oldLocks \ stale
  /\ UNCHANGED <<pastDue, code, proven, copies, courierStops>>

WaitingMail(j) == mail[j].status \in {"pending", "retry"}

\* The first statement of claim.
ExpiredMail(j) == IF WaitingMail(j) /\ j \in pastDue THEN [mail[j] EXCEPT !.status = "expired"] ELSE mail[j]

\* claim: one job, with the credentials of this moment; a job whose backoff has
\* not ended is one that is not taken.
ClaimMail(w, j) ==
  /\ courier[w].step = "idle" /\ WaitingMail(j) /\ j \notin pastDue
  /\ mail' = [i \in Mail |-> IF i = j THEN [mail[j] EXCEPT !.status = "processing", !.lock = w]
                             ELSE ExpiredMail(i)]
  /\ courier' = [courier EXCEPT ![w] =
                   [step |-> "claimed", job |-> j, secret |-> channel.secret, answer |-> "none"]]
  /\ UNCHANGED <<channel, pastDue, oldLocks, code, proven, copies, courierStops>>

ClaimNothing(w) ==
  /\ courier[w].step = "idle"
  /\ mail' = [i \in Mail |-> ExpiredMail(i)]
  /\ mail' # mail
  /\ UNCHANGED <<channel, pastDue, oldLocks, courier, code, proven, copies, courierStops>>

HoldsMail(w, j) == mail[j].status = "processing" /\ mail[j].lock = w

\* stillEligible
EligibleMail(w, j) ==
  /\ channel.version = mail[j].version
  /\ j \in Trials \/ channel.active
  /\ HoldsMail(w, j) /\ j \notin pastDue

CheckMail(w) ==
  /\ courier[w].step = "claimed"
  /\ courier' = [courier EXCEPT ![w] =
                   IF EligibleMail(w, courier[w].job)
                   THEN [@ EXCEPT !.step = "checked"]
                   ELSE [@ EXCEPT !.step = "answered", !.answer = "changed"]]
  /\ UNCHANGED <<channel, mail, pastDue, oldLocks, code, proven, copies, courierStops>>

\* The provider takes the message, refuses it for good, or leaves it open: a
\* timeout, a busy provider, an answer without a usable id.
SendMail(w, answer, given) ==
  /\ courier[w].step = "checked"
  /\ (answer = "accepted" => given) /\ (answer = "refused" => ~given)
  /\ courier' = [courier EXCEPT ![w].step = "answered", ![w].answer = answer]
  /\ copies' = IF given THEN [copies EXCEPT ![courier[w].job] = @ + 1] ELSE copies
  /\ proven' = IF answer = "accepted" /\ courier[w].job \in Trials
               THEN proven \cup {courier[w].secret} ELSE proven
  /\ UNCHANGED <<channel, mail, pastDue, oldLocks, code, courierStops>>

\* Mutant: the report of a test passes the channel as it is now, whatever version
\* the message was sent for.
SucceedsForAnyVersion(w, j) ==
  IF HoldsMail(w, j) /\ j \notin pastDue
  THEN /\ mail' = [mail EXCEPT ![j].status = "sent", ![j].attempts = @ + 1, ![j].lock = NoCourier]
       /\ channel' = IF j \in Trials THEN [channel EXCEPT !.test = "passed"] ELSE channel
  ELSE UNCHANGED <<mail, channel>>

\* succeed: nothing is written for a job that is no longer this worker's, nor
\* for one whose time is over.
SucceedMail(w, j) ==
  IF HoldsMail(w, j) /\ j \notin pastDue
  THEN /\ mail' = [mail EXCEPT ![j].status = "sent", ![j].attempts = @ + 1, ![j].lock = NoCourier]
       /\ channel' = IF j \in Trials /\ mail[j].version = channel.version
                     THEN [channel EXCEPT !.test = "passed"] ELSE channel
  ELSE UNCHANGED <<mail, channel>>

\* fail
FailMail(w, j, retryable) ==
  IF HoldsMail(w, j)
  THEN /\ mail' = [mail EXCEPT ![j] = ReturnedMail(j, retryable)]
       /\ DisableUntested({j})
  ELSE UNCHANGED <<mail, channel>>

ReportMail(w) ==
  LET j == courier[w].job IN
  /\ courier[w].step = "answered"
  /\ \/ courier[w].answer = "accepted" /\ SucceedMail(w, j)
     \/ courier[w].answer # "accepted" /\ FailMail(w, j, courier[w].answer = "unclear")
  /\ oldLocks' = { i \in oldLocks : mail'[i].status = "processing" }
  /\ courier' = [courier EXCEPT ![w] = NoTask]
  /\ UNCHANGED <<pastDue, code, proven, copies, courierStops>>

\* The process stops; nobody has its name again.
CrashCourier(w) ==
  /\ courier[w].step # "off" /\ courierStops < MaxCourierStops
  /\ courier' = [courier EXCEPT ![w] = OffDuty]
  /\ mail' = [j \in Mail |-> [mail[j] EXCEPT !.lock = IF @ = w THEN NoCourier ELSE @]]
  /\ courierStops' = courierStops + 1
  /\ UNCHANGED <<channel, pastDue, oldLocks, code, proven, copies>>

\* Ten minutes pass for a message; two minutes pass for a lock.
MailExpires(j) ==
  /\ j \notin pastDue /\ (mail[j].status # "none" \/ (j \in Codes /\ code[j].status # "none"))
  /\ pastDue' = pastDue \cup {j}
  /\ UNCHANGED <<channel, mail, oldLocks, courier, code, proven, copies, courierStops>>

LockAges(j) ==
  /\ mail[j].status = "processing" /\ j \notin oldLocks
  /\ oldLocks' = oldLocks \cup {j}
  /\ UNCHANGED <<channel, mail, pastDue, courier, code, proven, copies, courierStops>>

CodeNext ==
  \/ UpsertChannel \/ \E t \in Trials : TestChannel(t) \/ \E a \in BOOLEAN : SetChannelStatus(a)
  \/ \E c \in Codes : CreateCode(c) \/ EraseCode(c) \/ \E right \in BOOLEAN : VerifyCode(c, right)
  \/ \E w \in Couriers :
       \/ StartCourier(w) \/ ClaimNothing(w) \/ CheckMail(w) \/ ReportMail(w) \/ CrashCourier(w)
       \/ \E j \in Mail : ClaimMail(w, j)
       \/ \E a \in {"accepted", "unclear", "refused"}, g \in BOOLEAN : SendMail(w, a, g)
  \/ \E j \in Mail : MailExpires(j) \/ LockAges(j)

CodeSpec == CodeInit /\ [][CodeNext]_codeVars

(*************************************************************************)
(* Properties.                                                           *)
(*************************************************************************)
\* A channel in use is one whose present credentials the provider has accepted
\* a test message with, and whose tests have not failed since: not the ones
\* before them, however late the test of those was reported.
ActiveIsProven == channel.active => channel.test = "passed" /\ channel.secret \in proven

\* A customer is sent a code at most MaxSends times, though workers that are
\* believed dead send too: every message given to the provider is one of an attempt
\* that was counted, or of the claim that is open.
SentSparingly ==
  \A j \in Mail :
    /\ copies[j] <= MaxSends
    /\ copies[j] <= mail[j].attempts + (IF mail[j].status \in {"processing", "erased"} THEN 1 ELSE 0)

CodesArriveSparingly == ActiveIsProven /\ SentSparingly
=============================================================================
