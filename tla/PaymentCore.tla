----------------------------- MODULE PaymentCore -----------------------------
(*************************************************************************)
(* Paying an order: CommerceOrderService, PaymentCoreService and the     *)
(* rows they share with the payment provider.                            *)
(*                                                                       *)
(* A customer's request to pay runs as a first transaction, a call to    *)
(* the provider, and a second transaction; any number of such requests,  *)
(* for one Idempotency-Key or for several, interleave with one another,  *)
(* with the provider's webhooks, with the order's deadline and with      *)
(* changes of the merchant's configuration.  Every transaction takes row *)
(* locks on all it decides on, so each one is one action here.           *)
(*                                                                       *)
(* An attempt is named by the command that created it: the command row   *)
(* (command_idempotency) and the attempt are inserted in one             *)
(* transaction, and a key belongs to one order because the request hash  *)
(* covers it.                                                            *)
(*************************************************************************)
EXTENDS Integers, FiniteSets

CONSTANTS
  Orders,            (* Orders, each for one item.                         *)
  Attempts,          (* Payment attempts, one per Idempotency-Key.         *)
  OrderOf,           (* The order an attempt pays.                         *)
  PlatformCollect,   (* The attempts routed to the platform's account.     *)
  Requests,          (* Concurrent calls of createPayment and getPayment.  *)
  Hosted,            (* TRUE: Stripe checkout; FALSE: the fake adapter.    *)
  Fits,              (* How a signed event may fit the attempt's snapshot. *)
  MaxConfigVersion,  (* Bound on changes of the payment configuration.     *)
  NoAttempt          (* What an idle request works for.                    *)

ASSUME OrderOfAssumption == OrderOf \in [Attempts -> Orders]
ASSUME RoutingAssumption == PlatformCollect \subseteq Attempts
ASSUME FitsAssumption ==
  Fits \subseteq {"exact", "reference", "amount", "charge"}
ASSUME VersionAssumption == MaxConfigVersion \in Nat
ASSUME HostedAssumption == Hosted \in BOOLEAN
ASSUME NoAttemptAssumption == NoAttempt \notin Attempts

VARIABLES
  clock,      (* Each order's time: "ample", "short" (under 30 min), "past".  *)
  order,      (* orders.status, "absent" before createOrder.                  *)
  attempt,    (* payment_attempts.status, "none" before the insert.           *)
  bound,      (* The attempts whose external_payment_id is recorded.          *)
  command,    (* command_idempotency.status of the attempt's command.         *)
  snapshot,   (* The configuration version and secret an attempt was made on. *)
  config,     (* payment_configs: status, test result, version and secret.    *)
  available,  (* Tenant and customer pass lockCustomerCommerceAvailability.   *)
  request,    (* Program counter and attempt of each running request.         *)
  session,    (* The provider's checkout session for the attempt's key.       *)
  checkout,   (* The attempts whose checkout action reached the customer.     *)
  events,     (* Signed events the provider sends, again and again.           *)
  inbox,      (* payment_webhook_inbox.status of each event.                  *)
  charges,    (* Attempts with a succeeded charge in payment_transactions.    *)
  goods,      (* Per order, the attempts that granted points or a right.      *)
  payables,   (* Charges with a merchant settlement.                          *)
  published,  (* Attempts whose PaymentSucceeded is in outbox_events.         *)
  escalated   (* Events with a PaymentReconciliationRequired.                 *)

orderVars    == <<clock, order>>
attemptVars  == <<attempt, bound, command, snapshot>>
merchantVars == <<config, available>>
providerVars == <<session, events>>
effectVars   == <<charges, goods, payables, published>>
inboxVars    == <<inbox, escalated>>
vars == <<orderVars, attemptVars, merchantVars, request, providerVars,
          checkout, inboxVars, effectVars>>

Clock         == {"ample", "short", "past"}
OrderStatus   == {"absent", "pending_payment", "paid", "expired"}
AttemptStatus ==
  {"none", "initialized", "pending", "succeeded", "failed", "expired"}
CommandStatus == {"none", "processing", "completed", "failed"}
SessionStatus == {"none", "open", "captured", "lapsed"}
Event == [attempt: Attempts, type: {"succeeded", "failed", "expired"}, fit: Fits]
Idle  == [pc |-> "idle", attempt |-> NoAttempt]

TypeOK ==
  /\ clock \in [Orders -> Clock]
  /\ order \in [Orders -> OrderStatus]
  /\ attempt \in [Attempts -> AttemptStatus]
  /\ bound \subseteq Attempts
  /\ command \in [Attempts -> CommandStatus]
  /\ snapshot \in [Attempts -> [version: Nat, secret: Nat]]
  /\ config \in [active: BOOLEAN, tested: BOOLEAN, version: Nat, secret: Nat]
  /\ available \in BOOLEAN
  /\ request \in [Requests ->
       {Idle} \cup [pc: {"prepared", "accepted", "refused", "read"}, attempt: Attempts]]
  /\ session \in [Attempts -> SessionStatus]
  /\ checkout \subseteq Attempts
  /\ events \subseteq Event
  /\ inbox \in [Event -> {"none", "processed", "rejected"}]
  /\ charges \subseteq Attempts
  /\ goods \in [Orders -> SUBSET Attempts]
  /\ payables \subseteq Attempts
  /\ published \subseteq Attempts
  /\ escalated \subseteq Event

Init ==
  /\ clock = [o \in Orders |-> "ample"]
  /\ order = [o \in Orders |-> "absent"]
  /\ attempt = [a \in Attempts |-> "none"]
  /\ bound = {}
  /\ command = [a \in Attempts |-> "none"]
  /\ snapshot = [a \in Attempts |-> [version |-> 0, secret |-> 0]]
  /\ config = [active |-> TRUE, tested |-> TRUE, version |-> 0, secret |-> 0]
  /\ available = TRUE
  /\ request = [r \in Requests |-> Idle]
  /\ session = [a \in Attempts |-> "none"]
  /\ checkout = {}
  /\ events = {}
  /\ inbox = [e \in Event |-> "none"]
  /\ charges = {}
  /\ goods = [o \in Orders |-> {}]
  /\ payables = {}
  /\ published = {}
  /\ escalated = {}

-----------------------------------------------------------------------------
(* Time, and what the merchant and the platform change under an order.   *)

\* The database clock moves towards orders.expires_at.
TimePasses(o) ==
  /\ order[o] # "absent"
  /\ clock[o] # "past"
  /\ clock' = [clock EXCEPT ![o] = IF @ = "ample" THEN "short" ELSE "past"]
  /\ UNCHANGED <<order, attemptVars, merchantVars, request, providerVars,
                 checkout, inboxVars, effectVars>>

\* Suspending or restoring the tenant, its sites or the customer.
ChangeAvailability ==
  /\ available' = ~available
  /\ UNCHANGED <<orderVars, attemptVars, config, request, providerVars,
                 checkout, inboxVars, effectVars>>

Reconfigurable == Hosted /\ config.version < MaxConfigVersion

\* setStatus: only a tested configuration is enabled; the version is bumped
\* although nothing may change.
SetConfigStatus(enabled) ==
  /\ Reconfigurable
  /\ enabled => config.tested
  /\ config' = [config EXCEPT !.active = enabled, !.version = @ + 1]
  /\ UNCHANGED <<orderVars, attemptVars, available, request, providerVars,
                 checkout, inboxVars, effectVars>>

\* test: its result is stored if the version is still the one tested, and
\* bumps it; a deferred trigger keeps an active configuration tested.
TestConfig(passed) ==
  /\ Reconfigurable
  /\ config.active => passed
  /\ config' = [config EXCEPT !.tested = passed, !.version = @ + 1]
  /\ UNCHANGED <<orderVars, attemptVars, available, request, providerVars,
                 checkout, inboxVars, effectVars>>

\* Rotating the credentials disables the configuration until it is tested.
RotateSecret ==
  /\ Reconfigurable
  /\ config' = [active |-> FALSE, tested |-> FALSE,
                version |-> config.version + 1, secret |-> config.secret + 1]
  /\ UNCHANGED <<orderVars, attemptVars, available, request, providerVars,
                 checkout, inboxVars, effectVars>>

-----------------------------------------------------------------------------
(* Orders.                                                               *)

CreateOrder(o) ==
  /\ available
  /\ order[o] = "absent"
  /\ order' = [order EXCEPT ![o] = "pending_payment"]
  /\ UNCHANGED <<clock, attemptVars, merchantVars, request, providerVars,
                 checkout, inboxVars, effectVars>>

\* listOrders and getOrder first expire what is past its deadline.
ExpirePendingOrders(o) ==
  /\ available
  /\ order[o] = "pending_payment"
  /\ clock[o] = "past"
  /\ order' = [order EXCEPT ![o] = "expired"]
  /\ UNCHANGED <<clock, attemptVars, merchantVars, request, providerVars,
                 checkout, inboxVars, effectVars>>

-----------------------------------------------------------------------------
(* createPayment: first transaction, provider call, second transaction.  *)

SecretActive(a) == Hosted => snapshot[a].secret = config.secret

\* First transaction under a new key.  An order past its deadline is refused:
\* the update to "expired" is rolled back by the exception that follows it.
PreparePayment(r, a) ==
  LET o == OrderOf[a] IN
  /\ request[r] = Idle
  /\ available
  /\ command[a] = "none"
  /\ order[o] = "pending_payment"
  /\ clock[o] # "past"
  /\ config.active
  /\ Hosted => clock[o] = "ample"
  /\ attempt' = [attempt EXCEPT ![a] = "initialized"]
  /\ command' = [command EXCEPT ![a] = "processing"]
  /\ snapshot' = [snapshot EXCEPT
       ![a] = [version |-> config.version, secret |-> config.secret]]
  /\ request' = [request EXCEPT ![r] = [pc |-> "prepared", attempt |-> a]]
  /\ UNCHANGED <<orderVars, bound, merchantVars, providerVars, checkout,
                 inboxVars, effectVars>>

\* First transaction under a key still processing: the attempt is resumed,
\* whatever became of its order.
ResumePayment(r, a) ==
  /\ request[r] = Idle
  /\ available
  /\ command[a] = "processing"
  /\ attempt[a] = "initialized"
  /\ SecretActive(a)
  /\ request' = [request EXCEPT ![r] = [pc |-> "prepared", attempt |-> a]]
  /\ UNCHANGED <<orderVars, attemptVars, merchantVars, providerVars, checkout,
                 inboxVars, effectVars>>

\* getPayment, also for a completed key: the attempt is read ...
ReadPayment(r, a) ==
  /\ request[r] = Idle
  /\ available
  /\ attempt[a] = "pending"
  /\ a \in bound
  /\ config.active
  /\ SecretActive(a)
  /\ request' = [request EXCEPT ![r] = [pc |-> "read", attempt |-> a]]
  /\ UNCHANGED <<orderVars, attemptVars, merchantVars, providerVars, checkout,
                 inboxVars, effectVars>>

\* The configuration is still the one the attempt was made on.
Unchanged(a) ==
  config.active /\ config.version = snapshot[a].version /\ config.secret = snapshot[a].secret

\* ... and the action of its open session is fetched, and shown if the
\* configuration is still the attempt's, whatever became of the attempt.
ShowCheckout(r) ==
  LET a == request[r].attempt IN
  /\ request[r].pc = "read"
  /\ Hosted => session[a] = "open"
  /\ Unchanged(a)
  /\ checkout' = checkout \cup {a}
  /\ request' = [request EXCEPT ![r] = Idle]
  /\ UNCHANGED <<orderVars, attemptVars, merchantVars, providerVars, inboxVars,
                 effectVars>>

\* The provider opens one session per idempotency key, the attempt's id.
OpenSession(a) ==
  session' = [session EXCEPT ![a] = IF @ = "none" THEN "open" ELSE @]

ProviderAccepts(r) ==
  /\ request[r].pc = "prepared"
  /\ OpenSession(request[r].attempt)
  /\ request' = [request EXCEPT ![r].pc = "accepted"]
  /\ UNCHANGED <<orderVars, attemptVars, merchantVars, events, checkout,
                 inboxVars, effectVars>>

\* PaymentAdapterDefinitiveError: the request was refused, or its answer was
\* unusable although the session exists.
ProviderRefuses(r) ==
  /\ request[r].pc = "prepared"
  /\ OpenSession(request[r].attempt) \/ UNCHANGED session
  /\ request' = [request EXCEPT ![r].pc = "refused"]
  /\ UNCHANGED <<orderVars, attemptVars, merchantVars, events, checkout,
                 inboxVars, effectVars>>

\* The process dies, or the provider's answer is lost, ambiguous or of no
\* use: the attempt stays as it is, and so does its command.
AbandonRequest(r) ==
  /\ request[r] # Idle
  /\ request' = [request EXCEPT ![r] = Idle]
  /\ UNCHANGED <<orderVars, attemptVars, merchantVars, providerVars, checkout,
                 inboxVars, effectVars>>

\* update command_idempotency ... where status = 'processing'.
\* Mutant: the condition is forgotten.
CloseCommandAlways(a, status) == command' = [command EXCEPT ![a] = status]

CloseCommand(a, status) ==
  command' = [command EXCEPT ![a] = IF @ = "processing" THEN status ELSE @]

MarkInitializationFailed(r) ==
  LET a == request[r].attempt IN
  /\ request[r].pc = "refused"
  /\ IF attempt[a] = "initialized"
       THEN /\ attempt' = [attempt EXCEPT ![a] = "failed"]
            /\ CloseCommand(a, "failed")
       ELSE UNCHANGED <<attempt, command>>
  /\ request' = [request EXCEPT ![r] = Idle]
  /\ UNCHANGED <<orderVars, bound, snapshot, merchantVars, providerVars,
                 checkout, inboxVars, effectVars>>

\* What the second transaction finds changed since the first.
Unavailable(a) ==
  \/ ~available
  \/ order[OrderOf[a]] # "pending_payment"
  \/ clock[OrderOf[a]] = "past"
  \/ ~Unchanged(a)

\* Mutant: the order's status is not tested.
ExpireWheneverPast(o) ==
  order' = IF clock[o] = "past" THEN [order EXCEPT ![o] = "expired"] ELSE order

ExpireIfPast(o) ==
  order' = IF order[o] = "pending_payment" /\ clock[o] = "past"
             THEN [order EXCEPT ![o] = "expired"] ELSE order

FinalizeUnavailable(r) ==
  LET a == request[r].attempt IN
  /\ request[r].pc = "accepted"
  /\ attempt[a] = "initialized"
  /\ Unavailable(a)
  /\ attempt' = [attempt EXCEPT ![a] = "expired"]
  /\ ExpireIfPast(OrderOf[a])
  /\ CloseCommand(a, "failed")
  /\ request' = [request EXCEPT ![r] = Idle]
  /\ UNCHANGED <<clock, bound, snapshot, merchantVars, providerVars, checkout,
                 inboxVars, effectVars>>

Bind(a) == bound' = bound \cup {a}

\* The attempt was ended meanwhile: the request answers 409.
FinalizeTooLate(r) ==
  /\ request[r].pc = "accepted"
  /\ attempt[request[r].attempt] \notin {"initialized", "pending"}
  /\ request' = [request EXCEPT ![r] = Idle]
  /\ UNCHANGED <<orderVars, attemptVars, merchantVars, providerVars, checkout,
                 inboxVars, effectVars>>

\* The response may not reach the customer, who then asks again.
FinalizePending(r) ==
  LET a == request[r].attempt IN
  /\ request[r].pc = "accepted"
  /\ \/ attempt[a] = "initialized" /\ ~Unavailable(a)
     \/ attempt[a] = "pending"
  /\ attempt' = [attempt EXCEPT ![a] = "pending"]
  /\ Bind(a)
  /\ CloseCommand(a, "completed")
  /\ checkout' \in {checkout, checkout \cup {a}}
  /\ request' = [request EXCEPT ![r] = Idle]
  /\ UNCHANGED <<orderVars, snapshot, merchantVars, providerVars, inboxVars,
                 effectVars>>

-----------------------------------------------------------------------------
(* The provider.  A hosted session is paid by a customer who was given its   *)
(* URL, before the session's own deadline, which is the order's.         *)

Capture(a) ==
  /\ session[a] = "open"
  /\ Hosted => a \in checkout /\ clock[OrderOf[a]] # "past"
  /\ session' = [session EXCEPT ![a] = "captured"]
  /\ UNCHANGED <<orderVars, attemptVars, merchantVars, request, events,
                 checkout, inboxVars, effectVars>>

\* A hosted session lapses, or is expired from the provider's dashboard; the
\* fake provider declines.
Lapse(a) ==
  /\ session[a] = "open"
  /\ session' = [session EXCEPT ![a] = "lapsed"]
  /\ UNCHANGED <<orderVars, attemptVars, merchantVars, request, events,
                 checkout, inboxVars, effectVars>>

EventType(a) ==
  IF session[a] = "captured" THEN "succeeded"
  ELSE IF Hosted THEN "expired" ELSE "failed"

Announce(a, fit) ==
  /\ session[a] \in {"captured", "lapsed"}
  /\ events' = events \cup {[attempt |-> a, type |-> EventType(a), fit |-> fit]}
  /\ UNCHANGED <<orderVars, attemptVars, merchantVars, request, session,
                 checkout, inboxVars, effectVars>>

-----------------------------------------------------------------------------
(* handleWebhook.  An event already in the inbox is answered from it, and an *)
(* event whose attempt is not found is answered 404: neither changes a row.  *)

\* Mutant: the attempt is looked up together with an order still to be paid.
FoundUnpaid(e) ==
  e.attempt \in bound /\ order[OrderOf[e.attempt]] = "pending_payment"

Found(e) ==
  \/ e.attempt \in bound
  \/ attempt[e.attempt] = "initialized" /\ e.fit # "reference"

Fresh(e)   == e \in events /\ inbox[e] = "none" /\ Found(e)
Paid(e)    == attempt[e.attempt] = "succeeded" /\ order[OrderOf[e.attempt]] = "paid"

\* Mutant: a payable attempt is enough, whatever became of its order.
PayableAttempt(e) == attempt[e.attempt] \in {"initialized", "pending"}

Payable(e) == /\ attempt[e.attempt] \in {"initialized", "pending"}
              /\ order[OrderOf[e.attempt]] = "pending_payment"
Overdue(e) == clock[OrderOf[e.attempt]] = "past"
Matches(e) == e.fit \notin {"reference", "amount"}

\* Mutant: nothing is put in the outbox.
EscalateNothing(e) == UNCHANGED escalated

Record(e, status) == inbox' = [inbox EXCEPT ![e] = status]
Escalate(e)       == escalated' = escalated \cup {e}
End(a, status)    == attempt' = [attempt EXCEPT ![a] = status]

\* The signed attempt reference names another attempt than the payment does.
RejectReference(e) ==
  /\ Fresh(e)
  /\ e.fit = "reference"
  /\ Record(e, "rejected")
  /\ Escalate(e)
  /\ UNCHANGED <<orderVars, attemptVars, merchantVars, request, providerVars,
                 checkout, effectVars>>

AcknowledgePaid(e) ==
  /\ Fresh(e)
  /\ e.fit # "reference"
  /\ Paid(e)
  /\ Record(e, "processed")
  /\ UNCHANGED <<orderVars, attemptVars, merchantVars, request, providerVars,
                 checkout, escalated, effectVars>>

RejectTerminal(e) ==
  /\ Fresh(e)
  /\ e.fit # "reference"
  /\ ~Paid(e)
  /\ ~Payable(e)
  /\ Record(e, "rejected")
  /\ IF e.type = "succeeded" THEN Escalate(e) ELSE UNCHANGED escalated
  /\ UNCHANGED <<orderVars, attemptVars, merchantVars, request, providerVars,
                 checkout, effectVars>>

RejectAmount(e) ==
  /\ Fresh(e)
  /\ e.fit = "amount"
  /\ Payable(e)
  /\ End(e.attempt, "failed")
  /\ Record(e, "rejected")
  /\ UNCHANGED <<orderVars, bound, command, snapshot, merchantVars, request,
                 providerVars, checkout, escalated, effectVars>>

RejectEarlyExpiry(e) ==
  /\ Fresh(e)
  /\ Matches(e)
  /\ Payable(e)
  /\ e.type = "expired"
  /\ ~Overdue(e)
  /\ Record(e, "rejected")
  /\ UNCHANGED <<orderVars, attemptVars, merchantVars, request, providerVars,
                 checkout, escalated, effectVars>>

\* Past the deadline every event closes attempt and order: an expiry is
\* processed, anything else, a success included, is rejected.
ClosePastDeadline(e) ==
  /\ Fresh(e)
  /\ Matches(e)
  /\ Payable(e)
  /\ Overdue(e)
  /\ End(e.attempt, "expired")
  /\ order' = [order EXCEPT ![OrderOf[e.attempt]] = "expired"]
  /\ Record(e, IF e.type = "expired" THEN "processed" ELSE "rejected")
  /\ UNCHANGED <<clock, bound, command, snapshot, merchantVars, request,
                 providerVars, checkout, escalated, effectVars>>

\* A charge event inside the deadline, about to be recorded.
Chargeable(e) ==
  /\ Fresh(e)
  /\ Matches(e)
  /\ Payable(e)
  /\ ~Overdue(e)
  /\ e.type # "expired"

\* occurredAt outside the payment window, or a provider transaction id that
\* payment_transactions already holds.
RejectCharge(e) ==
  /\ Chargeable(e)
  /\ e.fit = "charge"
  /\ Record(e, "rejected")
  /\ Escalate(e)
  /\ UNCHANGED <<orderVars, attemptVars, merchantVars, request, providerVars,
                 checkout, effectVars>>

RecordFailure(e) ==
  /\ Chargeable(e)
  /\ e.fit = "exact"
  /\ e.type = "failed"
  /\ End(e.attempt, "failed")
  /\ Record(e, "processed")
  /\ UNCHANGED <<orderVars, bound, command, snapshot, merchantVars, request,
                 providerVars, checkout, escalated, effectVars>>

\* fulfillOrder, insertPaymentOutboxes: the ledger and entitlement rows are
\* keyed by the charge and the order item, "on conflict do nothing".
FulfillOrder(a) ==
  /\ goods' = [goods EXCEPT ![OrderOf[a]] = @ \cup {a}]
  /\ payables' = IF a \in PlatformCollect THEN payables \cup {a} ELSE payables
  /\ published' = published \cup {a}

RecordSuccess(e) ==
  LET a == e.attempt IN
  /\ Chargeable(e)
  /\ e.fit = "exact"
  /\ e.type = "succeeded"
  /\ charges' = charges \cup {a}
  /\ End(a, "succeeded")
  /\ Bind(a)
  /\ order' = [order EXCEPT ![OrderOf[a]] = "paid"]
  /\ CloseCommand(a, "failed")
  /\ FulfillOrder(a)
  /\ Record(e, "processed")
  /\ UNCHANGED <<clock, snapshot, merchantVars, request, providerVars,
                 checkout, escalated>>

HandleWebhook(e) ==
  \/ RejectReference(e)
  \/ AcknowledgePaid(e)
  \/ RejectTerminal(e)
  \/ RejectAmount(e)
  \/ RejectEarlyExpiry(e)
  \/ ClosePastDeadline(e)
  \/ RejectCharge(e)
  \/ RecordFailure(e)
  \/ RecordSuccess(e)

CreatePayment(r) ==
  \/ \E a \in Attempts : PreparePayment(r, a) \/ ResumePayment(r, a)
  \/ ProviderAccepts(r)
  \/ ProviderRefuses(r)
  \/ AbandonRequest(r)
  \/ MarkInitializationFailed(r)
  \/ FinalizeUnavailable(r)
  \/ FinalizeTooLate(r)
  \/ FinalizePending(r)

GetPayment(r) == ShowCheckout(r) \/ \E a \in Attempts : ReadPayment(r, a)

Provider(a) ==
  \/ Capture(a)
  \/ Lapse(a)
  \/ \E fit \in Fits : Announce(a, fit)

Next ==
  \/ \E o \in Orders : TimePasses(o) \/ CreateOrder(o) \/ ExpirePendingOrders(o)
  \/ ChangeAvailability
  \/ \E on \in BOOLEAN : SetConfigStatus(on) \/ TestConfig(on)
  \/ RotateSecret
  \/ \E r \in Requests : CreatePayment(r) \/ GetPayment(r)
  \/ \E a \in Attempts : Provider(a)
  \/ \E e \in Event : HandleWebhook(e)

Spec == Init /\ [][Next]_vars

\* The provider announces what happened and redelivers until it is answered
\* 2xx, and the running API answers; customers, merchants and staff promise
\* nothing.
FairSpec ==
  /\ Spec
  /\ \A a \in Attempts : WF_vars(Announce(a, "exact"))
  /\ \A e \in Event : WF_vars(HandleWebhook(e))

-----------------------------------------------------------------------------
(* What paying must guarantee.                                           *)

ChargesOf(o) == {a \in charges : OrderOf[a] = o}

\* An order is paid by exactly one charge, and the goods, the merchant's
\* receivable and the PaymentSucceeded event stem from that charge; an order
\* that is not paid has none of them, however requests, retries and webhooks
\* of its attempts interleave (handleWebhook, fulfillOrder).
PaidByOneCharge ==
  /\ \A o \in Orders :
       /\ goods[o] = ChargesOf(o)
       /\ order[o] = "paid" <=> ChargesOf(o) # {}
       /\ \A a, b \in ChargesOf(o) : a = b
  /\ published = charges
  /\ payables = charges \cap PlatformCollect

\* No charge is recorded that the provider did not capture.
ChargedIsCaptured == \A a \in charges : session[a] = "captured"

\* A command that answered an error never let its checkout reach the
\* customer, whichever of the concurrent requests for the key finishes first
\* (createPayment, markInitializationFailed).
FailedKeyShowsNoCheckout ==
  \A a \in Attempts : command[a] = "failed" => a \notin checkout

\* A customer can only pay a hosted session whose id the attempt row holds,
\* so the webhook of a captured payment always finds its attempt.
CapturedIsFindable ==
  Hosted => \A a \in Attempts : session[a] = "captured" => a \in bound

\* What a customer pays at is a checkout that was offered and is awaited: no key
\* that answered an error has shown one, and the webhook of what was paid finds
\* the attempt it is of, whichever request or event comes first.
CheckoutsAreAwaited == FailedKeyShowsNoCheckout /\ CapturedIsFindable

\* A success event is dropped without escalation in two places only: when
\* the amount differs, and when the event itself closes an overdue order.
SilentDropsAreTwo ==
  [][\A e \in Event :
       /\ e.type = "succeeded"
       /\ inbox[e] = "none"
       /\ inbox'[e] = "rejected"
       /\ e \notin escalated'
       => \/ e.fit = "amount" /\ attempt'[e.attempt] = "failed"
          \/ /\ order[OrderOf[e.attempt]] = "pending_payment"
             /\ order'[OrderOf[e.attempt]] = "expired"]_vars

\* docs/backend-domain.md 8.2: a late success for a closed order enters the
\* exception queue.  A success event that was rejected and whose order is
\* closed must have been escalated.
LateSuccessIsEscalated ==
  \A e \in Event :
    /\ e.type = "succeeded"
    /\ e.fit = "exact"
    /\ inbox[e] = "rejected"
    /\ order[OrderOf[e.attempt]] = "expired"
    => e \in escalated

\* A captured hosted payment is eventually accounted for: its success event
\* ends in the inbox, under redelivery alone and without the client's help.
CaptureIsAccountedFor ==
  \A a \in Attempts :
    session[a] = "captured" ~>
      \E e \in Event :
        e.attempt = a /\ e.type = "succeeded" /\ inbox[e] # "none"

\* What a request may still do to an attempt follows from how far the
\* attempt and its command have come.
CommandFollowsAttempt ==
  \A a \in Attempts :
    /\ command[a] = "none" => attempt[a] = "none"
    /\ attempt[a] = "initialized" => command[a] = "processing"
    /\ attempt[a] = "pending" => command[a] = "completed"
    /\ a \in checkout => command[a] = "completed" /\ a \in bound

\* A payment that was read for its checkout has an answered command, and
\* keeps it.
ReadIsAnswered ==
  \A r \in Requests :
    request[r].pc = "read" =>
      command[request[r].attempt] = "completed" /\ request[r].attempt \in bound

\* The charges are the succeeded attempts, and a success is announced only
\* of money the provider holds.
ChargesAreSucceeded == charges = {a \in Attempts : attempt[a] = "succeeded"}

AnnouncedIsCaptured ==
  \A e \in events : e.type = "succeeded" => session[e.attempt] = "captured"

\* The invariant that one transaction hands to the next: what the safety
\* properties above need to hold whichever transaction of createPayment,
\* getPayment or handleWebhook runs next.
Consistent ==
  /\ TypeOK
  /\ CommandFollowsAttempt
  /\ ReadIsAnswered
  /\ ChargesAreSucceeded
  /\ AnnouncedIsCaptured
  /\ PaidByOneCharge
  /\ ChargedIsCaptured
  /\ CapturedIsFindable

-----------------------------------------------------------------------------
(* The refinement: what a reader of orders, charges and provider sees.   *)

Phase(status) ==
  CASE status = "absent" -> "absent"
    [] status = "pending_payment" -> "open"
    [] status = "paid" -> "paid"
    [] status = "expired" -> "closed"

Promise == INSTANCE OrderPayment WITH
  phase <- [o \in Orders |-> Phase(order[o])],
  captured <- {a \in Attempts : session[a] = "captured"},
  payers <- [o \in Orders |-> ChargesOf(o)],
  delivered <- goods

\* Every step of the payment service is a step of the abstract order, or
\* leaves it as it is: an order is paid once, from captured money, and a
\* paid or closed order stays so (the transactions of createPayment and
\* handleWebhook together keep the promise of OrderPayment).
KeepsPromise == Promise!Spec
=============================================================================
