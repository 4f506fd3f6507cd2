-------------------------- MODULE PaymentCoreProofs --------------------------
(* What holds of PaymentCore for all orders, attempts and requests.      *)
EXTENDS PaymentCore, TLAPS

(* A request that is not idle works for an attempt that exists.          *)
LEMMA RequestWorks ==
  ASSUME TypeOK, NEW r \in Requests, request[r].pc # "idle"
  PROVE  request[r].attempt \in Attempts /\ request[r] # Idle
BY DEF TypeOK, Idle

(* An event names an attempt, and that attempt an order.                 *)
LEMMA EventWorks ==
  ASSUME NEW e \in Event
  PROVE  /\ e.attempt \in Attempts
         /\ OrderOf[e.attempt] \in Orders
BY OrderOfAssumption DEF Event

(* The empty tables have their types.                                    *)
LEMMA InitTypeOK == Init => TypeOK
BY NoAttemptAssumption DEF Init, TypeOK, Clock, OrderStatus, AttemptStatus, CommandStatus,
   SessionStatus, Idle

(* No transaction, call or event writes a value outside its column.      *)
LEMMA NextTypeOK == TypeOK /\ [Next]_vars => TypeOK'
<1> SUFFICES ASSUME TypeOK, [Next]_vars PROVE TypeOK'
  OBVIOUS
<1> USE DEF TypeOK, orderVars, attemptVars, merchantVars, providerVars,
            effectVars, inboxVars
<1>1. CASE \E o \in Orders : TimePasses(o) \/ CreateOrder(o) \/ ExpirePendingOrders(o)
  BY <1>1 DEF TimePasses, CreateOrder, ExpirePendingOrders, Clock, OrderStatus
<1>2. CASE ChangeAvailability \/ RotateSecret
           \/ \E on \in BOOLEAN : SetConfigStatus(on) \/ TestConfig(on)
  <2>1. CASE ChangeAvailability
    <3>1. available' \in BOOLEAN
      BY <2>1 DEF ChangeAvailability
    <3> QED
      BY <2>1, <3>1 DEF ChangeAvailability
  <2>2. ASSUME NEW on \in BOOLEAN, SetConfigStatus(on) \/ TestConfig(on) PROVE TypeOK'
    <3> DEFINE Config == [active: BOOLEAN, tested: BOOLEAN, version: Nat, secret: Nat]
    <3>1. config.version + 1 \in Nat
      OBVIOUS
    <3>2. \A c \in Config, b \in BOOLEAN, n \in Nat :
            /\ [c EXCEPT !.active = b, !.version = n] \in Config
            /\ [c EXCEPT !.tested = b, !.version = n] \in Config
      OBVIOUS
    <3>3. config' \in Config
      <4>1. CASE SetConfigStatus(on)
        BY <3>1, <3>2, <4>1, Zenon DEF SetConfigStatus
      <4>2. CASE TestConfig(on)
        BY <3>1, <3>2, <4>2, Zenon DEF TestConfig
      <4> QED
        BY <2>2, <4>1, <4>2
    <3> QED
      BY <2>2, <3>3 DEF SetConfigStatus, TestConfig
  <2>3. CASE RotateSecret
    <3>1. config' \in [active: BOOLEAN, tested: BOOLEAN, version: Nat, secret: Nat]
      BY <2>3 DEF RotateSecret
    <3> QED
      BY <2>3, <3>1 DEF RotateSecret
  <2> QED
    BY <1>2, <2>1, <2>2, <2>3
<1>3. ASSUME NEW r \in Requests, CreatePayment(r) PROVE TypeOK'
  <2>1. ASSUME NEW a \in Attempts, PreparePayment(r, a) PROVE TypeOK'
    BY <2>1 DEF PreparePayment, AttemptStatus, CommandStatus
  <2>2. ASSUME NEW a \in Attempts, ResumePayment(r, a) PROVE TypeOK'
    BY <2>2 DEF ResumePayment
  <2>3. CASE ProviderAccepts(r)
    BY <2>3, RequestWorks DEF ProviderAccepts, OpenSession, SessionStatus, Idle
  <2>4. CASE ProviderRefuses(r)
    <3>1. session' \in [Attempts -> SessionStatus]
      BY SMTT(60), <2>4, RequestWorks DEF ProviderRefuses, OpenSession, SessionStatus
    <3>2. request' \in [Requests -> {Idle} \cup
            [pc: {"prepared", "accepted", "refused", "read"}, attempt: Attempts]]
      BY <2>4, RequestWorks DEF ProviderRefuses
    <3> QED
      BY <2>4, <3>1, <3>2 DEF ProviderRefuses
  <2>5. CASE AbandonRequest(r)
    BY <2>5 DEF AbandonRequest
  <2>6. CASE MarkInitializationFailed(r)
    BY <2>6, RequestWorks DEF MarkInitializationFailed, CloseCommand, AttemptStatus, CommandStatus
  <2>7. CASE FinalizeUnavailable(r)
    BY <2>7, RequestWorks DEF FinalizeUnavailable, ExpireIfPast, CloseCommand,
       AttemptStatus, CommandStatus, OrderStatus
  <2>8. CASE FinalizeTooLate(r)
    BY <2>8 DEF FinalizeTooLate
  <2>9. CASE FinalizePending(r)
    BY <2>9, RequestWorks DEF FinalizePending, Bind, CloseCommand, AttemptStatus, CommandStatus
  <2> QED
    BY <1>3, <2>1, <2>2, <2>3, <2>4, <2>5, <2>6, <2>7, <2>8, <2>9 DEF CreatePayment
<1>r. ASSUME NEW r \in Requests, GetPayment(r) PROVE TypeOK'
  <2>1. ASSUME NEW a \in Attempts, ReadPayment(r, a) PROVE TypeOK'
    BY <2>1 DEF ReadPayment
  <2>2. CASE ShowCheckout(r)
    BY <2>2, RequestWorks DEF ShowCheckout
  <2> QED
    BY <1>r, <2>1, <2>2 DEF GetPayment
<1>4. ASSUME NEW a \in Attempts, Provider(a) PROVE TypeOK'
  <2>2. CASE Capture(a) \/ Lapse(a)
    BY <2>2 DEF Capture, Lapse, SessionStatus
  <2>3. ASSUME NEW fit \in Fits, Announce(a, fit) PROVE TypeOK'
    BY <2>3 DEF Announce, Event, EventType
  <2> QED
    BY <1>4, <2>2, <2>3 DEF Provider
<1>5. ASSUME NEW e \in Event, HandleWebhook(e) PROVE TypeOK'
  <2> USE EventWorks DEF Record, Escalate, End
  <2>1. CASE RejectReference(e) \/ AcknowledgePaid(e) \/ RejectTerminal(e)
    BY <2>1 DEF RejectReference, AcknowledgePaid, RejectTerminal
  <2>2. CASE RejectAmount(e) \/ RecordFailure(e)
    BY <2>2 DEF RejectAmount, RecordFailure, AttemptStatus
  <2>3. CASE RejectEarlyExpiry(e) \/ RejectCharge(e)
    BY <2>3 DEF RejectEarlyExpiry, RejectCharge
  <2>4. CASE ClosePastDeadline(e)
    BY <2>4 DEF ClosePastDeadline, AttemptStatus, OrderStatus
  <2>5. CASE RecordSuccess(e)
    BY <2>5 DEF RecordSuccess, Bind, CloseCommand, FulfillOrder, AttemptStatus,
       OrderStatus, CommandStatus
  <2> QED
    BY <1>5, <2>1, <2>2, <2>3, <2>4, <2>5 DEF HandleWebhook
<1>6. CASE UNCHANGED vars
  BY <1>6 DEF vars
<1> QED
  BY <1>1, <1>2, <1>3, <1>r, <1>4, <1>5, <1>6 DEF Next

(* Every row keeps a status its table's check constraint allows, and every   *)
(* request works for an attempt that exists, after any transaction.      *)
THEOREM TypeCorrect == Spec => []TypeOK
BY InitTypeOK, NextTypeOK, PTL DEF Spec

-----------------------------------------------------------------------------
(* The invariant each transaction hands to the next.                     *)

(* Nothing has happened, so everything agrees.                           *)
LEMMA InitConsistent == Init => Consistent
<1> SUFFICES ASSUME Init PROVE Consistent
  OBVIOUS
<1>1. TypeOK
  BY InitTypeOK
<1>2. /\ CommandFollowsAttempt /\ ReadIsAnswered
      /\ ChargesAreSucceeded /\ AnnouncedIsCaptured
  BY DEF Init, Idle, ReadIsAnswered, CommandFollowsAttempt, ChargesAreSucceeded, AnnouncedIsCaptured
<1>3. PaidByOneCharge /\ ChargedIsCaptured /\ CapturedIsFindable
  BY DEF Init, PaidByOneCharge, ChargesOf, ChargedIsCaptured, CapturedIsFindable
<1> QED
  BY <1>1, <1>2, <1>3 DEF Consistent

(* A step that touches none of the rows Consistent relates preserves it. *)
LEMMA QuietStep ==
  ASSUME Consistent, TypeOK', ReadIsAnswered',
         UNCHANGED <<order, attempt, bound, command, session, checkout, events,
                     effectVars>>
  PROVE  Consistent'
BY DEF Consistent, CommandFollowsAttempt, ChargesAreSucceeded,
       AnnouncedIsCaptured, PaidByOneCharge, ChargesOf, ChargedIsCaptured,
       CapturedIsFindable, effectVars

(* A step that may open or close an order that is not paid, and ends no  *)
(* attempt in success, leaves every charge where it is.                  *)
LEMMA NoChargeStep ==
  ASSUME Consistent, TypeOK', ReadIsAnswered', UNCHANGED effectVars,
         CommandFollowsAttempt',
         \A a \in Attempts : attempt[a] = "succeeded" <=> attempt'[a] = "succeeded",
         \A o \in Orders : order[o] = "paid" <=> order'[o] = "paid",
         \A a \in Attempts : session[a] = "captured" => session'[a] = "captured",
         \A e \in events' \ events : e.type = "succeeded" => session'[e.attempt] = "captured",
         Hosted => \A a \in Attempts : session'[a] = "captured" => a \in bound'
  PROVE  Consistent'
<1> USE DEF effectVars
<1>1. ChargesAreSucceeded'
  BY DEF Consistent, ChargesAreSucceeded
<1>2. AnnouncedIsCaptured'
  <2> SUFFICES ASSUME NEW e \in events', e.type = "succeeded"
               PROVE  session'[e.attempt] = "captured"
    BY DEF AnnouncedIsCaptured
  <2>1. e.attempt \in Attempts
    BY DEF TypeOK, Event
  <2> QED
    BY <2>1 DEF Consistent, AnnouncedIsCaptured
<1>3. PaidByOneCharge'
  BY DEF Consistent, PaidByOneCharge, ChargesOf
<1>4. ChargedIsCaptured'
  BY DEF Consistent, ChargedIsCaptured, TypeOK
<1>5. CapturedIsFindable'
  BY DEF CapturedIsFindable
<1> QED
  BY <1>1, <1>2, <1>3, <1>4, <1>5 DEF Consistent

(* The first transaction of createPayment, and orders opened or expired. *)
LEMMA OrderSteps ==
  ASSUME Consistent, TypeOK', ReadIsAnswered',
         \/ \E o \in Orders : CreateOrder(o) \/ ExpirePendingOrders(o)
         \/ \E r \in Requests, a \in Attempts : PreparePayment(r, a)
  PROVE  Consistent'
<1> USE DEF orderVars, attemptVars, merchantVars, providerVars, effectVars, inboxVars
<1>1. ASSUME NEW o \in Orders, CreateOrder(o) \/ ExpirePendingOrders(o) PROVE Consistent'
  <2>1. \A p \in Orders : order[p] = "paid" <=> order'[p] = "paid"
    BY <1>1 DEF CreateOrder, ExpirePendingOrders, Consistent, TypeOK
  <2>2. UNCHANGED <<attempt, bound, command, session, checkout, events, effectVars>>
    BY <1>1 DEF CreateOrder, ExpirePendingOrders
  <2>3. CommandFollowsAttempt'
    BY <2>2 DEF Consistent, CommandFollowsAttempt
  <2> QED
    BY <2>1, <2>2, <2>3, NoChargeStep DEF Consistent, CapturedIsFindable
<1>2. ASSUME NEW r \in Requests, NEW a \in Attempts, PreparePayment(r, a) PROVE Consistent'
  <2>1. CommandFollowsAttempt'
    BY <1>2 DEF PreparePayment, Consistent, CommandFollowsAttempt, TypeOK
  <2>2. \A b \in Attempts : attempt[b] = "succeeded" <=> attempt'[b] = "succeeded"
    BY <1>2 DEF PreparePayment, Consistent, CommandFollowsAttempt, TypeOK
  <2>3. UNCHANGED <<order, bound, session, events, effectVars>>
    BY <1>2 DEF PreparePayment
  <2> QED
    BY <2>1, <2>2, <2>3, NoChargeStep DEF Consistent, CapturedIsFindable
<1> QED
  BY <1>1, <1>2

(* The calls of the provider and the second transaction of createPayment.    *)
LEMMA RequestSteps ==
  ASSUME Consistent, TypeOK', ReadIsAnswered', NEW r \in Requests,
         CreatePayment(r) \/ GetPayment(r)
  PROVE  Consistent'
<1> USE DEF orderVars, attemptVars, merchantVars, providerVars, effectVars, inboxVars
<1>0. TypeOK
  BY DEF Consistent
<1>1. ASSUME NEW a \in Attempts, PreparePayment(r, a) PROVE Consistent'
  BY <1>1, OrderSteps
<1>2. CASE AbandonRequest(r) \/ FinalizeTooLate(r)
           \/ \E a \in Attempts : ResumePayment(r, a)
  BY <1>2, QuietStep DEF AbandonRequest, FinalizeTooLate, ResumePayment
<1>3. CASE ProviderAccepts(r) \/ ProviderRefuses(r)
  <2>1. UNCHANGED <<order, attempt, bound, command, checkout, events, effectVars>>
    BY <1>3 DEF ProviderAccepts, ProviderRefuses
  <2>2. \A a \in Attempts : session[a] = "captured" <=> session'[a] = "captured"
    BY <1>0, <1>3 DEF ProviderAccepts, ProviderRefuses, OpenSession, TypeOK
  <2>3. CommandFollowsAttempt'
    BY <2>1 DEF Consistent, CommandFollowsAttempt
  <2> QED
    BY <2>1, <2>2, <2>3, NoChargeStep DEF Consistent, CapturedIsFindable
<1>4. CASE MarkInitializationFailed(r)
  <2> DEFINE a == request[r].attempt
  <2>1. a \in Attempts
    BY <1>0, <1>4, RequestWorks DEF MarkInitializationFailed
  <2>2. UNCHANGED <<order, bound, session, checkout, events, effectVars>>
    BY <1>4 DEF MarkInitializationFailed
  <2>3. CommandFollowsAttempt'
    BY <1>0, <1>4, <2>1 DEF MarkInitializationFailed, CloseCommand, Consistent,
       CommandFollowsAttempt, TypeOK
  <2>4. \A b \in Attempts : attempt[b] = "succeeded" <=> attempt'[b] = "succeeded"
    BY <1>0, <1>4, <2>1 DEF MarkInitializationFailed, TypeOK
  <2> QED
    BY <2>2, <2>3, <2>4, NoChargeStep DEF Consistent, CapturedIsFindable
<1>5. CASE FinalizeUnavailable(r)
  <2> DEFINE a == request[r].attempt
  <2>1. a \in Attempts
    BY <1>0, <1>5, RequestWorks DEF FinalizeUnavailable
  <2>2. UNCHANGED <<bound, session, checkout, events, effectVars>>
    BY <1>5 DEF FinalizeUnavailable
  <2>3. CommandFollowsAttempt'
    BY <1>0, <1>5, <2>1 DEF FinalizeUnavailable, CloseCommand, Consistent,
       CommandFollowsAttempt, TypeOK
  <2>4. \A b \in Attempts : attempt[b] = "succeeded" <=> attempt'[b] = "succeeded"
    BY <1>0, <1>5, <2>1 DEF FinalizeUnavailable, TypeOK
  <2>5. \A o \in Orders : order[o] = "paid" <=> order'[o] = "paid"
    BY <1>0, <1>5, <2>1, OrderOfAssumption DEF FinalizeUnavailable, ExpireIfPast, TypeOK
  <2> QED
    BY <2>2, <2>3, <2>4, <2>5, NoChargeStep DEF Consistent, CapturedIsFindable
<1>6. CASE FinalizePending(r)
  <2> DEFINE a == request[r].attempt
  <2>1. a \in Attempts
    BY <1>0, <1>6, RequestWorks DEF FinalizePending, Bind
  <2>2. /\ UNCHANGED <<order, session, events, effectVars>>
        /\ bound \subseteq bound'
    BY <1>6 DEF FinalizePending, Bind
  <2>3. CommandFollowsAttempt'
    BY <1>0, <1>6, <2>1 DEF FinalizePending, Bind, CloseCommand, Consistent,
       CommandFollowsAttempt, TypeOK
  <2>4. \A b \in Attempts : attempt[b] = "succeeded" <=> attempt'[b] = "succeeded"
    BY <1>0, <1>6, <2>1 DEF FinalizePending, Bind, TypeOK
  <2> QED
    BY <2>2, <2>3, <2>4, NoChargeStep DEF Consistent, CapturedIsFindable
<1>7. ASSUME NEW a \in Attempts, ReadPayment(r, a) PROVE Consistent'
  BY <1>7, QuietStep DEF ReadPayment
<1>8. CASE ShowCheckout(r)
  <2>1. UNCHANGED <<order, attempt, bound, command, session, events, effectVars>>
    BY <1>8 DEF ShowCheckout
  <2>2. CommandFollowsAttempt'
    BY <1>0, <1>8, RequestWorks DEF ShowCheckout, Consistent, CommandFollowsAttempt,
       ReadIsAnswered
  <2> QED
    BY <2>1, <2>2, NoChargeStep DEF Consistent, CapturedIsFindable
<1> QED
  BY <1>1, <1>2, <1>3, <1>4, <1>5, <1>6, <1>7, <1>8 DEF CreatePayment, GetPayment

(* What happens at the provider.                                         *)
LEMMA ProviderSteps ==
  ASSUME Consistent, TypeOK', ReadIsAnswered', NEW a \in Attempts, Provider(a)
  PROVE  Consistent'
<1> USE DEF orderVars, attemptVars, merchantVars, providerVars, effectVars, inboxVars
<1>0. TypeOK
  BY DEF Consistent
<1>2. CASE Capture(a) \/ Lapse(a)
  <2>1. UNCHANGED <<order, attempt, bound, command, checkout, events, effectVars>>
    BY <1>2 DEF Capture, Lapse
  <2>2. CommandFollowsAttempt'
    BY <2>1 DEF Consistent, CommandFollowsAttempt
  <2>3. \A b \in Attempts : session[b] = "captured" => session'[b] = "captured"
    BY <1>0, <1>2 DEF Capture, Lapse, TypeOK
  <2>4. Hosted => \A b \in Attempts : session'[b] = "captured" => b \in bound'
    BY <1>0, <1>2 DEF Capture, Lapse, TypeOK, Consistent, CapturedIsFindable,
       CommandFollowsAttempt
  <2> QED
    BY <2>1, <2>2, <2>3, <2>4, NoChargeStep
<1>3. ASSUME NEW fit \in Fits, Announce(a, fit) PROVE Consistent'
  <2>1. UNCHANGED <<order, attempt, bound, command, checkout, session, effectVars>>
    BY <1>3 DEF Announce
  <2>2. CommandFollowsAttempt'
    BY <2>1 DEF Consistent, CommandFollowsAttempt
  <2>3. \A e \in events' \ events : e.type = "succeeded" => session'[e.attempt] = "captured"
    BY <1>3 DEF Announce, EventType
  <2> QED
    BY <2>1, <2>2, <2>3, NoChargeStep DEF Consistent, CapturedIsFindable
<1> QED
  BY <1>2, <1>3 DEF Provider

(* The webhook: only RecordSuccess moves money, and only for an order that   *)
(* no charge has paid.                                                   *)
LEMMA WebhookSteps ==
  ASSUME Consistent, TypeOK', ReadIsAnswered', NEW e \in Event, HandleWebhook(e)
  PROVE  Consistent'
<1> USE DEF orderVars, attemptVars, merchantVars, providerVars, effectVars, inboxVars
<1> DEFINE a == e.attempt
<1>0. TypeOK /\ a \in Attempts /\ OrderOf[a] \in Orders
  BY EventWorks DEF Consistent
<1>1. CASE RejectReference(e) \/ AcknowledgePaid(e) \/ RejectTerminal(e)
           \/ RejectEarlyExpiry(e) \/ RejectCharge(e)
  BY <1>1, QuietStep DEF RejectReference, AcknowledgePaid, RejectTerminal,
     RejectEarlyExpiry, RejectCharge
<1>2. CASE RejectAmount(e) \/ RecordFailure(e) \/ ClosePastDeadline(e)
  <2> USE DEF RejectAmount, RecordFailure, ClosePastDeadline, Chargeable, Payable, End
  <2>1. UNCHANGED <<bound, command, session, checkout, events, effectVars>>
    BY <1>2
  <2>2. CommandFollowsAttempt'
    BY <1>0, <1>2 DEF Consistent, CommandFollowsAttempt, TypeOK
  <2>3. \A b \in Attempts : attempt[b] = "succeeded" <=> attempt'[b] = "succeeded"
    BY <1>0, <1>2 DEF TypeOK
  <2>4. \A o \in Orders : order[o] = "paid" <=> order'[o] = "paid"
    BY <1>0, <1>2 DEF TypeOK
  <2> QED
    BY <2>1, <2>2, <2>3, <2>4, NoChargeStep DEF Consistent, CapturedIsFindable
<1>3. CASE RecordSuccess(e)
  <2> USE <1>0, <1>3 DEF RecordSuccess, Bind, Chargeable, Payable, Fresh, End, FulfillOrder
  <2>1. session[a] = "captured"
    BY DEF Consistent, AnnouncedIsCaptured
  <2>2. order[OrderOf[a]] = "pending_payment" /\ ChargesOf(OrderOf[a]) = {}
    BY DEF Consistent, PaidByOneCharge
  <2>3. CommandFollowsAttempt'
    BY DEF CloseCommand, Consistent, CommandFollowsAttempt, TypeOK
  <2>4. ChargesAreSucceeded'
    BY DEF Consistent, ChargesAreSucceeded, TypeOK
  <2>5. AnnouncedIsCaptured' /\ ChargedIsCaptured' /\ CapturedIsFindable'
    BY <2>1 DEF Consistent, AnnouncedIsCaptured, ChargedIsCaptured, CapturedIsFindable
  <2>6. PaidByOneCharge'
    <3>0. published' = charges' /\ payables' = charges' \cap PlatformCollect
      BY DEF Consistent, PaidByOneCharge
    <3> SUFFICES ASSUME NEW o \in Orders
                 PROVE  /\ goods'[o] = ChargesOf(o)'
                        /\ order'[o] = "paid" <=> ChargesOf(o)' # {}
                        /\ \A b, c \in ChargesOf(o)' : b = c
      BY <3>0 DEF PaidByOneCharge
    <3>1. ChargesOf(o)' = IF o = OrderOf[a] THEN {a} ELSE ChargesOf(o)
      BY <2>2 DEF ChargesOf
    <3>2. CASE o = OrderOf[a]
      <4>1. ChargesOf(o)' = {a} /\ goods[o] = {}
        BY <2>2, <3>1, <3>2 DEF Consistent, PaidByOneCharge
      <4>2. goods'[o] = {a} /\ order'[o] = "paid"
        BY <3>2, <4>1 DEF TypeOK
      <4> QED
        BY <4>1, <4>2
    <3>3. CASE o # OrderOf[a]
      BY <3>1, <3>3 DEF Consistent, PaidByOneCharge, TypeOK
    <3> QED
      BY <3>2, <3>3
  <2> QED
    BY <2>3, <2>4, <2>5, <2>6 DEF Consistent
<1> QED
  BY <1>1, <1>2, <1>3 DEF HandleWebhook

(* An answered command and a recorded payment id stay so, and a payment that *)
(* is read is pending then.                                              *)
LEMMA NextReadIsAnswered ==
  TypeOK /\ CommandFollowsAttempt /\ ReadIsAnswered /\ [Next]_vars => ReadIsAnswered'
<1> SUFFICES ASSUME TypeOK, CommandFollowsAttempt, ReadIsAnswered, [Next]_vars
             PROVE  ReadIsAnswered'
  OBVIOUS
<1> USE DEF orderVars, attemptVars, merchantVars, providerVars, effectVars, inboxVars
<1>q. ASSUME UNCHANGED <<request, command, bound>> PROVE ReadIsAnswered'
  BY <1>q DEF ReadIsAnswered
<1>1. ASSUME NEW o \in Orders, TimePasses(o) \/ CreateOrder(o) \/ ExpirePendingOrders(o)
      PROVE  ReadIsAnswered'
  BY <1>q, <1>1 DEF TimePasses, CreateOrder, ExpirePendingOrders
<1>2. CASE ChangeAvailability \/ RotateSecret
           \/ \E on \in BOOLEAN : SetConfigStatus(on) \/ TestConfig(on)
  BY <1>q, <1>2 DEF ChangeAvailability, SetConfigStatus, TestConfig, RotateSecret
<1>3. ASSUME NEW r \in Requests, CreatePayment(r) \/ GetPayment(r) PROVE ReadIsAnswered'
  <2> SUFFICES ASSUME NEW q \in Requests, request'[q].pc = "read"
               PROVE  /\ command'[request'[q].attempt] = "completed"
                      /\ request'[q].attempt \in bound'
    BY DEF ReadIsAnswered
  <2>1. /\ bound \subseteq bound'
        /\ \A a \in Attempts : command[a] = "completed" => command'[a] = "completed"
    BY <1>3, RequestWorks DEF CreatePayment, PreparePayment, ResumePayment, ProviderAccepts,
       ProviderRefuses, AbandonRequest, MarkInitializationFailed, FinalizeUnavailable,
       FinalizeTooLate, FinalizePending, Bind, CloseCommand, GetPayment, ReadPayment,
       ShowCheckout, TypeOK
  <2>2. CASE request'[q] = request[q]
    BY <2>1, <2>2, RequestWorks DEF ReadIsAnswered
  <2>3. CASE request'[q] # request[q]
    <3>1. q = r
      BY <1>3, <2>3 DEF CreatePayment, PreparePayment, ResumePayment, ProviderAccepts,
         ProviderRefuses, AbandonRequest, MarkInitializationFailed, FinalizeUnavailable,
         FinalizeTooLate, FinalizePending, GetPayment, ReadPayment, ShowCheckout, TypeOK
    <3>2. ~CreatePayment(r)
      BY <3>1 DEF CreatePayment, PreparePayment, ResumePayment, ProviderAccepts,
         ProviderRefuses, AbandonRequest, MarkInitializationFailed, FinalizeUnavailable,
         FinalizeTooLate, FinalizePending, Idle, TypeOK
    <3>3. ~ShowCheckout(r)
      BY <3>1 DEF ShowCheckout, Idle, TypeOK
    <3>4. PICK a \in Attempts : ReadPayment(r, a)
      BY <1>3, <3>2, <3>3 DEF GetPayment
    <3> QED
      BY <3>1, <3>4 DEF ReadPayment, CommandFollowsAttempt, TypeOK
  <2> QED
    BY <2>2, <2>3
<1>4. ASSUME NEW a \in Attempts, Provider(a) PROVE ReadIsAnswered'
  BY <1>q, <1>4 DEF Provider, Capture, Lapse, Announce
<1>5. ASSUME NEW e \in Event, HandleWebhook(e) PROVE ReadIsAnswered'
  <2>1. CASE RecordSuccess(e)
    BY <2>1, RequestWorks DEF RecordSuccess, Bind, CloseCommand, ReadIsAnswered, TypeOK
  <2>2. CASE ~RecordSuccess(e)
    BY <1>q, <1>5, <2>2 DEF HandleWebhook, RejectReference, AcknowledgePaid, RejectTerminal,
       RejectAmount, RejectEarlyExpiry, ClosePastDeadline, RejectCharge, RecordFailure
  <2> QED
    BY <2>1, <2>2
<1>6. CASE UNCHANGED vars
  BY <1>q, <1>6 DEF vars
<1> QED
  BY <1>1, <1>2, <1>3, <1>4, <1>5, <1>6 DEF Next

(* The invariant survives whatever transaction, call or event comes next.    *)
LEMMA NextConsistent == Consistent /\ [Next]_vars => Consistent'
<1> SUFFICES ASSUME Consistent, [Next]_vars PROVE Consistent'
  OBVIOUS
<1>0. TypeOK' /\ ReadIsAnswered'
  BY NextTypeOK, NextReadIsAnswered DEF Consistent
<1> USE DEF orderVars, attemptVars, merchantVars, providerVars, effectVars, inboxVars
<1>1. ASSUME NEW o \in Orders, TimePasses(o) PROVE Consistent'
  BY <1>0, <1>1, QuietStep DEF TimePasses
<1>2. CASE ChangeAvailability \/ RotateSecret
           \/ \E on \in BOOLEAN : SetConfigStatus(on) \/ TestConfig(on)
  BY <1>0, <1>2, QuietStep DEF ChangeAvailability, SetConfigStatus, TestConfig, RotateSecret
<1>3. ASSUME NEW o \in Orders, CreateOrder(o) \/ ExpirePendingOrders(o) PROVE Consistent'
  BY <1>0, <1>3, OrderSteps
<1>4. CASE UNCHANGED vars
  BY <1>0, <1>4, QuietStep DEF vars
<1> QED
  BY <1>0, <1>1, <1>2, <1>3, <1>4, RequestSteps, ProviderSteps, WebhookSteps DEF Next

(* Whatever transaction runs next finds orders, attempts, commands, charges  *)
(* and sessions in agreement.                                            *)
THEOREM AlwaysConsistent == Spec => []Consistent
BY InitConsistent, NextConsistent, PTL DEF Spec

(* An order is paid by exactly one charge, and its goods, receivable and *)
(* PaymentSucceeded stem from it, for any number of attempts and requests.   *)
THEOREM PaidOnce == Spec => []PaidByOneCharge
<1>1. Consistent => PaidByOneCharge
  BY DEF Consistent
<1> QED
  BY <1>1, AlwaysConsistent, PTL

(* No key that answered an error shows its checkout, and the webhook of    *)
(* what was captured finds its attempt.                                  *)
THEOREM CheckoutsAwaited == Spec => []CheckoutsAreAwaited
<1>1. Consistent => CheckoutsAreAwaited
  BY DEF Consistent, CommandFollowsAttempt, FailedKeyShowsNoCheckout, CheckoutsAreAwaited
<1> QED
  BY <1>1, AlwaysConsistent, PTL

-----------------------------------------------------------------------------
(* What a step may not do, and the abstract order it implements.         *)

(* A success event is rejected without escalation in the two branches named. *)
LEMMA DropStep ==
  ASSUME Consistent, [Next]_vars, NEW e \in Event,
         e.type = "succeeded", inbox[e] = "none", inbox'[e] = "rejected",
         e \notin escalated'
  PROVE  \/ e.fit = "amount" /\ attempt'[e.attempt] = "failed"
         \/ /\ order[OrderOf[e.attempt]] = "pending_payment"
            /\ order'[OrderOf[e.attempt]] = "expired"
<1> USE EventWorks DEF orderVars, attemptVars, merchantVars, providerVars, effectVars, inboxVars
<1>0. TypeOK
  BY DEF Consistent
<1>1. UNCHANGED inbox => FALSE
  OBVIOUS
<1>2. PICK d \in Event : HandleWebhook(d)
  <2>1. ASSUME NEW o \in Orders, TimePasses(o) \/ CreateOrder(o) \/ ExpirePendingOrders(o)
        PROVE  FALSE
    BY <1>1, <2>1 DEF TimePasses, CreateOrder, ExpirePendingOrders
  <2>2. CASE ChangeAvailability \/ RotateSecret
           \/ \E on \in BOOLEAN : SetConfigStatus(on) \/ TestConfig(on)
    BY <1>1, <2>2 DEF ChangeAvailability, SetConfigStatus, TestConfig, RotateSecret
  <2>3. ASSUME NEW r \in Requests, CreatePayment(r) \/ GetPayment(r) PROVE FALSE
    BY <1>1, <2>3 DEF CreatePayment, GetPayment, ReadPayment, ShowCheckout, PreparePayment, ResumePayment, ProviderAccepts,
       ProviderRefuses, AbandonRequest, MarkInitializationFailed, FinalizeUnavailable,
       FinalizeTooLate, FinalizePending
  <2>4. ASSUME NEW a \in Attempts, Provider(a) PROVE FALSE
    BY <1>1, <2>4 DEF Provider, Capture, Lapse, Announce
  <2>5. CASE UNCHANGED vars
    BY <1>1, <2>5 DEF vars
  <2> QED
    BY <2>1, <2>2, <2>3, <2>4, <2>5 DEF Next
<1>3. d = e
  BY <1>0, <1>2 DEF HandleWebhook, RejectReference, AcknowledgePaid, RejectTerminal,
     RejectAmount, RejectEarlyExpiry, ClosePastDeadline, RejectCharge, RecordFailure,
     RecordSuccess, Record, TypeOK
<1>4. RejectAmount(e) \/ ClosePastDeadline(e)
  BY <1>0, <1>2, <1>3 DEF HandleWebhook, RejectReference, AcknowledgePaid, RejectTerminal,
     RejectEarlyExpiry, RejectCharge, RecordFailure, RecordSuccess, Record, Escalate, TypeOK
<1>5. CASE RejectAmount(e)
  BY <1>0, <1>5 DEF RejectAmount, End, TypeOK
<1>6. CASE ClosePastDeadline(e)
  BY <1>0, <1>6 DEF ClosePastDeadline, Payable, TypeOK
<1> QED
  BY <1>4, <1>5, <1>6

(* A success event is dropped without escalation only for a wrong amount or  *)
(* when it is itself the one that closes the overdue order.              *)
THEOREM OnlyTwoSilentDrops == Spec => SilentDropsAreTwo
<1>1. Consistent /\ [Next]_vars =>
        [\A e \in Event :
           /\ e.type = "succeeded"
           /\ inbox[e] = "none"
           /\ inbox'[e] = "rejected"
           /\ e \notin escalated'
           => \/ e.fit = "amount" /\ attempt'[e.attempt] = "failed"
              \/ /\ order[OrderOf[e.attempt]] = "pending_payment"
                 /\ order'[OrderOf[e.attempt]] = "expired"]_vars
  BY DropStep
<1> QED
  BY <1>1, AlwaysConsistent, PTL DEF Spec, SilentDropsAreTwo

(* The empty tables are the abstract order that nobody created.          *)
LEMMA InitPromise == Init => Promise!Init
BY DEF Init, Promise!Init, Phase, ChargesOf

\* The state the abstract order sees.
Seen == <<order, session, charges, goods>>

(* A step that changes nothing the abstract order sees is a stutter of it.   *)
LEMMA UnseenStep == UNCHANGED Seen => UNCHANGED Promise!promiseVars
BY DEF Seen, Promise!promiseVars, ChargesOf

(* Each transaction, call and event is one abstract step, or a stutter.  *)
LEMMA PromiseStep ==
  Consistent /\ [Next]_vars => [Promise!Next]_Promise!promiseVars
<1> SUFFICES ASSUME Consistent, [Next]_vars PROVE [Promise!Next]_Promise!promiseVars
  OBVIOUS
<1> USE EventWorks, OrderOfAssumption
    DEF Seen, orderVars, attemptVars, merchantVars, providerVars, effectVars, inboxVars
<1> DEFINE phase == [o \in Orders |-> Phase(order[o])]
           captured == {a \in Attempts : session[a] = "captured"}
           payers == [o \in Orders |-> ChargesOf(o)]
<1>0. TypeOK
  BY DEF Consistent
<1>p. ASSUME NEW o \in Orders, NEW v, order' = [order EXCEPT ![o] = v]
      PROVE  phase' = [phase EXCEPT ![o] = Phase(v)]
  BY <1>p, <1>0 DEF TypeOK
<1>q. UNCHANGED charges => UNCHANGED payers
  BY DEF ChargesOf
<1>1. ASSUME NEW o \in Orders, CreateOrder(o) PROVE Promise!Open(o)
  <2>1. phase[o] = "absent"
    BY <1>1 DEF CreateOrder, Phase
  <2>2. phase' = [phase EXCEPT ![o] = "open"]
    BY <1>1, <1>p DEF CreateOrder, Phase
  <2>3. UNCHANGED <<captured, payers, goods>>
    BY <1>1, <1>q DEF CreateOrder
  <2> QED
    BY <2>1, <2>2, <2>3 DEF Promise!Open
<1>2. ASSUME NEW o \in Orders, order[o] = "pending_payment",
             order' = [order EXCEPT ![o] = "expired"],
             UNCHANGED <<charges, goods>>,
             \A a \in Attempts : session[a] = "captured" <=> session'[a] = "captured"
      PROVE  Promise!Close(o)
  <2>1. phase[o] = "open"
    BY <1>2 DEF Phase
  <2>2. phase' = [phase EXCEPT ![o] = "closed"]
    BY <1>2, <1>p DEF Phase
  <2>3. UNCHANGED <<captured, payers, goods>>
    BY <1>2, <1>q
  <2> QED
    BY <2>1, <2>2, <2>3 DEF Promise!Close
<1>3. ASSUME NEW a \in Attempts, Capture(a) PROVE Promise!Capture(a)
  <2>1. captured' = captured \cup {a}
    BY <1>0, <1>3 DEF Capture, TypeOK
  <2>2. UNCHANGED <<phase, payers, goods>>
    BY <1>3, <1>q DEF Capture
  <2> QED
    BY <2>1, <2>2 DEF Promise!Capture
<1>4. ASSUME NEW e \in Event, RecordSuccess(e) PROVE Promise!Pay(e.attempt)
  <2> DEFINE a == e.attempt
             p == OrderOf[a]
  <2> USE <1>0, <1>4 DEF RecordSuccess, Chargeable, Payable, Fresh, FulfillOrder
  <2>1. phase[p] = "open" /\ a \in captured
    BY DEF Phase, Consistent, AnnouncedIsCaptured
  <2>2. phase' = [phase EXCEPT ![p] = "paid"]
    BY <1>p DEF Phase
  <2>3. goods[p] = {} /\ ChargesOf(p) = {}
    BY DEF Consistent, PaidByOneCharge
  <2>4. goods' = [goods EXCEPT ![p] = {a}]
    BY <2>3 DEF TypeOK
  <2>5. payers' = [payers EXCEPT ![p] = {a}]
    <3>1. \A q \in Orders : ChargesOf(q)' = IF q = p THEN {a} ELSE ChargesOf(q)
      BY <2>3 DEF ChargesOf
    <3> QED
      BY <3>1
  <2>6. UNCHANGED captured
    OBVIOUS
  <2> QED
    BY ONLY <2>1, <2>2, <2>4, <2>5, <2>6 DEF Promise!Pay
<1>5. ASSUME NEW r \in Requests, CreatePayment(r)
      PROVE  [Promise!Next]_Promise!promiseVars
  <2>1. CASE FinalizeUnavailable(r)
    <3> DEFINE p == OrderOf[request[r].attempt]
    <3>1. p \in Orders
      BY <1>0, <2>1, RequestWorks DEF FinalizeUnavailable
    <3>2. UNCHANGED <<charges, goods, session>>
      BY <2>1 DEF FinalizeUnavailable
    <3>3. CASE order[p] = "pending_payment" /\ clock[p] = "past"
      BY <1>2, <2>1, <3>1, <3>2, <3>3 DEF FinalizeUnavailable, ExpireIfPast, Promise!Next
    <3>4. CASE ~(order[p] = "pending_payment" /\ clock[p] = "past")
      BY <2>1, <3>2, <3>4, UnseenStep DEF FinalizeUnavailable, ExpireIfPast
    <3> QED
      BY <3>3, <3>4
  <2>2. CASE ProviderAccepts(r) \/ ProviderRefuses(r)
    <3>1. UNCHANGED <<order, charges, goods>>
      BY <2>2 DEF ProviderAccepts, ProviderRefuses
    <3>2. captured' = captured
      BY <1>0, <2>2 DEF ProviderAccepts, ProviderRefuses, OpenSession, TypeOK
    <3> QED
      BY <3>1, <3>2 DEF Promise!promiseVars, ChargesOf
  <2>3. CASE \E a \in Attempts : PreparePayment(r, a) \/ ResumePayment(r, a)
    BY <2>3, UnseenStep DEF PreparePayment, ResumePayment
  <2>4. CASE \/ AbandonRequest(r) \/ MarkInitializationFailed(r)
             \/ FinalizeTooLate(r) \/ FinalizePending(r)
    BY <2>4, UnseenStep DEF AbandonRequest, MarkInitializationFailed,
       FinalizeTooLate, FinalizePending
  <2> QED
    BY <1>5, <2>1, <2>2, <2>3, <2>4 DEF CreatePayment
<1>r. ASSUME NEW r \in Requests, GetPayment(r) PROVE [Promise!Next]_Promise!promiseVars
  BY <1>r, UnseenStep DEF GetPayment, ReadPayment, ShowCheckout
<1>6. ASSUME NEW a \in Attempts, Provider(a)
      PROVE  [Promise!Next]_Promise!promiseVars
  <2>1. CASE \E fit \in Fits : Announce(a, fit)
    BY <2>1, UnseenStep DEF Announce
  <2>2. CASE Lapse(a)
    <3>1. UNCHANGED <<order, charges, goods>>
      BY <2>2 DEF Lapse
    <3>2. captured' = captured
      BY <1>0, <2>2 DEF Lapse, TypeOK
    <3> QED
      BY <3>1, <3>2 DEF Promise!promiseVars, ChargesOf
  <2> QED
    BY <1>3, <1>6, <2>1, <2>2 DEF Provider, Promise!Next
<1>7. ASSUME NEW e \in Event, HandleWebhook(e)
      PROVE  [Promise!Next]_Promise!promiseVars
  <2>1. CASE ClosePastDeadline(e)
    <3>1. Promise!Close(OrderOf[e.attempt])
      BY <1>2, <2>1 DEF ClosePastDeadline, Payable
    <3> QED
      BY <3>1 DEF Promise!Next
  <2>2. CASE RecordSuccess(e)
    BY <1>4, <2>2 DEF Promise!Next
  <2>3. CASE \/ RejectReference(e) \/ AcknowledgePaid(e) \/ RejectTerminal(e)
             \/ RejectAmount(e) \/ RejectEarlyExpiry(e) \/ RejectCharge(e)
             \/ RecordFailure(e)
    BY <2>3, UnseenStep DEF RejectReference, AcknowledgePaid, RejectTerminal,
       RejectAmount, RejectEarlyExpiry, RejectCharge, RecordFailure
  <2> QED
    BY <1>7, <2>1, <2>2, <2>3 DEF HandleWebhook
<1>8. ASSUME NEW o \in Orders, ExpirePendingOrders(o) PROVE Promise!Close(o)
  BY <1>2, <1>8 DEF ExpirePendingOrders
<1>9. CASE \/ ChangeAvailability \/ RotateSecret
           \/ \E on \in BOOLEAN : SetConfigStatus(on) \/ TestConfig(on)
           \/ \E o \in Orders : TimePasses(o)
  BY <1>9, UnseenStep DEF ChangeAvailability, SetConfigStatus, TestConfig, RotateSecret, TimePasses
<1>10. CASE UNCHANGED vars
  BY <1>10, UnseenStep DEF vars
<1> QED
  BY <1>1, <1>5, <1>r, <1>6, <1>7, <1>8, <1>9, <1>10 DEF Next, Promise!Next

(* Every step of the payment service is a step of the abstract order or  *)
(* leaves it as it is.                                                   *)
THEOREM ImplementsOrderPayment == Spec => KeepsPromise
BY InitPromise, PromiseStep, AlwaysConsistent, PTL DEF Spec, KeepsPromise, Promise!Spec
=============================================================================
