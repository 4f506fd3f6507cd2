---------------------------- MODULE PaymentRouting ----------------------------
(*************************************************************************)
(* How customers of a merchant come to pay to an account: the payment    *)
(* configurations of the platform and of the merchants, their            *)
(* credentials, and each merchant's route to one of them.                *)
(*                                                                       *)
(* Credentials are rotated, tested and enabled by different people.  A   *)
(* test is a first transaction, a call to the provider and a second      *)
(* transaction, and the credentials may be rotated meanwhile.  Replaced  *)
(* credentials still verify webhooks for thirty days.  PaymentCore has   *)
(* one configuration and follows the payment; here a payment is the      *)
(* moment at which createPayment picks configuration and credentials.    *)
(* Merchants are those that are active.                                  *)
(*************************************************************************)
EXTENDS Integers, FiniteSets

CONSTANTS
  Shops,             (* Merchants that are active.                           *)
  Headquarters,      (* The platform, the other owner of configurations.     *)
  PayConfigs,        (* Payment configurations.                              *)
  PayOwner,          (* Who owns each of them.                               *)
  StripeConfigs,     (* Those of Stripe; the others are the fake adapter's.  *)
  Testers,           (* Requests that test credentials.                      *)
  Payments,          (* Attempts to pay.                                     *)
  MaxSecrets,        (* Credentials a configuration may have, 5 in the code. *)
  MaxPayVersion,     (* Bound on the changes of a configuration.             *)
  NoTest, NoRoute, NoPayment

ASSUME OwnersAssumption ==
  /\ Headquarters \notin Shops
  /\ PayOwner \in [PayConfigs -> Shops \cup {Headquarters}]
ASSUME StripeAssumption == StripeConfigs \subseteq PayConfigs
ASSUME SecretsAssumption == MaxSecrets \in Nat \ {0} /\ MaxPayVersion \in Nat

VARIABLES
  payConfig,  (* payment_configs: made, active, last test, version, secret.     *)
  lapsed,     (* Replaced credentials past verify_webhooks_until.               *)
  taken,      (* Credentials with which the provider once answered a test well. *)
  testing,    (* The running tests: what they read, and the provider's answer.  *)
  route,      (* tenant_payment_routing of each merchant.                       *)
  payment     (* What each payment recorded of its configuration.               *)

routingVars == <<payConfig, lapsed, taken, testing, route, payment>>

Secrets     == PayConfigs \X Nat
CollectMode == {"platform_collect", "tenant_direct"}
TestStatus  == {"none", "untested", "passed", "failed"}

PayConfigRow == [made: BOOLEAN, active: BOOLEAN, test: TestStatus, tested: Nat,
                 version: Nat, secret: Nat]
TestRow    == [step: {"calling", "answered"}, config: StripeConfigs, version: Nat,
               secret: Nat, passed: BOOLEAN]
RouteRow   == [mode: CollectMode, config: PayConfigs]
PaymentRow == [shop: Shops, mode: CollectMode, config: PayConfigs, secret: Nat]

RoutingTypeOK ==
  /\ payConfig \in [PayConfigs -> PayConfigRow]
  /\ lapsed \subseteq Secrets
  /\ taken \subseteq Secrets
  /\ testing \in [Testers -> TestRow \cup {NoTest}]
  /\ route \in [Shops -> RouteRow \cup {NoRoute}]
  /\ payment \in [Payments -> PaymentRow \cup {NoPayment}]

RoutingInit ==
  /\ payConfig = [c \in PayConfigs |-> [made |-> FALSE, active |-> FALSE, test |-> "none",
                                        tested |-> 0, version |-> 0, secret |-> 0]]
  /\ lapsed = {}
  /\ taken = {}
  /\ testing = [t \in Testers |-> NoTest]
  /\ route = [m \in Shops |-> NoRoute]
  /\ payment = [p \in Payments |-> NoPayment]

-----------------------------------------------------------------------------
(* Configurations.                                                       *)

\* The credentials 1 .. secret of a configuration are never deleted, and nothing
\* ever marks one retired: the last is active, the others are in grace.
LiveSecrets(c) == { v \in 1 .. payConfig[c].secret : <<c, v>> \notin lapsed }

CreateStripeConfig(c) ==
  /\ c \in StripeConfigs
  /\ ~payConfig[c].made
  /\ payConfig' = [payConfig EXCEPT ![c] = [made |-> TRUE, active |-> FALSE, test |-> "untested",
                                            tested |-> 0, version |-> 0, secret |-> 1]]
  /\ UNCHANGED <<lapsed, taken, testing, route, payment>>

\* The fake adapter's configurations are active at once, and nobody disables them.
\* Its provider is registered with the first one of the platform.
CreateFakeConfig(c) ==
  /\ c \notin StripeConfigs
  /\ ~payConfig[c].made
  /\ \/ PayOwner[c] = Headquarters
     \/ \E f \in PayConfigs \ StripeConfigs : PayOwner[f] = Headquarters /\ payConfig[f].made
  /\ payConfig' = [payConfig EXCEPT ![c].made = TRUE, ![c].active = TRUE]
  /\ UNCHANGED <<lapsed, taken, testing, route, payment>>

StripeRow(c) == c \in StripeConfigs /\ payConfig[c].made /\ payConfig[c].version < MaxPayVersion

\* The service counts credentials that still verify, the trigger all that are not
\* retired, which none ever is.
RoomForSecret(c) ==
  /\ Cardinality(LiveSecrets(c)) < MaxSecrets
  /\ payConfig[c].secret < MaxSecrets

\* Other credentials of the same account: the configuration is disabled until they
\* are tested, and the old ones are in grace.
RotateCredentials(c) ==
  /\ StripeRow(c)
  /\ RoomForSecret(c)
  /\ payConfig' = [payConfig EXCEPT ![c] =
       [@ EXCEPT !.active = FALSE, !.test = "untested", !.tested = 0,
                 !.version = payConfig[c].version + 1, !.secret = payConfig[c].secret + 1]]
  /\ UNCHANGED <<lapsed, taken, testing, route, payment>>

\* verify_webhooks_until passes.
GraceEnds(c, v) ==
  /\ v \in LiveSecrets(c)
  /\ v < payConfig[c].secret
  /\ lapsed' = lapsed \cup {<<c, v>>}
  /\ UNCHANGED <<payConfig, taken, testing, route, payment>>

\* enforce_payment_config_provider_state, deferred.
ProviderStateHolds(row) == row.active => row.test = "passed" /\ row.tested = row.secret

SetConfigEnabled(c, enabled) ==
  LET row == [payConfig[c] EXCEPT !.active = enabled, !.version = @ + 1] IN
  /\ StripeRow(c)
  /\ enabled => payConfig[c].test = "passed"
  /\ ProviderStateHolds(row)
  /\ payConfig' = [payConfig EXCEPT ![c] = row]
  /\ UNCHANGED <<lapsed, taken, testing, route, payment>>

-----------------------------------------------------------------------------
(* A test of the credentials.                                            *)

\* The first transaction reads the configuration and its active credentials ...
BeginTest(t, c) ==
  /\ testing[t] = NoTest
  /\ StripeRow(c)
  /\ testing' = [testing EXCEPT ![t] = [step |-> "calling", config |-> c, passed |-> FALSE,
       version |-> payConfig[c].version, secret |-> payConfig[c].secret]]
  /\ UNCHANGED <<payConfig, lapsed, taken, route, payment>>

\* ... the provider answers ...
AnswerTest(t, passed) ==
  /\ testing[t] # NoTest
  /\ testing[t].step = "calling"
  /\ testing' = [testing EXCEPT ![t].step = "answered", ![t].passed = passed]
  /\ taken' = IF passed THEN taken \cup {<<testing[t].config, testing[t].secret>>} ELSE taken
  /\ UNCHANGED <<payConfig, lapsed, route, payment>>

\* Mutant: the result is stored as that of the credentials now active.
RecordOfCurrent(t) ==
  LET c == testing[t].config IN
  /\ testing[t] # NoTest
  /\ testing[t].step = "answered"
  /\ StripeRow(c)
  /\ payConfig' = [payConfig EXCEPT
       ![c].test = IF testing[t].passed THEN "passed" ELSE "failed",
       ![c].tested = payConfig[c].secret, ![c].version = @ + 1]
  /\ testing' = [testing EXCEPT ![t] = NoTest]
  /\ UNCHANGED <<lapsed, taken, route, payment>>

\* ... and the result is stored if the configuration is still the one that was
\* read.  The trigger refuses that an active one has failed: the result is lost.
RecordTest(t) ==
  LET test == testing[t]
      c    == test.config
      row  == [payConfig[c] EXCEPT !.test = IF test.passed THEN "passed" ELSE "failed",
                                   !.tested = test.secret, !.version = @ + 1]
  IN
  /\ test # NoTest
  /\ test.step = "answered"
  /\ payConfig[c].version = test.version
  /\ payConfig[c].secret = test.secret
  /\ StripeRow(c)
  /\ ProviderStateHolds(row)
  /\ payConfig' = [payConfig EXCEPT ![c] = row]
  /\ testing' = [testing EXCEPT ![t] = NoTest]
  /\ UNCHANGED <<lapsed, taken, route, payment>>

\* The configuration has changed, the trigger refused, or the process stopped.
EndTest(t) ==
  /\ testing[t] # NoTest
  /\ testing' = [testing EXCEPT ![t] = NoTest]
  /\ UNCHANGED <<payConfig, lapsed, taken, route, payment>>

-----------------------------------------------------------------------------
(* Routes and payments.                                                  *)

\* enforce_payment_routing_scope, and the same check in the service: the platform
\* collects with its configurations, a merchant with its own.
RouteFits(m, mode, c) ==
  /\ payConfig[c].made
  /\ payConfig[c].active
  /\ IF mode = "platform_collect" THEN PayOwner[c] = Headquarters ELSE PayOwner[c] = m

SetTenantRouting(m, mode, c) ==
  /\ RouteFits(m, mode, c)
  /\ route' = [route EXCEPT ![m] = [mode |-> mode, config |-> c]]
  /\ UNCHANGED <<payConfig, lapsed, taken, testing, payment>>

\* createPayment locks route and configuration in share mode and records the
\* active credentials with the attempt.
PickConfiguration(p, m) ==
  /\ payment[p] = NoPayment
  /\ route[m] # NoRoute
  /\ payConfig[route[m].config].active
  /\ payment' = [payment EXCEPT ![p] =
       [shop |-> m, mode |-> route[m].mode, config |-> route[m].config,
        secret |-> payConfig[route[m].config].secret]]
  /\ UNCHANGED <<payConfig, lapsed, taken, testing, route>>

\* handleWebhook tries the active credentials and those in grace, latest first, and
\* no more than so many.
Verifying(c) ==
  { v \in LiveSecrets(c) : Cardinality({w \in LiveSecrets(c) : w > v}) < MaxSecrets }

-----------------------------------------------------------------------------
RoutingNext ==
  \/ \E c \in PayConfigs :
       \/ CreateStripeConfig(c)
       \/ CreateFakeConfig(c)
       \/ RotateCredentials(c)
       \/ \E v \in 1 .. MaxSecrets : GraceEnds(c, v)
       \/ \E enabled \in BOOLEAN : SetConfigEnabled(c, enabled)
       \/ \E t \in Testers : BeginTest(t, c)
       \/ \E m \in Shops, mode \in CollectMode : SetTenantRouting(m, mode, c)
  \/ \E t \in Testers, passed \in BOOLEAN : AnswerTest(t, passed)
  \/ \E t \in Testers : RecordTest(t)
  \/ \E t \in Testers : EndTest(t)
  \/ \E p \in Payments, m \in Shops : PickConfiguration(p, m)

RoutingSpec == RoutingInit /\ [][RoutingNext]_routingVars

-----------------------------------------------------------------------------
(* Whoever pays, pays to an account that is meant and works, and is heard:    *)
(* the platform collects on its own configuration and a merchant on its own;  *)
(* the provider has taken the credentials a payment was made with, although a *)
(* test ends long after it read them (StripePaymentConfigurationService.test, *)
(* setStatus); and as long as these credentials verify webhooks at all, the   *)
(* webhook handler tries them (the limit in handleWebhook).              *)
PaymentsAreFounded ==
  \A p \in Payments : payment[p] # NoPayment =>
    LET c == payment[p].config
        v == payment[p].secret
    IN
    /\ payment[p].mode = "platform_collect" => PayOwner[c] = Headquarters
    /\ payment[p].mode = "tenant_direct" => PayOwner[c] = payment[p].shop
    /\ c \in StripeConfigs =>
         /\ <<c, v>> \in taken
         /\ v \in Verifying(c) \/ <<c, v>> \in lapsed
=============================================================================
