# Night Flix: a verification project

Night Flix is a multi-tenant short-drama service.  A platform (headquarters) and its tenants
(merchants) publish dramas, customers buy episodes, dramas, memberships and points, and the platform
collects money for some merchants and shares revenue with them.  This directory holds TLA+
specifications of the parts of the API and its workers where several actors meet in one row, the
configurations that model-check them with TLC, and proofs checked by TLAPS.

    tlc -workers 2 -config MCPaymentHosted.cfg MCPayment
    tlapm PaymentCoreProofs.tla

`PROJECT.json` lists for each definition the source lines it models, the runs with their properties,
a mutant for each property, the hazards with their lines, and the theorems.  The code is TypeScript
(NestJS, `apps/api`) over PostgreSQL (`database/migrations`).

## 1. The system

Four processes are deployed: the web API, the worker, the admin console and the build agent.  They
share one PostgreSQL database and one Redis.  All coordination goes through rows: a handler opens a
transaction, locks the rows it decides on (`for update`, or `for share` for those it only relies on),
and commits.  Calls of providers (payment, mail, push, storage) are made *between* transactions, never
inside one.  Workers claim rows with `skip locked` and mark them with their name.  Every command of a
client carries an Idempotency-Key, a row of `command_idempotency`; most updates carry the version of
the row that their page showed.

| component | state | operations | interacts with |
|---|---|---|---|
| Payments (`payment-core`, adapters), orders | orders, attempts, transactions, inbox, command rows | create order, createPayment, getPayment, handleWebhook | provider, finance, wallet, rights, commissions, outbox |
| Payment configuration | configurations, credentials with their grace, routes of merchants | create, rotate, test, enable, route | payments, provider |
| Refunds (`refund`) | `payment_refunds` | create (two entries), webhook | provider, orders, finance, wallet, commissions |
| Merchant finance (`finance`) | settlements, withdrawals, accounts and their ledger | settle, withdraw, cancel, review, transfer | payments, refunds |
| Points, native stores, revenue share | point lots and ledger, debts, revenue events, statements | unlock, receipts, store refunds, monthly settlement | payments, refunds, licensing |
| Rights to watch, rewarded unlocks | entitlements, challenges | grant, revoke, expire, callback | orders, points, stores, advertising network |
| Referrals | bindings, commissions and their accounts | bind, create, mature, reverse | payments, refunds |
| Outbox and message workers | `outbox_events`, dispatch jobs | claim, publish, deliver, recover | everything |
| Push campaigns | campaigns, recipients, deliveries | schedule, cancel, expand, push | provider, customers |
| Verification codes, merchant mail | channels, challenges, delivery jobs | ask, guess, send, test | mail provider, customers |
| Sessions (staff, customers) | sessions, refresh tokens, devices | login, refresh, replay, revoke | requests, erasure |
| Staff, roles, permissions | staff, roles, assignments | authorize, assign, disable | sessions |
| Content lifecycle, schedule worker | dramas, episodes, tracks, categories, tags, versions, jobs | edit, file, publish, schedule, delete, restore | licensing, viewing |
| Import and export | files, import jobs | write, read, import | content |
| Licensing, drama pool, offers | packages, editions, licences, publications, prices | grant, revoke, publish, price, sell | content, orders |
| Customer viewing | progress, favourites, stream tokens | catalogue, access, URL, tracks, segments | rights, licensing, storage |
| Comments and moderation | posts, decisions, reports, likes, feedback | post, report, decide, restore | customers |
| Domains and the host directory | domains, settings, caches in each process | create, verify, make primary, resolve | every request |
| Storage and uploads | providers, media | intend, upload, complete, edit provider | content |
| App builds | build jobs with a lease | request, claim, complete, fail | storage |
| Privacy erasure | requests | request, claim, erase | customers, sessions |
| Legal documents and consents | documents, consents | draft, publish, remove, register | customers |
| Lists read by cursor | what they list | read the next page | points, rights, finance, customers |
| Analytics, clients | | queries, user interfaces | |

What is hard, and what makes the components correct:

* **Money in.**  Two attempts of one order may both be paid; a provider call is an unlocked gap in
  which the order expires, the configuration changes or the process stops; webhooks come early, late,
  twice.  One order is paid once, all that follows stems from that charge, a key that answered an
  error shows no checkout, captured money finds its attempt, and no success disappears silently.
* **Money back and out.**  A refund's answer may be lost while the refund is made; the webhook runs in
  three transactions.  One complete refund per order, nothing booked that was not made, no write that
  the database's own rules refuse; balances are sums of their ledger, and the ledger tells the status.
* **Points and shared revenue.**  Partial refunds over months, rounding: every point is traced to its
  lot, nothing is clawed back beyond what was refunded, no party pays more than it got.
* **Rights.**  A paid order holds its right exactly as long as it is not refunded, whatever other
  sources give the same product.
* **Sessions.**  A stolen token ends its family, a retry of the same client does not; nobody stays
  logged in by a password that was changed, whatever was under way.
* **Workers.**  A worker that stops, or is slow and loses its claim, loses no work, and does none twice
  that is not owed to a failure: events, builds, codes, pushes, erasures, imports, schedules.
* **Content and its sale.**  What is published was seen, the record is never wrong about it, what it is filed under
  stays; what a merchant listed stays as it was; a sale is covered by what was in force.
* **Viewing.**  What is handed out to play was allowed when it was signed; what a page shows can be
  opened; what was bought for good plays.
* **Routing.**  Who pays, pays to an account that is meant and works, and is heard when credentials
  have been replaced since.
* **Lists and consents.**  A reader who turns pages gets every row once, while rows come and go; what a
  customer is recorded to have accepted was shown, in those words, and in force.
* **Administration.**  An owner remains; every change sees the row it changes; a decision about a post
  tells its status; a site keeps a primary domain, and answers about hosts are recent.

The hazards are listed one by one, with their lines, in `PROJECT.json`.

## 2. Modules

| module | models | refines / used by |
|---|---|---|
| `OrderPayment` | what paying promises: open, then paid by one captured attempt, or closed | abstract specification |
| `PaymentCore` | createPayment, getPayment, handleWebhook, orders, the configuration, the provider | refines `OrderPayment` (`KeepsPromise`) |
| `MerchantFinance` | one balance account, its ledger, settlements, withdrawals | its steps are those of `RefundCore` too |
| `RefundCore` | refund requests and webhooks, wallet and commission as far as refunds see them | EXTENDS `MerchantFinance` |
| `RefundRules` | what the triggers and checks of the migrations admit of a step of `RefundCore` | EXTENDS `RefundCore` |
| `PaymentRouting` | configurations, rotated and tested credentials, routes, and what a payment picks | |
| `CashProvenance` | point lots, unlocks, store refunds and debts, revenue shares, monthly settlement | |
| `Rights` | what gives and takes a right to watch: orders, points, advertisements, the store | |
| `Referrals` | invitations, rates, commissions and their account | |
| `EventDelivery` | what the outbox promises: on the stream at least once before it counts as delivered | abstract specification |
| `OutboxPublisher` | the rows of the outbox and the workers | refines `EventDelivery` (`DeliverySpec`) |
| `CampaignDelivery` | one push campaign from its schedule to the provider | |
| `VerificationCodes` | the mail channel, challenges, and the couriers that send | |
| `StaffSessions`, `CustomerSessions` | refresh tokens, families, devices, and everything that ends them | |
| `PrivacyErasure` | the request, its claim, erasure and failure | |
| `StaffDirectory` | staff, roles, and requests that may take an owner away | |
| `ContentLibrary` | the life of a drama with its episodes and scheduled jobs, for tenant and platform | |
| `DramaEditing` | two editors, one drama and what it is filed under, statement by statement | |
| `ContentImport` | the file format and the import job | |
| `ContentLicensing` | packages, editions and licences of one merchant | |
| `ContentOffers` | prices, publications and sales that rest on licences | EXTENDS `ContentLicensing` |
| `CustomerViewing` | what a viewer is shown and given to play, statement by statement | |
| `Interactions` | comments, moderation, likes, feedback | |
| `CursorPages` | lists of points, rights, customers, exports and ledger lines, read page by page | |
| `LegalConsents` | documents with their versions, and registration by form or provider | |
| `MerchantSites` | domains, settings, and the caches that answer for them | |
| `MediaStorage`, `AppBuild` | uploads and providers; build jobs and leases | |
| `MCPayment`, `MCRefund`, `MCOutbox`, `MCRights` | small instances of one service | for TLC |
| `MCLive` | payment and refund under redelivery | for TLC |
| `MCServices`, `MCMerchants` | several services, one of them in each behaviour | for TLC |
| `PaymentCoreProofs`, `MoneyProofs`, `CashProofs`, `OutboxPublisherProofs`, `PlatformProofs`, `CustomerProofs`, `MerchantProofs`, `ContentProofs` | theorems | for TLAPS |

`MCServices`, `MCMerchants`, `MCOutbox` and `MCLive` do not compose their services: no two of those in
one module write the same rows, so a behaviour is one service's, chosen at the start (`scene`), and
the state spaces add up instead of multiplying.  Where services do share rows, one module holds both:
refunds and the merchant's account, payments and the configuration, licences and sales, posts and
their moderation, purchases and rights.

**Steps.**  Where every transaction of a component locks the rows it decides on before it reads them,
one action is one transaction, one provider call, or one step of the outside world, and the state
between two transactions of one handler is a program counter (`request`, `handler`, `courier`,
`pusher`...).  Where a transaction reads rows that others may change before it commits, it is several
steps, and its locks are modelled: `DramaEditing`, `ContentLicensing`, `ContentOffers`,
`CustomerViewing`, `StaffDirectory`, `MerchantSites`, the binding of `Referrals`, the import of
`ContentImport`, the test of `PaymentRouting`, the export of `CursorPages`.  A handler may stop at any counter (`AbandonRequest`, `StopHandler`, `Abandon`,
`AbortChange`, a worker's crash), which stands for a crash, a lost answer, a deadlock that PostgreSQL
resolves and an ambiguous error alike.

**Payments.**  An attempt is named by the command that created it (both rows appear in one
transaction, and the request hash ties a key to one order), so `command[a]` and `attempt[a]` are the
two rows.  `snapshot` is what the attempt recorded of the configuration.  `session` is the
provider's view; one session exists per attempt id, which is the provider's idempotency key.  `fit`
says how a signed event differs from the attempt's snapshot: not at all, in the signed reference, in
amount or currency, or in the charge itself.  `clock` tells only what the code tests: more than 30
minutes left (Stripe's minimum), less, or past.  `checkout` is what reached the customer.  `Hosted`
selects Stripe (a session can be paid only by a customer who was given it, before the deadline) or
the in-process fake adapter (events may come at any time after the call).  Fulfilment assumes that the
customer holds no other right to the product; `Rights` is about those who do.

**Finance and refunds.**  The ledger trigger is `Post` and `Move`: a leg that would leave its bucket's
range fails, and with it the whole action.  `SettleDue` takes any set of due settlements because the
batch skips rows that others hold.  `Reply` is what the adapter makes of the provider's answer; a
repeated call may be refused for reasons that say nothing about the refund, which the adapter classes
as definitive.  `RefundRules` does not guard the steps: it states, as an action property
(`WritesAreAdmitted`), that none is one the triggers would refuse.  That matters because the deferred
check of a refund's effects would roll back a refund the provider has already made.

**Routing.**  Credentials of a configuration are numbered; `taken` are those the provider has accepted,
which is what a payment needs and no row records for good, and `lapsed` those that no longer verify
webhooks.  A test holds what it read of the configuration across the provider's call.  The triggers of
migrations 0013 and 0028, one of them deferred to the commit, are guards (`RouteFits`, `RoomForSecret`,
`ProviderStateHolds`).

**Lists, consents.**  A row's `created_at` has a millisecond and a microsecond part, since the cursor
keeps the first and the database orders by both.  Of documents, words are a number that an edit
changes; `shown` is what a newcomer's browser has displayed, which the API cannot see.

**Referrals.**  The chain that the trigger walks up, by a recursive query, is the least set that holds
the customer and the inviters of its members.

**Editing.**  `place` says whose the drama and the entry (category or tag) are.  A redactor's record
holds what its transaction has read and which rows it has locked; row-level security is part of what a
step sees (`Sees`, `CanShare`).  "rejected" has the guards of "draft" and stands with it.

**Viewing.**  `view[v].step` counts the statements of the transaction; `ViewLocks` are the rows it
holds in share mode by then, which makes whoever changes them wait (`UnlockedRow`).  `links` stands
for the HLS tokens that were handed out; each file of a stream is decided anew.  The entitlement lock
reads one right (`limit 1`); the model locks all of the customer's.

**Codes, sessions, sites.**  Credentials, passwords and tokens are numbers, of which only equality
counts.  `proven` are the credentials with which the provider took a test message.  `answerAge` tells
for each host and each possible answer how long ago the database last gave it, in ticks, so that the
age of what a process answers can be compared with the life of an entry.

Abstractions shared by all: amounts are small numbers or equal to what was ordered or differ; audit
rows, wording, shapes and permissions are left out unless a property is about them; a request that
ends in 4xx without writing is the absence of a step, and so is a repeated key that answers with its
stored response; rate limits and captchas are whether a request is made.

## 3. Runs

| run | question | states |
|---|---|---|
| `PaymentHosted` | Paid once; failed keys show no checkout and captured money is findable; refinement | 749 060 |
| `PaymentFake` | Events that come early or do not fit: which successes are dropped silently? | 91 250 |
| `Redelivery` | Every captured payment and every decided refund is accounted for by redelivery alone (liveness) | 141 296 |
| `PaymentLate` | Does a late success reach the exception queue, as the documentation says? | violated |
| `RefundTopup` | Refund of a platform-collected top-up against spending, settlement, withdrawal, and the database's rules | 961 922 |
| `RefundRefused` | Is a failed refund one that the provider rejected? | violated |
| `Outbox` | Duplicates, uncounted returns, at-least-once (refinement), everything ends (liveness); codes by mail | 545 446 |
| `OutboxLost` | Is delivery at least once after a crash, as the documentation says? | violated |
| `Services` | Builds, schedules, customer and staff sessions, points and cash, uploads, pushes, erasures, routing, lists, consents | 853 214 |
| `Merchants` | Finance, moderation, invitations, staff, rights, files, licences, offers, edits, domains, hosts, viewing | 483 368 |
| `ScheduleStale` | Does taking a drama down cancel its schedule, as the documentation says? | violated |
| `RightsLost` | Can the fulfilment of a paid order be retried, as the documentation says? | violated |

Bounds, and why they are enough.

* **Payments.**  One order, two attempts (one platform-collected, one not), two requests, one
  configuration change: the hazards need two attempts of one order, two requests of one key or of two,
  and one change inside one provider call; bound 2 was run and holds too (2 876 200 states).  Each
  property is about one order.  The in-process adapter (`PaymentFake`), whose events need no checkout
  and may come before the answer, has one attempt and four ways to fit.
* **Refunds and finance.**  Two keys of one order, two requests, one handler, one withdrawal.  The
  account is shared by charges, so finance has three, worth 1, 1 and 2, whose sum exceeds the bound
  of a bucket (3): the trigger does refuse.
* **Outbox.**  Two events, two workers, batches of two, two attempts, one crash.  Codes: one code and one
  channel test, two couriers with the same job between them, two sends, four changes of the channel,
  one crash; nothing is guessed or erased after a crash or the last change.
* **Services.**  Two build jobs, builders and attempts, one stop; one episode, two schedulers, two
  publications; two devices, sessions and requests, one active device, two passwords; one purchase
  refunded in two parts, one top-up, two titles, two months; two uploads and one provider edited
  twice; two pushers, two attempts; two erasers, three attempts, one stop; two staff logins, two clients;
  one configuration of each adapter, two sets of credentials, two tests that overlap, one payment;
  lists of three rows in two milliseconds of two microseconds, pages of one and two, of which one row
  comes and goes while they are read; three documents in two locales, two days, one newcomer.
* **Merchants.**  One author, two posts, three decisions; three members, one order, one change of the
  rate; two staff, one custom role, two requests; two orders of one episode and one membership, one
  challenge; two files that share a drama, two importers, two faults; sheets of two cells of up to two
  characters of six kinds; two titles, one licence, two editors, one sale, two amounts, four turns; two
  transactions over one drama and one entry, of which two run at once only if one deletes the entry.
  Two hosts, two editors, two visitors, two processes; one view and one change by others while it runs.

The bounds stand in the `.cfg` files and, named and explained, in the `...Bounds` operators of the MC
modules; `Max...` constants cap what would grow for ever (versions, crashes, attempts).  Every
hazard of `PROJECT.json` happens within them: each property of a passing run has a mutant in its
module (`Mutant:` comments), a bug of the kind that code could have, under which TLC finds the
property violated in that run.  Symmetry is used for requests and keys only, in runs without liveness.
Those of the theorems of section 4 hold for every value of the constants.

`Services`, `Merchants` and `Outbox` switch the deadlock check off: their work ends (a build is done, the
bound on changes is reached, a worker stays down), which is no error.  In the other runs
something can always happen.

**Properties that bundle.**  Several properties state what belongs together: `CheckoutsAreAwaited` (a
key that answered an error shows no checkout; captured money finds its attempt), `RefundsAreComplete`
(one refund per order; it reverses the order; what is booked was made; stored answers are current; a
processed webhook took effect), `AccountIsExplained` (buckets are the sums of their entries and of what
is owed; nothing is paid out that was not settled), `SessionsAreAccountable` (a live session has its
device and rests on the present password), `EndedSessionsStayEnded` (a replay ends the family; only
logins under way survive a reset), `InvitationsAreFair` (nobody invites back; nobody is bound after
buying; an account is what its commissions add up to), `ViewsAreAllowed` (what is signed was allowed;
what is shown can be played), `EditsAreSound` (what is filed is kept; what is published was seen; the
last version agrees with what is listed, or is silent on a merchant's tag), `CodesArriveSparingly` (an active channel is proven; a code is sent sparingly),
`LicencesAreSound` (scopes are their editions'; grants lie in their term), `DomainsAreOwned` (changes
see the present row; a primary remains; verified means proven).

**Fairness.**  Nothing is assumed of customers, staff, merchants, crashes or time.
`CaptureIsAccountedFor` assumes that the provider announces a capture and keeps delivering until it is
answered, and that the API processes what is delivered (`WF` of `Announce` and `HandleWebhook`): no
poller asks the provider.  `DecidedRefundIsBooked` assumes the same with strong fairness of the three
webhook transactions: a handler that may be stopped is not stopped at the same place every time.
`EventuallySettled` assumes that a worker which stopped is started again (`restart: unless-stopped`,
`deploy/compose.production.yml:45`), that one that runs goes on, and that five minutes pass (`WF` of
`Start`, `PublishAvailable`, `LockLapses`); it is the publishers' only, so of codes the run asks what
holds in every state.  `RightsFairSpec` has `WF` of the deadline and of the
success webhook.

### Five disagreements

* **Late success** (`PaymentLate`).  `docs/backend-domain.md:303` sends a late success for a closed order
  to the exception queue.  A success that arrives after the deadline while the order is still
  `pending_payment` closes it itself and is rejected without `PaymentReconciliationRequired`
  (`payment-core.service.ts:873`).  `SilentDropsAreTwo` proves that this and the wrong-amount branch
  are the only places where a success is dropped without escalation.
* **Definitive refusals** (`RefundRefused`).  A refund whose first answer was lost and whose repeated call
  is refused is recorded as definitively rejected and its points are released, although the provider
  made it (`refund.service.ts:847`, `stripe-payment.adapter.ts:427`).  The error goes one way only: nothing
  is booked that was not made.
* **Lost claims** (`OutboxLost`).  `docs/qa/concurrency-whitebox-20260908.md:24` and
  `docs/backend-domain.md:388` promise delivery at least once after a crash.  Stale locks are recovered
  only when a worker starts (`run-worker.ts:30`): a worker that crashed and is back within five minutes
  leaves its event in processing for good, unless one starts later.
* **Cancelled schedules** (`ScheduleStale`).  `docs/backend-domain.md:286` has a drama's old schedule
  cancelled when it is taken down.  The platform's `unpublishDrama` cancels pending and retried jobs
  (`platform-content-library.service.ts:716-726`), the tenants' also claimed ones
  (`content.service.ts:873-882`): a claimed job takes effect on the drama that was published again.
* **Paid without a right** (`RightsLost`).  `docs/backend-domain.md:251` says that granting can be
  retried.  The insert is idempotent by order item and the unique index is on the product
  (`payment-core.service.ts:1086-1096`, `0037:84-87`), and nobody asks what the customer owns: the
  renewal of a lapsed membership is charged, every delivery fails, and after the deadline the order is closed.

### Smaller observations

Met while modelling; the models do what the code does.

* Filing: PostgreSQL applies UPDATE policies to `SELECT ... FOR SHARE`.  A merchant's check of its
  category (`content.service.ts:1314-1329`) therefore refuses every platform category, though
  `docs/backend-domain.md:104` allows them, and media of the platform's provider likewise; a merchant's
  removal of a tag never sees that it is used (`tenant-content-taxonomy.service.ts:208-213`; the
  integration tests run as superuser).  Once the platform disables a category, every edit of a
  merchant's drama that names it is refused (0006:1450).
* Publishing: a change of a platform episode does not move the drama's version, so what is published
  may contain one that the editor did not see; `SeenIsPublished` says exactly this much.  Snapshots omit
  tracks.  A merchant's version tells its tags when the drama is created or imported, and no longer
  from the first edit or publication on: `loadDramaSnapshot` (`content.service.ts:1408-1502`) reads the
  drama's row and so its category, but not `drama_tags`, unlike the platform's `insertContentVersion`
  (`platform-content-library.service.ts:1620`).  What customers saw a merchant's drama tagged with is
  therefore not on record (in the model: `"untold"`); `RecordIsListed` says that the record is silent on
  nothing else and wrong on nothing.
* Lists: the cursors of the customers' points and rights (`customer-store.service.ts:395-405`), of the
  staff's list of customers and of the privacy export keep milliseconds, and PostgreSQL compares
  microseconds, so the rows that share the millisecond of a page's last row are skipped for good.
  `docs/qa/admin-whitebox-20260907.md:40` tells of this defect and its repair in the finance ledger
  only.  `PagesAreComplete` says exactly which rows are lost, and that the ledger loses none.
* Favourites ask less than the catalogue (no takedown, region or windows); playback ignores
  `release_at`/`unpublish_at`; a preview overwrites progress; who buys during a preview loses the
  stream's token.
* Offers: a cash price of a pooled drama is refused by a trigger (0012) although the service allows it;
  `deleteDrama`'s look at licences does not see a grant under way.
* Domains: `{enabled: true}` of an enabled primary sets its certificate back to provisioning;
  `{isPrimary: false}` leaves no primary; the directory forgets a host before the commit, and in one process only.
* Referrals: two customers cannot invite each other, three in a circle can.
* Imports: a field of exactly the longest length that starts with a formula sign does not come back;
  `failUnexpected` records a failure of a job that another worker completed.
* Payment configuration: after four rotations of a Stripe secret no further one succeeds, although the
  answer is to retry once the grace has expired: the trigger counts rows whose grace is over, and
  nothing retires them.  A test of an enabled configuration that fails is refused by the deferred
  trigger, so that its result is lost and its command stays in processing.  The route of a merchant
  is the last one written, whatever the page of the other editor showed.
* Consents: `identityLogin` records consent to all current documents, optional ones too, which nobody
  accepted or saw.  Two editors of whom one creates a draft and the other removes it may be told that a
  draft already exists.

## 4. Proofs

Assumptions: only the named `ASSUME`s of the modules.  They say that constants have their types, that
an idle value is none of the others, and that a set of workers, staff or devices is finite where
something of it is counted.  TLC evaluates them on every run.

Each safety proof has the same shape: an inductive invariant as a conjunction of named parts; a lemma
per group of steps, by what the steps disturb; a last theorem that combines them with PTL.  TLC checked
each inductive invariant on the instances above before it was proved.

* **Payments** (`PaymentCoreProofs`).  `Consistent` is inductive.  `PaidByOneCharge` alone is not: that a
  success may pay an order needs that no other charge has, that the charge was captured and that charges
  are the succeeded attempts; that a checkout shown late belongs to an answered command needs
  `CommandFollowsAttempt` and, for the stale read of `getPayment`, `ReadIsAnswered`.
  `ImplementsOrderPayment` maps each step to an abstract step or a stutter.
* **Refunds, finance, invitations** (`MoneyProofs`).  `FinanceTypeOK` is inductive (it holds the buckets'
  bounds), and `LedgerTellsStatus` with it.  `ImplementsFinance` shows each refund step to be one of the
  account or to leave it alone, so what is proved of the account carries over.  `RefundConsistent` adds
  `RefundIsRecorded` and `OutcomesAreTrue`, without which a request could carry an outcome the provider
  never gave.  `AccountInv` is about the money itself: every bucket is the sum of its entries
  (`Balanced`) and of what is pending, frozen and paid out (`Owed`), and what was settled and not taken
  back is what is available, frozen or withdrawn.  It needs the ledger's account of each status, and
  that only finitely many charges and withdrawals have begun; that a pending refund finds its money
  follows.  `RulesInv` adds which entries exist, and with it no step writes what the database's own
  rules refuse (`EveryWriteIsAdmitted`).  `ReferralInv`: once the trigger has looked at a binding, its
  customer's inviter is not bound to it and cannot become so, since the binding's lock makes the other
  wait; each account is the sum of the commissions that are in its bucket.
  The sums themselves (that they exist, add, split and negate, and that any element may be taken first)
  are proved of the community modules' definition.  In place of an induction, which would need an
  operator as a parameter, each law takes a smallest subset of a finite set that breaks it
  (`SmallestSubset`, from the well-foundedness of strict inclusion), and one element less.
* **Points and the revenue made of them** (`CashProofs`, on the sums of `MoneyProofs`).  `PointsInv` has
  two halves.  `WalletRight`: for each point of a source that was credited there is exactly one lot or
  one use that is not given back (`Traced`), the balance is what is left in the lots, so a debit the
  balance allows is always covered (`DrawsAddUp`: the code's "Wallet provenance is incomplete" is never
  raised), and what a live refund reserved comes to the points of its charge.  That makes a failed
  refund restore exactly the ranges it took.  `RevenueInv`: the entries of an event are its first one
  and reversals that come to exactly what its source's refunds take back of it now (`Explains`, `Exact`).
  It is kept because every rounding is monotone: in the refund, in what else was consumed
  (`TakenShareGrows`), and in each party's part, which holds for the code's nested apportionment
  (`CreatorPartGrows`) and not when each part is rounded by itself.  An unlock needs both halves: its
  events have keys of their own only because no two lots with something left stand at one position
  (`LotsStandApart`).  Partial refunds, debts, several closed months and any number of purchases,
  titles and policies are included; debts and sales one after the other are recursive functions, of
  which the least number that fails takes the place of an induction.
* **Outbox** (`OutboxPublisherProofs`).  `OutboxConsistent`: given up only after all attempts, claims in hand are
  current or counted, copies are counted, what is confirmed was appended.  `WorkersDeliver` is the refinement.
* **Sessions** (`CustomerProofs`).  For staff, which replays and which logins under way may leave a session;
  for customers, the password a session rests on (`KnowInv`), and that every live session is accounted
  for by its device, which is inductive with those types.
* **Platform** (`PlatformProofs`).  Erasures, builds and uploads: an outcome belongs to the claim that made it.
  Routing (`RoutingInv`): a test under way, and the row it is stored in, tell only of credentials the
  provider took, and no more sets exist than the webhook handler tries.  Pushes (`CampaignInv`): a
  worker that may still push is counted among the attempts, whether or not it holds its claim; those
  that cancellation cannot stop were under way by then.  Schedules (`ContentInv`): what is to be released
  has a job that waits, runs or failed with its number of tries, and no job of an earlier publication
  lives; what a merchant listed has been written.
* **Customers** (`CustomerProofs`).  Rights: types with the agreement of order and right, and, per action, what
  it may take away.  Viewing (`ViewingInv`): what each statement of a request read and locked stands
  until it ends, stage by stage, so what is signed was allowed at that moment; and what was bought for
  good never lapses.  Lists (`PagesInv`): what was there when the reading began was given, is still to
  come, or shares the millisecond in which some page ended.  Consents (`LegalInv`): what a newcomer was
  shown keeps its words once it is published.  Moderation (`ModerationInv`): a post's status is the last decision's.
* **Administration** (`MerchantProofs`).  `OwnerInv`: two requests never hold the owner's role at once, so one
  that has checked the owners leaves another; finiteness of the staff turns "more than one" into "another".
  `CodeInv`: a courier has the credentials of its job's version as long as that is the channel's, and
  copies plus couriers that may still send never exceed the attempts counted.  `SitesInv`: locks exclude
  each other, the version shown tells that the row is as shown, and look-ups under way have age 0.
* **Content** (`ContentProofs`).  `EditingInv`: locks exclude, and what a transaction has checked of drama and
  entry stands while it holds them.  `LicensingInv`: what a grant read of package and merchant stands, and
  past editions are never rewritten.  `OffersInv`: what a sale has read it holds in share mode.

Several statements were not inductive as TLC's runs stated them, and some types had to become exact
before a step could be shown to keep them; `Stages`, `ViewRow`, `SiteEditRow` and `LookupRow` come from that.  The chain of inviters is defined as a
least set rather than by steps, and sums over functions rather than over an operator, so that they can
be reasoned about.

**Only model-checked.**

* Liveness: `CaptureIsAccountedFor`, `DecidedRefundIsBooked`, `EventuallySettled`.
* What recursive definitions compute for every input: that a file gives back the drama it was made of
  (`PortableContent`), which is about all strings of all lengths.
* Conversely the theorems cover what TLC's instances leave out: the code that opens every account in a
  test environment (`UniversalCode`), any number of attempts, keys, staff, hosts and workers.

## 5. State of the work

**Done.**  Payments with their abstract order, routing, finance, refunds and the database's rules about
them; invitations; the outbox with its abstract delivery, codes by mail, pushes; sessions of staff and
customers; builds, schedules, uploads, erasures; editing, licensing, offers, viewing, files; lists and
consents; staff, roles, sites.  Each safety property of the passing runs but `PortableContent` is a theorem.

**Left.**  The transactional notifications that are made from outbox events, app profiles, and
the database's rules about payments (as `RefundRules` states those about refunds).

**Not modelled, and why.**  Clients and user interfaces: to the API they are requests that are made,
repeated or abandoned.  Analytics, search and catalogue queries change nothing.  Cryptography, receipts
and signatures are the outcome of their verification.  Row-level security is modelled only where it
decides what a handler sees (`DramaEditing`).  Rate limits and captchas decide whether a request is
made; the audit log is written and never read back.
