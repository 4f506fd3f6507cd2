CONSTANTS
  Jobs = {j1, j2}
  Builders = {w1, w2}
  MaxBuildAttempts = 2
  MaxBuilderStops = 1
  NoBuilder = nb
  Owners = {"tenant", "platform"}
  Episodes = {"e1"}
  Schedulers = {s1, s2}
  Horizon = 1
  ScheduleBatch = 2
  MaxScheduleAttempts = 2
  MaxPublications = 2
  MaxRevisions = 1
  MaxSchedulerStops = 1
  NoScheduler = ns
  DeviceRows = {d1, d2}
  SessionRows = {r1, r2}
  Requests = {w1, w2}
  Challenges = {ch1}
  MaxActiveDevices = 1
  MaxPasswords = 2
  MaxRotations = 1
  NoRow = nr
  topup = topup
  ti1 = ti1
  ti2 = ti2
  d1 = d1
  d2 = d2
  r1 = r1
  r2 = r2
  s2 = s2
  MaxPurchases = 1
  TopUps = {topup}
  Titles = {ti1, ti2}
  Gross <- Amounts
  Net <- Nets
  PaidPoints <- Paid
  BonusPoints <- Bonus
  Price <- Prices
  StoreRefunds <- Refunds
  Shares <- Policies
  NoShare = none
  LastMonth = 1
  MaxReserves = 1
  MaxTerms = 2
  Providers = {p1}
  Buckets = {k1, k2}
  Uploads = {u1}
  SourceMedia = {m1}
  SourceBucket = k1
  Completions = {w1, w2}
  MaxEdits = 2
  Accounts = {a1}
  Pushers = {w1, w2}
  ExpandBatch = 1
  MaxPushAttempts = 2
  MaxJobAttempts = 1
  MaxPusherStops = 1
  Erasers = {w1, w2}
  MaxErasureAttempts = 3
  MaxEraserStops = 1
  StaffLogins = {w1, w2}
  Clients = {i1, i2}
  MaxStaffTokens = 1
  pc1 = pc1
  pc2 = pc2
  shop = shop
  q1 = q1
  Shops = {shop}
  Headquarters = hq
  PayConfigs = {pc1, pc2}
  PayOwner <- Payees
  StripeConfigs = {pc2}
  Testers = {q1, q2}
  Payments = {b1}
  MaxSecrets = 2
  MaxPayVersion = 4
  NoTest = no_test
  NoRoute = no_route
  NoPayment = no_payment
  Entries = {1, 2, 3}
  Micros = 2
  PageSizes = {1, 2}
  LastMilli = 1
  MaxKeys = 1
  NoCursor = no_cursor
  lp1 = lp1
  lp2 = lp2
  lp3 = lp3
  Papers = {lp1, lp2, lp3}
  PaperTypes = {"privacy", "terms", "community"}
  LegalLocales = {fr, en}
  OwnLocale = fr
  LastLocale = en
  Newcomers = {nc1}
  LegalDays = 1
  MaxDrafts = 1
SPECIFICATION MCSpec
INVARIANTS
  ArtifactIsOfLastAttempt
  SessionsAreAccountable
  PointsAreAccountedFor
  ErasureIsAccountedFor
  EndedSessionsStayEnded
  PaymentsAreFounded
  PagesAreComplete
  ConsentsAreInformed
PROPERTIES
  SchedulesAreKept
  ListedContentIsFrozen
  ReadyIsWhereItPoints
  PushesAreBounded
CHECK_DEADLOCK FALSE
