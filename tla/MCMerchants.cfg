CONSTANTS
  c1 = c1
  c2 = c2
  c3 = c3
  p1 = p1
  p2 = p2
  amy = amy
  ben = ben
  cho = cho
  o1 = o1
  Charges = {c1, c2, c3}
  AmountOf <- Amounts
  Withdrawals = {w1, w2}
  Requested = {1, 2}
  MaxBalance = 3
  Authors = {amy}
  Posts = {p1, p2}
  MaxDecisions = 3
  NoPost = np
  Members = {amy, ben, cho}
  Purchases = {o1}
  BuyerOf <- Buyers
  WorthOf <- Worths
  Rates = {1000}
  MaxRateChanges = 1
  Nobody = nobody
  StaffRows = {amy, ben}
  Founder = amy
  CustomRoles = {editor}
  OwnerRole = owner
  AdminRequests = {q1, q2}
  MaxStaffVersion = 1
  NoAdminRequest = no_request
  o2 = o2
  RightOrders = {o1, o2}
  ProductOf <- Sold
  AdChallenges = {h1}
  f1 = f1
  f2 = f2
  Files = {f1, f2}
  DramaCodes = {"x", "y"}
  CodesOf <- HeldBy
  Importers = {i1, i2}
  MaxFaults = 2
  MaxField = 2
  Sheets <- TwoCells
  Catalogues <- Shelves
  Staff = staff
  NoFile = no_file
  t1 = t1
  t2 = t2
  q1 = q1
  Works = {t1, t2}
  Licences = {l1}
  Editors = {q1, q2}
  Sales = {s1}
  MaxEditions = 2
  MaxTurns = 4
  LastDay = 1
  ForSale = t1
  Fees = {1, 2}
  Redactors = {q1, q2}
  Tongues = {en, fr}
  MaxRevisions = 3
  MaxEntries = 2
  MaxCuts = 2
  NoRedaction = no_redaction
  NoBasis = no_basis
  n1 = n1
  v1 = v1
  Hosts = {home, h2}
  HomeHost = home
  SiteEditors = {q1, q2}
  Visitors = {v1, v2}
  Processes = {n1, n2}
  PositiveLife = 2
  NegativeLife = 1
  MaxCacheEntries = 1
  MaxHostVersion = 3
  NoSiteEdit = no_edit
  Views = {w3}
  MaxShopTurns = 1
  NoView = no_view
SPECIFICATION MCSpec
INVARIANTS
  AccountIsExplained
  LedgerTellsStatus
  DecisionsTellStatus
  AnOwnerRemains
  PaidHoldsItsRight
  PortableContent
  SalesAreCovered
  AnswersAreRecent
  ViewsAreAllowed
PROPERTIES
  PendingRefundIsCovered
  InvitationsAreFair
  KeptUntilReturned
  LicencesAreSound
  EditsAreSound
  DomainsAreOwned
CHECK_DEADLOCK FALSE
