CONSTANTS
  o1 = o1
  a1 = a1
  a2 = a2
  r1 = r1
  r2 = r2
  NoAttempt = NoAttempt
  Orders = {o1}
  Attempts = {a1, a2}
  OrderOf <- OneOrder
  PlatformCollect = {a1}
  Requests = {r1, r2}
  Hosted = TRUE
  Fits = {"exact"}
  MaxConfigVersion = 1
SPECIFICATION Spec
INVARIANT PaidByOneCharge
INVARIANT CheckoutsAreAwaited
SYMMETRY Permute
PROPERTY KeepsPromise
