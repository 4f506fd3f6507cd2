CONSTANTS
  o1 = o1
  a1 = a1
  a2 = a2
  r1 = r1
  r2 = r2
  NoAttempt = NoAttempt
  Orders = {o1}
  Attempts = {a1}
  OrderOf <- OneAttempt
  PlatformCollect = {a1}
  Requests = {r1}
  Hosted = TRUE
  Fits = {"exact"}
  MaxConfigVersion = 0
SPECIFICATION Spec
INVARIANT LateSuccessIsEscalated
