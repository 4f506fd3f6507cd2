CONSTANTS
  o1 = o1
  a1 = a1
  a2 = a2
  r1 = r1
  r2 = r2
  f1 = f1
  h1 = h1
  NoRefund = no_refund
  NoAttempt = NoAttempt
  Orders = {o1}
  Attempts = {a1, a2}
  OrderOf <- OneOrder
  PlatformCollect = {a1}
  Requests = {r1}
  Hosted = TRUE
  Fits = {"exact"}
  MaxConfigVersion = 1
SPECIFICATION LiveSpec
PROPERTY CaptureIsAccountedFor
PROPERTY DecidedRefundIsBooked
