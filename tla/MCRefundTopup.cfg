CONSTANTS
  o1 = o1
  f1 = f1
  f2 = f2
  r1 = r1
  r2 = r2
  h1 = h1
  w1 = w1
  Orders = {o1}
  Charges = {o1}
  AmountOf <- Amounts
  Withdrawals = {w1}
  Requested = {1}
  MaxBalance = 1
  Topups = {o1}
  Points = 1
  Refunds = {f1, f2}
  RefundOf <- OneOrder
  Requests = {r1}
  Handlers = {h1}
  NoRefund = NoRefund
SPECIFICATION Spec
INVARIANT RefundsAreComplete
SYMMETRY Permute
PROPERTY WritesAreAdmitted
