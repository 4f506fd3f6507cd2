CONSTANTS
  o1 = o1
  o2 = o2
  RightOrders = {o1, o2}
  ProductOf <- OnePlan
  AdChallenges = {}
SPECIFICATION RightsFairSpec
PROPERTY FailureCanBeRetried
