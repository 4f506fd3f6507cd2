CONSTANTS
  e1 = e1
  e2 = e2
  w1 = w1
  w2 = w2
  NoOne = NoOne
  Events = {e1, e2}
  Workers = {w1, w2}
  BatchSize = 2
  MaxAttempts = 2
  MaxCrashes = 1
  Codes = {code1}
  Trials = {trial1}
  Couriers = {k1, k2}
  MaxSends = 2
  MaxGuesses = 1
  MaxChannelChanges = 4
  MaxCourierStops = 1
  UniversalCode = FALSE
  NoCourier = no_courier
SPECIFICATION MCSpec
INVARIANT DuplicatesAreRetries
INVARIANT CodesArriveSparingly
PROPERTY ReturnsAreCounted
PROPERTY DeliverySpec
PROPERTY EventuallySettled
CHECK_DEADLOCK FALSE
