CONSTANTS
  NoOne = NoOne
  Events = {e1}
  Workers = {w1}
  BatchSize = 1
  MaxAttempts = 2
  MaxCrashes = 1
SPECIFICATION OutboxFairSpec
PROPERTY AtLeastOnceAfterCrash
CHECK_DEADLOCK FALSE
