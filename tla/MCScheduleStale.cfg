CONSTANTS
  Owners = {"platform"}
  Episodes = {"e1"}
  Schedulers = {s1}
  Horizon = 1
  ScheduleBatch = 1
  MaxScheduleAttempts = 2
  MaxPublications = 2
  MaxRevisions = 1
  MaxSchedulerStops = 1
  NoScheduler = ns
SPECIFICATION ContentSpec
PROPERTY OldSchedulesAreCancelled
CHECK_DEADLOCK FALSE
