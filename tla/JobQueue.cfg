SPECIFICATION FairSpec
CONSTANTS
  MaxQueueSize = 2
  MaxConcurrentJobs = 2
  RetryAttempts = 1
  MaxJobs = 4
  MaxSchedules = 1
  Percentages = {0}
  Statuses = {"COMPLETED", "QUEUED"}
  Priorities = {"CRITICAL", "HIGH", "LOW", "other"}
INVARIANTS
  TypeOK
  OnePlace
  BacklogBounded
  QueueByPriority
PROPERTIES
  EveryJobEnds
\* Everything ends once the bounds on jobs and schedules are reached.
CHECK_DEADLOCK FALSE
