\* Progress of the task manager: two tasks with a retry each, two workers and
\* a queue that one task fills, so that retries meet a full queue.
SPECIFICATION FairSpec
CONSTANTS
  t1 = t1
  t2 = t2
  t3 = t3
  w1 = w1
  w2 = w2
  Idle = Idle
  Tasks <- TwoTasks
  Workers <- TwoWorkers
  Priority <- Urgency
  MaxQueue = 1
  MaxRetries = 1
PROPERTIES
  StopReturns
  EveryAttemptSettles
  RetryIsHonoured
CHECK_DEADLOCK FALSE
