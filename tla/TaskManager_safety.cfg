\* Safety of the task manager: three tasks with a retry each, two workers and
\* a queue that two tasks fill.
SPECIFICATION Spec
CONSTANTS
  t1 = t1
  t2 = t2
  t3 = t3
  w1 = w1
  w2 = w2
  Idle = Idle
  Tasks <- ThreeTasks
  Workers <- TwoWorkers
  Priority <- Urgency
  MaxQueue = 2
  MaxRetries = 1
SYMMETRY Symmetric
INVARIANTS
  Conservation
  QueueIsPending
  RunningAgrees
  WakeupsCoverQueue
  OneLiveAttempt
  StoppedIsQuiet
PROPERTIES
  SettledIsFinal
  KeepsPromise
CHECK_DEADLOCK FALSE
