\* The documented startup promise, checked where an interrupted row is older
\* than the retention age when the process comes back.
SPECIFICATION HSpec
CONSTANTS
  t1 = t1
  t2 = t2
  w1 = w1
  Idle = Idle
  Tasks <- OneTask
  Workers <- OneWorker
  Priority <- Equal
  MaxQueue = 2
  MaxRetries = 1
  Expiring <- OneTask
  Fragile = {}
  MaxCrashes = 1
INVARIANTS
  AnyInterruptedIsFinalized
CHECK_DEADLOCK FALSE
