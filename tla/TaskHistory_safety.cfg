\* Two tasks with a retry each over a process restart; the timestamps of
\* one of them may fall behind the retention cutoff, and its saves may fail.
SPECIFICATION HSpec
CONSTANTS
  t1 = t1
  t2 = t2
  w1 = w1
  Idle = Idle
  Tasks <- TwoTasks
  Workers <- OneWorker
  Priority <- Equal
  MaxQueue = 2
  MaxRetries = 1
  Expiring <- OneTask
  Fragile <- OneTask
  MaxCrashes = 1
INVARIANTS
  RowsTrackResults
  HistoryIsServed
  InterruptedIsFinalized
  NoPhantomWork
PROPERTIES
  OutcomeIsDurable
CHECK_DEADLOCK FALSE
