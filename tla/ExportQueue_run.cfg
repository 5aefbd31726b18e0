\* Two instances, one of which may stall anywhere, one content with two attempts
\* and two faults: leases, attempts and outcomes, and that every export settles.
SPECIFICATION FairSpec
CONSTANTS
  c1 = c1
  i1 = i1
  i2 = i2
  k1 = k1
  k2 = k2
  k3 = k3
  k4 = k4
  Nobody = Nobody
  Contents <- OneContent
  Instances <- TwoInstances
  Prompt <- OneInstance
  Tokens <- FourTokens
  Lease = 3
  MaxAttempts = 2
  MaxFaults = 2
  MaxStopping = 1
INVARIANTS
  PromptKeepsClaim
  FailedIffExhausted
  SyncedWasDelivered
  StoppedIsQuiet
PROPERTIES
  ExportsAsPromised
  EveryExportSettles
CHECK_DEADLOCK FALSE
