\* One of two instances stalls, and both deliver the same export.
SPECIFICATION Spec
CONSTANTS
  c1 = c1
  i1 = i1
  i2 = i2
  k1 = k1
  k2 = k2
  k3 = k3
  k4 = k4
  Nobody = Nobody
  Contents <- OneContent
  Instances <- TwoInstances
  Prompt <- OneInstance
  Tokens <- FourTokens
  Lease = 3
  MaxAttempts = 2
  MaxFaults = 2
  MaxStopping = 1
INVARIANTS
  NeverTwice
CHECK_DEADLOCK FALSE
