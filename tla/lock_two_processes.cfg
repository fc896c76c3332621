CONSTANTS
  p1 = p1
  p2 = p2
  p3 = p3
  w1 = w1
  w2 = w2
  w3 = w3
  w4 = w4
  Procs <- TwoProcs
  Writers = {w1, w2, w3, w4}
  ProcOf <- TwoByTwo
  MaxTries = 2
  MaxCrashes = 1
  MaxStampFailures = 0
  SlowHolders = FALSE
SPECIFICATION FairSpec
INVARIANTS
  TypeOK
  MutualExclusion
  LockNotLeaked
PROPERTIES
  ReleaseRemovesOwnLock
  EveryRequestSettles
  RefinesStore
CHECK_DEADLOCK FALSE
