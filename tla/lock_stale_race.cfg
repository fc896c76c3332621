CONSTANTS
  p1 = p1
  p2 = p2
  p3 = p3
  w1 = w1
  w2 = w2
  w3 = w3
  w4 = w4
  Procs <- ThreeProcs
  Writers = {w1, w2, w3}
  ProcOf <- OneEach
  MaxTries = 2
  MaxCrashes = 1
  MaxStampFailures = 0
  SlowHolders = FALSE
SPECIFICATION Spec
INVARIANT NoLostUpdate
CHECK_DEADLOCK FALSE
