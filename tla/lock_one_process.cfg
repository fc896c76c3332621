CONSTANTS
  p1 = p1
  p2 = p2
  p3 = p3
  w1 = w1
  w2 = w2
  w3 = w3
  w4 = w4
  Procs = {p1}
  Writers = {w1, w2, w3, w4}
  ProcOf <- AllInOne
  MaxTries = 2
  MaxCrashes = 1
  MaxStampFailures = 2
  SlowHolders = TRUE
SPECIFICATION FairSpec
INVARIANTS
  NoLostUpdate
PROPERTIES
  EveryRequestSettles
CHECK_DEADLOCK FALSE
