SPECIFICATION Spec
CONSTANTS
  MaxLag = 2
  MaxLog = 5
  MaxGoals = 2
  Acts <- MCEdits
  MaxActs = 1
  MaxAttempts = 1
  MaxBusyRechecks = 1
  MaxAutoTurns = 1
  BlockedLimit = 2
  FailLimit = 2
INVARIANT StopsMeanStop
CHECK_DEADLOCK FALSE
