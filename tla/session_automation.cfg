SPECIFICATION Spec
CONSTANTS
  MaxLag = 2
  MaxLog = 5
  MaxGoals = 2
  Acts <- MCAllActs
  MaxActs = 1
  MaxAttempts = 1
  MaxBusyRechecks = 1
  MaxAutoTurns = 1
  BlockedLimit = 2
  FailLimit = 2
INVARIANTS
  AutomationTypeOK
  RecoveryBounded
  NoDoubleRecovery
  NoRunaway
  NoBlindLoop
  AbortRespected
  GoalNotForgotten
CHECK_DEADLOCK FALSE
