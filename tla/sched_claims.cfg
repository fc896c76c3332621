CONSTANTS
  i1 = i1
  i2 = i2
  h1 = h1
  t1 = t1
  t2 = t2
  p1 = p1
  hourly = hourly
  once = once
  NoTask = NoTask
  Instances = {i1, i2}
  Handlers = {h1}
  Projects = {p1}
  Tasks = {t1}
  ProjectOf <- OneProject
  Schedules = {hourly}
  Kind <- MCKind
  Occ <- MCOcc
  Slack = 1
  GlobalLimit = 2
  ProjectLimit = 2
  InitialDisk <- HourlyTasks
  MaxLate = 2
  MaxQueueWait = 2
  MaxNow = 4
  Budget <- ClaimEvents
SPECIFICATION Spec
INVARIANTS
  TypeOK
  AtMostOnce
PROPERTIES
  LastForNeverGoesBack
  RefinesDispatch
CHECK_DEADLOCK FALSE
SYMMETRY ProcessSymmetry
