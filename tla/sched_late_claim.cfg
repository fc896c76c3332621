CONSTANTS
  i1 = i1
  i2 = i2
  h1 = h1
  t1 = t1
  t2 = t2
  p1 = p1
  hourly = hourly
  once = once
  NoTask = NoTask
  Instances = {i1, i2}
  Handlers = {h1}
  Projects = {p1}
  Tasks = {t1, t2}
  ProjectOf <- OneProject
  Schedules = {hourly}
  Kind <- MCKind
  Occ <- MCOcc
  Slack = 1
  GlobalLimit = 1
  ProjectLimit = 1
  InitialDisk <- HourlyTasks
  MaxLate = 0
  MaxQueueWait = 9
  MaxNow = 4
  Budget <- NoEvents
SYMMETRY ProcessSymmetry
SPECIFICATION Spec
INVARIANT AtMostOnce
CHECK_DEADLOCK FALSE
