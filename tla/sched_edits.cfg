CONSTANTS
  i1 = i1
  i2 = i2
  h1 = h1
  t1 = t1
  t2 = t2
  p1 = p1
  hourly = hourly
  once = once
  NoTask = NoTask
  Instances = {i1}
  Handlers = {h1}
  Projects = {p1}
  Tasks = {t1, t2}
  ProjectOf <- OneProject
  Schedules = {hourly, once}
  Kind <- MCKind
  Occ <- MCOcc
  Slack = 1
  GlobalLimit = 2
  ProjectLimit = 1
  InitialDisk <- MixedTasks
  MaxLate = 9
  MaxQueueWait = 9
  MaxNow = 2
  Budget <- EditEvents
SPECIFICATION Spec
INVARIANTS
  SlotsMatchRuns
  QueuedKeysHaveEntries
  ScheduledWithinLimits
  NoTaskForgotten
CHECK_DEADLOCK FALSE
