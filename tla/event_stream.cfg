SPECIFICATION FairSpec
CONSTANTS
  page = page
  Pages = {page}
  MaxEvents = 3
  ReplayLimit = 2
  ResyncLimit = 2
  MaxBreaks = 2
  MaxDrops = 2
  MaxRebinds = 1
INVARIANTS
  StreamTypeOK
  InOrder
  NoSilentGap
  MissedIsRefetched
PROPERTIES
  CatchesUp
CHECK_DEADLOCK FALSE
