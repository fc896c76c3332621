SPECIFICATION Spec
CONSTANTS
  page = page
  Pages = {page}
  MaxEvents = 3
  ReplayLimit = 2
  ResyncLimit = 2
  MaxBreaks = 2
  MaxDrops = 2
  MaxRebinds = 1
INVARIANT GapAnnounced
CHECK_DEADLOCK FALSE
