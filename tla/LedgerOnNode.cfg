SPECIFICATION LedgerFairSpec
CONSTANTS
  p1 = p1
  p2 = p2
  p3 = p3
  Proc = {p1, p2}
  Threshold = 1
  FastHolders = TRUE
  MaxAppends = 5
  MaxDeaths = 1
  BigEvents <- MCBigEvents
  InitializeFirst = TRUE
INVARIANTS
  AckedEventsStored
  FilesWithoutGap
PROPERTIES
  ImplementsStreamLock
  PositionsGrow
  WaitersAdvance
