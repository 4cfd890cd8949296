SPECIFICATION LedgerSpec
CONSTANTS
  p1 = p1
  p2 = p2
  p3 = p3
  Proc = {p1, p2, p3}
  Threshold = 1
  FastHolders = TRUE
  MaxAppends = 3
  MaxDeaths = 1
  BigEvents <- MCBigEvents
  InitializeFirst = TRUE
INVARIANTS
  MutualExclusion
