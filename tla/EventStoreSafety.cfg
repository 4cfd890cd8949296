SPECIFICATION Spec
CONSTANTS
  p1 = p1
  p2 = p2
  p3 = p3
  free = free
  orphan = orphan
  Proc = {p1, p2, p3}
  Free = free
  Orphan = orphan
  Type <- MCType
  Tag <- MCTag
  IndexFile <- MCIndexFile
  TypeFile <- MCTypeFile
  TagFile <- CollidingTagFile
  ParallelReadMin = 10
  Calls <- SafetyCalls
  MaxCalls = 3
  FaultKinds = {}
  MaxFaults = 0
  NestedLockNames = TRUE
  BreaksStaleLocks = FALSE
  FastHolders = TRUE
SYMMETRY MCSymmetry
INVARIANTS
  TypeOK
  IndexedWhenUnlocked
  ConditionHonoured
  NoSpuriousRejection
  ReadsMatch
  PrefixReads
  FreshReads
  LimitedReadsFind
PROPERTIES
  ImplementsDcbLog
