SPECIFICATION Spec
CONSTANTS
  p1 = p1
  p2 = p2
  p3 = p3
  free = free
  orphan = orphan
  Proc = {p1, p2}
  Free = free
  Orphan = orphan
  Type <- MCType
  Tag <- MCTag
  IndexFile <- MCIndexFile
  TypeFile <- MCTypeFile
  TagFile <- MCTagFile
  ParallelReadMin = 10
  Calls <- ConditionCalls
  MaxCalls = 2
  FaultKinds = {}
  MaxFaults = 0
  NestedLockNames = FALSE
  BreaksStaleLocks = TRUE
  FastHolders = TRUE
SYMMETRY MCSymmetry
INVARIANTS
  ErrorsAreFaults
