SPECIFICATION DecisionsSpec
CONSTANTS
  p1 = p1
  p2 = p2
  p3 = p3
  free = free
  orphan = orphan
  Proc = {p1, p2, p3}
  Free = free
  Orphan = orphan
  Type <- MCType
  Tag <- MCTag
  IndexFile <- MCIndexFile
  TypeFile <- MCTypeFile
  TagFile <- MCTagFile
  ParallelReadMin = 10
  Calls = {}
  MaxCalls = 20
  FaultKinds = {}
  MaxFaults = 0
  NestedLockNames = TRUE
  BreaksStaleLocks = FALSE
  FastHolders = TRUE
  QueriesOf <- TypesQueriesOf
  BatchOf <- TypesBatchOf
  Timed = {}
  Capacity = 2
  Bound = {}
  MaxRetries = 2
  UsizeModulus = 8
INVARIANTS
  CapacityRespected
