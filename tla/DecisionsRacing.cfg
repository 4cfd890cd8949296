SPECIFICATION DecisionsFairSpec
CONSTANTS
  p1 = p1
  p2 = p2
  p3 = p3
  free = free
  orphan = orphan
  Proc = {p1, p2, p3}
  Free = free
  Orphan = orphan
  Type <- MCType
  Tag <- MCTag
  IndexFile <- MCIndexFile
  TypeFile <- MCTypeFile
  TagFile <- MCTagFile
  ParallelReadMin = 10
  Calls = {}
  MaxCalls = 20
  FaultKinds = {"event_read"}
  MaxFaults = 1
  NestedLockNames = TRUE
  BreaksStaleLocks = FALSE
  FastHolders = TRUE
  QueriesOf <- RacingQueriesOf
  BatchOf <- RacingBatchOf
  Capacity = 3
  Timed = {p2}
  Bound = {p3}
  MaxRetries = 2
  UsizeModulus = 8
INVARIANTS
  NoStaleDecision
  FailureMeansContention
  CapacityRespected
  HarnessAgrees
  DeadlineKept
PROPERTIES
  EveryDecisionEnds
