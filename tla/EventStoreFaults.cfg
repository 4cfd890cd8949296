SPECIFICATION FairSpec
CONSTANTS
  p1 = p1
  p2 = p2
  p3 = p3
  free = free
  orphan = orphan
  Proc = {p1, p2}
  Free = free
  Orphan = orphan
  Type <- MCType
  Tag <- MCTag
  IndexFile <- MCIndexFile
  TypeFile <- MCTypeFile
  TagFile <- MCTagFile
  ParallelReadMin = 10
  Calls <- FaultCalls
  MaxCalls = 3
  FaultKinds = {"index_read", "event_read", "event_write", "index_write", "index_lock", "crash"}
  MaxFaults = 2
  NestedLockNames = TRUE
  BreaksStaleLocks = TRUE
  FastHolders = TRUE
INVARIANTS
  GapFree
  SequenceReserved
  IndexSound
PROPERTIES
  EventsImmutable
  EveryCallEnds
