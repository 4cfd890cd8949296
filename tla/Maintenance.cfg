SPECIFICATION MaintenanceSpec
CONSTANTS
  p1 = p1
  p2 = p2
  p3 = p3
  free = free
  orphan = orphan
  Proc = {p1, p2}
  Free = free
  Orphan = orphan
  Type <- MCType
  Tag <- MCKeyedTag
  IndexFile <- MCKeyedFile
  TypeFile <- MCTypeFile
  TagFile <- MCKeyedTagFile
  ParallelReadMin = 10
  Calls <- MaintenanceCalls
  MaxCalls = 4
  FaultKinds = {"crash", "event_write", "tag_index", "delete_dir"}
  MaxFaults = 1
  NestedLockNames = TRUE
  BreaksStaleLocks = TRUE
  FastHolders = TRUE
  KeyOf <- MCKeyOf
  TaggedType = "Opened"
  Factory <- MCFactory
  LookUps <- MCLookUps
  DeletesAlone = FALSE
INVARIANTS
  AddTagsComplete
  IndexSoundAtRest
  TallyIsRight
  TagLookUpsComplete
PROPERTIES
  TagsOnlyGrow
