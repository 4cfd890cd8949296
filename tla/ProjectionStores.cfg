SPECIFICATION MCSpec
SYMMETRY MCSymmetry
CONSTANTS
  p1 = p1
  p2 = p2
  k1 = k1
  k2 = k2
  t1 = t1
  t2 = t2
  free = free
  Proc = {p1, p2}
  Free = free
  Key = {k1, k2}
  Tag = {t1, t2}
  PathOf <- MCPathOf
  MaxCalls = 3
  MaxCrashes = 1
  Methods = {"save", "delete", "query", "clear", "rebuild", "metadata", "tags"}
INVARIANTS
  TagListsExact
  LookUpsAreRight
  TagFilesFollowStates
  QueriesAreRight
  EntriesAreKept
