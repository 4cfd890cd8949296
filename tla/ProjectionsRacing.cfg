SPECIFICATION RebuilderSpec
CONSTANTS
  user = user
  task1 = task1
  task2 = task2
  orders = orders
  stock = stock
  key1 = key1
  nokey = nokey
  free = free
  orphan = orphan
  Proc = {user, task1}
  Task = {task1}
  TaskOf <- MCTaskOf
  Free = free
  Orphan = orphan
  Keyless = nokey
  Key = {key1}
  Proj = {orders}
  Related = {orders}
  Kinds <- MCKindsOfOne
  MaxEvents = 3
  MaxRuns = 1
  MaxAll = 1
  FaultKinds = {"checkpoint_write", "checkpoint_read", "read", "load", "save", "crash"}
  MaxFaults = 1
  Serialised = TRUE
  BreaksStaleLocks = TRUE
  FastHolders = TRUE
INVARIANTS
  StatesFollowCheckpoint
  RebuildRestores
  NoEventLost
PROPERTIES
  RebuildAllIsHonest
