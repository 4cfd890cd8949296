SPECIFICATION RebuilderFairSpec
CONSTANTS
  user = user
  task1 = task1
  task2 = task2
  orders = orders
  stock = stock
  key1 = key1
  nokey = nokey
  free = free
  orphan = orphan
  Proc = {user, task1, task2}
  Task = {task1, task2}
  TaskOf <- MCTaskOf
  Free = free
  Orphan = orphan
  Keyless = nokey
  Key = {key1}
  Proj = {orders, stock}
  Related = {stock}
  Kinds <- MCKinds
  MaxEvents = 1
  MaxRuns = 0
  MaxAll = 2
  FaultKinds = {"checkpoint_write", "checkpoint_read", "read", "load", "save", "crash"}
  MaxFaults = 1
  Serialised = TRUE
  BreaksStaleLocks = TRUE
  FastHolders = TRUE
PROPERTIES
  CallsEnd
