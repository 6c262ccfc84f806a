SPECIFICATION FairSpec
CONSTANTS
  Capacity = 4
  DeviceBatch = 2
  CopyWarps = 2
  MaxTasks = 5
  AtomicCapacity = 2
  AtomicTasks = 3
  WarpCapacity = 2
  WarpTasks = 3
  MetaBatch = 2
  Depth = 2
  ClaimBatch = 2
INVARIANTS
  CompletionsKept
  LanesConsistent
  ClaimsDisjoint
  TasksOnce
PROPERTIES
  ReportsInOrder
  LifecycleAdmits
  Settles
