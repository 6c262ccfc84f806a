SPECIFICATION Spec
CONSTANTS
  Capacity = 2
  DeviceBatch = 2
  CopyWarps = 2
  MaxTasks = 4

INVARIANT EveryTaskOnce
