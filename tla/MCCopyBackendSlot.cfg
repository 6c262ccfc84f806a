SPECIFICATION Spec
CONSTANTS
  Capacity = 4
  HostBatch = 2
  MaxTasks = 5
PROPERTY RefusedOnlyWhenFull
