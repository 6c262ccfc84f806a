SPECIFICATION FairSpec
CONSTANTS
  Capacity = 4
  MetaBatch = 2
  Depth = 2
  CopyWarps = 2
  MaxTasks = 9
INVARIANTS
  DrainsBeforeExit
PROPERTIES
  ImplementsQueue
  DeliversAndStops
