SPECIFICATION FairSpec
CONSTANTS
  Capacity = 4
  HostBatch = 2
  MaxTasks = 5
INVARIANTS
  ExactlyOnce
  HostConsistent
  FlushBeforePublish
PROPERTIES
  StopLosesNothing
  AcceptedCompletes
