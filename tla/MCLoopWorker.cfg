SPECIFICATION FairSpec
CONSTANTS
  WrKinds <- AllKinds
  MaxPayloads = 2
  MaxWrs = 2
  MaxReceives = 2
  SqCapacity = 2
  CqCapacity = 1
  RequestCapacity = 2
  ResponseCapacity = 1
  PendingCapacity = 2
  BackendCapacity = 1
  MaxDuplicates = 1
INVARIANTS
  SuccessIsVisible
  SuccessProvesEarlier
  CompletedOnce
  NothingLost
PROPERTIES
  NoRepeatedCopy
  EventuallyFinished
