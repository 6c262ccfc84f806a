SPECIFICATION Spec
CONSTANTS
  WrKinds <- AllKinds
  MaxPayloads = 2
  MaxWrs = 2
  MaxReceives = 2
  SqCapacity = 2
  CqCapacity = 1
  RequestCapacity = 1
  ResponseCapacity = 1
  PendingCapacity = 2
  BackendCapacity = 2
  MaxDuplicates = 1
INVARIANTS SendCompletionsInOrder
