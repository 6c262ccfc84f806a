SPECIFICATION MCSpec
CONSTANTS
  Kinds = {"context", "pd", "mr", "cq", "qp"}
  MaxSlots = 1
  MaxGeneration = 2
  KeyLimit = 2
  QpNumLimit = 3
  Mappings = {1}
  MaxHandles = 4
  MaxEpochs = 2
  MaxBoots = 2
CHECK_DEADLOCK FALSE
INVARIANTS
  NeverAnotherObject
  HandlesBacked
  NothingUnowned
PROPERTIES
  CallsReturn
