SPECIFICATION MCSpec
CONSTANTS
  a = a
  b = b
  Sessions = {a, b}
  MaxSlots = 2
  MaxGeneration = 2
  KeyLimit = 6
  QpNumLimit = 4
  Mappings = {1, 2, 3}
  MaxCreates = 6
  PairCreates = 1
SYMMETRY Symmetry
CHECK_DEADLOCK FALSE
INVARIANTS
  NoOrphans
  CountsExact
  LookupsExact
  MappingsAccounted
  PeersStable
PROPERTIES
  IdentitiesFresh
  SessionsIsolated
