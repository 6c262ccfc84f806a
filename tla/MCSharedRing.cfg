SPECIFICATION Spec
CONSTANTS
  Capacity = 3
  MaxPosition = 7
  Values = {v1, v2}
  NoValue = NoValue
SYMMETRY ValueSymmetry
INVARIANTS SlotsDisjoint CursorsAgree
PROPERTIES PublishedStable CachingInvisible ImplementsFifo
