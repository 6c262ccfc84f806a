SPECIFICATION FairSpec
CONSTANTS
  c1 = c1
  c2 = c2
  d1 = d1
  d2 = d2
  Clients = {c1, c2}
  Daemons = {d1, d2}
  NoFile = NoFile
  Settings <- MCSettings
  MaxHeld = 1
INVARIANTS CallsAgree PathOwned
PROPERTY CallsSettle
CHECK_DEADLOCK FALSE
