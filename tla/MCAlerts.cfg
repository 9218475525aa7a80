CONSTANTS
  r1 = r1  r2 = r2  a1 = a1  d1 = d1  d2 = d2  c1 = c1
  Req <- TwoRequests
  Alert <- OneAlert
  Device <- TwoDevices
  Channel <- OneChannel
  Body <- Bodies
  Faults = TRUE
  MaxClock = 4
SPECIFICATION Spec
SYMMETRY Symmetric
INVARIANTS
  AlertsTypeOK
  LogFollowsAlert
  AlertLogChain
  EveryLogHasItsAlert
PROPERTIES
  DevicesWereActive
  RemovedStaysRemoved
