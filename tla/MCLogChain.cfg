CONSTANTS
  r1 = r1  r2 = r2  d1 = d1  m1 = m1
  Req <- OneRequest
  Device <- OneDevice
  Mapa <- OneMapa
  Statuses <- AllStatuses
  Nulls <- StatusOnly
  Overlap = FALSE
  Faults = TRUE
  ClockStep = 1
  MaxClock = 5
  MaxCopies = 1
SPECIFICATION LogSpec
INVARIANTS
  LogTypeOK
  LogFollowsStatus
  LogChain
PROPERTY StampFollowsStatus
