CONSTANTS
  r1 = r1  r2 = r2  d1 = d1  d2 = d2  m1 = m1  m2 = m2
  Req <- TwoRequests
  Device <- TwoDevices
  Mapa <- TwoMapas
  Statuses <- DownOnly
  Nulls <- MapsOnly
  Overlap = FALSE
  Faults = TRUE
  ClockStep = 0
  MaxClock = 0
  MaxCopies = 1
SPECIFICATION Spec
SYMMETRY Symmetric
INVARIANTS
  TypeOK
  MembershipExact
  AmountExact
PROPERTY ImplementsMapRoster
