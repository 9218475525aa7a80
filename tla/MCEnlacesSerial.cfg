CONSTANTS
  r1 = r1  r2 = r2  l1 = l1  l2 = l2
  e1 = e1  e2 = e2  e3 = e3
  Req <- TwoRequests
  Enlace <- TwoEnlaces
  DestinationEnlace <- ThreeEnds
  Statuses <- Up
  Nulls <- AnyNull
  MaxEnds = 2
  Overlap = FALSE
  Faults = TRUE
  ClockStep = 1
  MaxClock = 4
SPECIFICATION Spec
SYMMETRY Symmetric
INVARIANTS
  EnlacesTypeOK
  NoOrphanEnds
  EndsAreActive
PROPERTY LinkStampFollowsStatus
