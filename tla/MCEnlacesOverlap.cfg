CONSTANTS
  r1 = r1  r2 = r2  l1 = l1  l2 = l2
  e1 = e1  e2 = e2  e3 = e3
  Req <- TwoRequests
  Enlace <- OneEnlace
  DestinationEnlace <- ThreeEnds
  Statuses <- NoStatus
  Nulls <- EndsOnly
  MaxEnds = 1
  Overlap = TRUE
  Faults = TRUE
  ClockStep = 0
  MaxClock = 0
SPECIFICATION FairSpec
INVARIANT EndsAreActive
PROPERTY EveryLinkRequestEnds
