CONSTANTS
  r1 = r1  r2 = r2  d1 = d1  m1 = m1
  Req <- TwoRequests
  Device <- OneDevice
  Mapa <- OneMapa
  Statuses <- UpDown
  Nulls <- None
  Overlap = FALSE
  Faults = FALSE
  ClockStep = 1
  MaxClock = 5
  MaxCopies = 1
SPECIFICATION LogSpec
SYMMETRY Symmetric
PROPERTY NoLogWithoutChange
