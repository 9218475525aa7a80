CONSTANTS
  r1 = r1  r2 = r2  m1 = m1  m2 = m2  k1 = k1  l1 = l1  t1 = t1
  Req <- TwoRequests
  Mapa <- TwoMapas
  Clasification <- OneClass
  Label <- OneLabel
  Ticket <- OneTicket
  Body <- Bodies
  Faults = TRUE
SPECIFICATION Spec
SYMMETRY Symmetric
INVARIANT SubmapsCounted
