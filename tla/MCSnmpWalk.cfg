CONSTANTS
  ifDescr = ifDescr  ifMtu = ifMtu  ifAlias = ifAlias
  Oid <- ThreeOids
  Row <- TwoRows
  MaxRepetitions = 2
CHECK_DEADLOCK FALSE
SPECIFICATION FairSpec
INVARIANTS
  SnmpTypeOK
  ResultIsComplete
  NoWalkAfterTheEnd
PROPERTY EveryQueryEnds
