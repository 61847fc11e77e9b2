CONSTANTS
  FD = {3, 4}
  Buffer = 2
  MaxQueue = 1
  None = None
SPECIFICATION FairDiscoverySpec
INVARIANTS
  StolenAreFew
PROPERTIES
  DiscoveryEnds
CHECK_DEADLOCK FALSE
