CONSTANTS
  Timeout = 10
  Second = 1
  MaxDelay = 1
  MaxTime = 24
SPECIFICATION IdleSpec
INVARIANTS
  IdleSessionEnds
PROPERTIES
  EndsOnlyWhenIdle
CHECK_DEADLOCK FALSE
