CONSTANTS
  MaxChunks = 1
  Idle = TRUE
  Gonet = TRUE
  HandlerCloses = {"client"}
  Cancellable = TRUE
  ReportsBlocked = TRUE
SPECIFICATION Spec
INVARIANTS
  VerdictIsTrue
  DropsForCause
PROPERTIES
  OneEndsAllEnd
CHECK_DEADLOCK FALSE
