CONSTANTS
  Mode <- MCMode
  Host <- MCHost
  Turn <- MCTurn
  First <- MCFirst
  Last <- MCLast
  NoApply <- MCNoApply
  Exclusive <- MCExclusive
  Volatile <- MCVolatile
  Flaky <- MCFlaky
  Foreign <- MCForeign
  ServerOf <- MCServerOf
  FirstDelay = 5
  MaxDelay = 7
SPECIFICATION ProgramSpec
INVARIANTS
  EffectsAreRecorded
  DiscoverySeesCleanSystem
  BuiltInOrder
  CleanExit
  ServesUntilStopped
PROPERTIES
  StopEndsProgram
CHECK_DEADLOCK FALSE
