CONSTANTS
  Writer = {w1, w2}
  QueueCap = 2
  MaxPackets = 4
SPECIFICATION FairPumpSpec
INVARIANTS
  NoLostWakeup
PROPERTIES
  PumpsDrainAndEnd
CHECK_DEADLOCK FALSE
