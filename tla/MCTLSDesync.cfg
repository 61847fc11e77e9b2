CONSTANTS
  MaxLen = 6
  Sizes = {0, 1, 2, 3}
  MaskBits = 4
  Plans <- MCPlans
  FakePacket <- MCFake
  Modes = {"sni", "random", "chunk", "first-byte", "custom", "none"}
  MaxFakes = 1
  MaxNoise = 1
SPECIFICATION DesyncSpec
INVARIANTS
  SegmentsAreMessage
  SentWholeAndRestored
CHECK_DEADLOCK FALSE
