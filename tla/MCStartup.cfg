CONSTANTS
  Bad = Bad
  Invalid = Invalid
  Missing = Missing
  Unreadable = Unreadable
  NoConfig = NoConfig
  NoRule = NoRule
  FileLines <- MCFileLines
  Inputs <- MCInputs
  Label = {"a"}
  OtherLabel = {"x"}
  MaxLen = 3
  AddrBits = 2
  Spelling = {"lower", "upper"}
SPECIFICATION StartSpec
INVARIANTS
  SearchFindsTheMostSpecific
  PriorityWins
  LayersInOrder
  ConfigIsComplete
CHECK_DEADLOCK FALSE
