SPECIFICATION Spec
CONSTANTS
  NRanks = 2
  Universe = 3
  None = None
  MaxRefusals = 1
  MaxBarriers = 2
  NameLen = 16
  KeyLen = 16
  Lengths = {200, 300, 1100}
INVARIANTS TypeOK OwnAnswers BarrierHolds NamesVisible CallFailuresExplained
PROPERTY CallsReturn
CHECK_DEADLOCK FALSE
