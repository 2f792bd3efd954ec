SPECIFICATION Spec
CONSTANTS
  NRanks = 2
  Universe = 3
  None = None
  MaxRefusals = 1
  MaxBarriers = 2
  NameLen = 16
  KeyLen = 16
  Lengths = {200, 300, 1100}
INVARIANT SuccessIsReal
CHECK_DEADLOCK FALSE
