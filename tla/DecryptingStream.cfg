CONSTANTS
  TagLen = 2
  BlockLen = 3
  MaxLen = 7
  Amounts = {0, 1, 2, 3, 7}
SPECIFICATION Spec
INVARIANTS
  IInv
  OnlyPlaintextReleased
  CleanEndIsWhole
  ReleasedIsAuthentic
PROPERTIES
  EveryReadReturns
CHECK_DEADLOCK FALSE
