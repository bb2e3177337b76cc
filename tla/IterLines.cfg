CONSTANT MaxLen = 5
SPECIFICATION Spec
INVARIANTS
  YieldsLinesOnly
  YieldsAllLines
  IInv
CHECK_DEADLOCK FALSE
