CONSTANTS
  TagLen = 2
  BlockLen = 2
  MaxLen = 7
  Amounts = {0, 1, 2, 3, 7}
SPECIFICATION Spec
PROPERTY FinalizedOnlyAtEnd
CHECK_DEADLOCK FALSE
