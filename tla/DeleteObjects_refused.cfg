CONSTANTS
  Keys = {k1}
  Callers = {c1}
  Versioned = FALSE
  MaxWrites = 2
  MaxFailures = 1
SPECIFICATION Spec
INVARIANT OnlyAssociatedFiles
CHECK_DEADLOCK FALSE
