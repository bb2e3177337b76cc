CONSTANTS
  Keys = {k1, k2}
  Callers = {c1, c2}
  Versioned = TRUE
  MaxWrites = 1
  MaxFailures = 1
SPECIFICATION Spec
INVARIANTS
  TypeOK
  ReturnedMeansDeleted
  FilesFollowObjects
  DeletesInv
PROPERTY RetriedDeleteCompletes
CHECK_DEADLOCK FALSE
