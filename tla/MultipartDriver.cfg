CONSTANTS
  Threads = {t1, t2}
  Uploads = {u1, u2}
  MaxPart = 3
  MaxChunks = 3
SPECIFICATION DSpec
CHECK_DEADLOCK FALSE
INVARIANTS
  DTypeOK
  ObjectIsWhole
  EndedIsForgotten
  OriginalErrorMeansAborted
  FailsOnlyForCause
  DriverInv
PROPERTIES
  EveryCallEnds
