CONSTANTS
  Threads = {t1, t2}
  Contexts = {c1, c2}
  Keys = {k1, k2}
  FileSuffixes = {s1}
  MaxCalls = 3
  None = None
  Default = Default
SPECIFICATION Spec
INVARIANTS
  IInv
  HandlersSeeTheirCall
  OnlyFetchesArePlain
  FetchesOwnFile
  NothingLeftBehind
PROPERTY EveryCallEnds
CHECK_DEADLOCK FALSE
