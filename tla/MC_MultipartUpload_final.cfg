CONSTANTS
  Threads = {t1, t2}
  Uploads = {u1}
  MaxPart = 2
SPECIFICATION Spec
INVARIANT CompleteOnlyAfterFinalUploaded
