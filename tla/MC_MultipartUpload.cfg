CONSTANTS
  Threads = {t1, t2}
  Uploads = {u1}
  MaxPart = 3
SPECIFICATION Spec
INVARIANTS
  IInv
  OneCiphertextPerPart
  AckedPartStaysStored
  CompletedInCipherOrder
  FullListDecrypts
PROPERTIES
  DroppedPipelineIsDead
  ImplementsSealedUpload
SYMMETRY ThreadSymmetry
