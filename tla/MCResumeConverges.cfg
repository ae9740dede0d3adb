SPECIFICATION FairSpec
CONSTANTS
  r1 = r1  r2 = r2  e1 = e1  e2 = e2  w1 = w1  w2 = w2
  alice = alice  bob = bob  None = None
  Requests <- TwoRequests
  Existing = {e1}
  Reconcilers = {w1, w2}
  Owner <- OneOwner
  BatchLimit = 1
  SlowRequests = FALSE
  AmbiguousUpload = FALSE
CHECK_DEADLOCK FALSE
INVARIANTS
  TypeOK
  EveryObjectTracked
  VisibleResumeStored
PROPERTIES
  ImplementsLedger
  StorageConverges
