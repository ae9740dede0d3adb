SPECIFICATION Spec
CONSTANTS
  r1 = r1  r2 = r2  e1 = e1  e2 = e2  w1 = w1  w2 = w2
  alice = alice  bob = bob  None = None
  Requests <- TwoRequests
  Existing = {e1, e2}
  Reconcilers = {w1}
  Owner <- TwoOwners
  BatchLimit = 1
  SlowRequests = TRUE
  AmbiguousUpload = TRUE
SYMMETRY RequestSymmetry
CHECK_DEADLOCK FALSE
INVARIANTS
  OneSuccessor
  AcknowledgedErasure
  FailureIsInvisible
PROPERTY
  OwnerIsolation
