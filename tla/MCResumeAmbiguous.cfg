SPECIFICATION Spec
CONSTANTS
  r1 = r1  r2 = r2  e1 = e1  e2 = e2  w1 = w1  w2 = w2
  alice = alice  bob = bob  None = None
  Requests <- TwoRequests
  Existing = {e1}
  Reconcilers = {w1}
  Owner <- OneOwner
  BatchLimit = 1
  SlowRequests = FALSE
  AmbiguousUpload = TRUE
CHECK_DEADLOCK FALSE
INVARIANT
  EveryObjectTracked
