SPECIFICATION Spec
CONSTANTS
  j1 = j1  j2 = j2  j3 = j3  t1 = t1  t2 = t2  None = None
  Jobs = {j1, j2, j3}
  Targets = {t1, t2}
  TargetOf <- TwoAndOne
  Registered = {t1}
  MaxTries = 2
  TaskTimeout = 2
  Lag = 1
  LockTtl = 4
CHECK_DEADLOCK FALSE
INVARIANT NonOverlap
