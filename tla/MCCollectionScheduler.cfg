SPECIFICATION Spec
CONSTANTS
  Crons = {1, 2}
  Profiles = {"p", "q"}
  Queries <- MCQueries
  Fallback <- MCFallback
  MaxQueries = 2
  Batch = 1
  Interval = 3
  Windows = 3
  MaxAge = 1
  KeepResult = 2
  MaxFaults = 1
INVARIANT TypeOK
PROPERTIES Cadence EveryTargetCollected
