SPECIFICATION Spec
CONSTANTS
  Searches = {s1}
  Executions = {e1, e2}
  MaxTries = 3
  AmbiguousEnqueue = {s1}
  Redelivery = {}
  None = None
CHECK_DEADLOCK FALSE
INVARIANT
  FailedHasNoResults
