SPECIFICATION FairSpec
CONSTANTS
  Searches = {s1, s2}
  Executions = {e1, e2}
  MaxTries = 3
  AmbiguousEnqueue = {s1}
  Redelivery = {s1}
  None = None
  Unset = Unset
  CandidateLimit = 4
  Jobs <- MCJobs
  Candidates <- MCCandidates
  Wishes <- MCWishes
  Today = 20
  Scale = 2
CHECK_DEADLOCK FALSE
INVARIANTS
  TypeOK
  ResultsMeanCompleted
  SearchFindsBest
PROPERTIES
  TerminalIsFinal
  AcceptedEnds
