SPECIFICATION FairSpec
CONSTANTS
  Calls = {c1, c2, c3, c4}
  MaxConcurrency = 2
INVARIANTS
  TypeOK
  BoundedThreads
  SlotsConserved
  NoLostWakeUp
PROPERTY
  WaiterServed
