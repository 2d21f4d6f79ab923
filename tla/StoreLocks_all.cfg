SPECIFICATION FairSpec
CONSTANTS
  t1 = t1
  t2 = t2
  t3 = t3
  None = None
  Threads <- ThreeThreads
  Served <- Nestings
INVARIANTS
  NoDeadlock
PROPERTIES
  EveryCallReturns
