SPECIFICATION FairSpec
CONSTANTS
  t1 = t1
  t2 = t2
  t3 = t3
  e1 = e1
  e2 = e2
  nil = nil
  Threads <- MCThreads
  Errors <- MCErrors
INVARIANTS
  NoRaceOnErr
  ClosedOnce
PROPERTIES
  ImplementsAtomic
  EveryoneReturns
