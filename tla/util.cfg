SPECIFICATION UtilSpec
CONSTANTS
  t1 = t1
  t2 = t2
  a1 = a1
  h1 = h1
  h2 = h2
  nil = nil
  Threads <- MCThreads
  ArenaObjects <- MCArena
  HeapObjects <- MCHeap
  Latencies = {1, 3}
  MaxUses = 3
  Calls = {c1}
  Progs = {p1, p2}
  Versions <- MCVersions
  Procs = {f}
SYMMETRY Symmetry
INVARIANTS
  OwnContents
  NothingLost
  SummaryConsistent
  StatusTruthful
  NegotiationSettles
PROPERTIES
  ImplementsPool
