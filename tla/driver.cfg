SPECIFICATION Spec
CONSTANTS
  Calls = {c1, c2}
  Reqs = {q1, q2}
  Msgs = {m1, m2, m3, m4}
  SendQueueLen = 1
  RecvQueueLen = 1
  MaxXid = 2
  nil = nil
SYMMETRY Symmetry
CONSTRAINT TrafficBound
INVARIANTS
  OneAnswer
  NoOrphanEntry
  MessageOwnership
  OneRoutineAtATime
  RequestAnswered
