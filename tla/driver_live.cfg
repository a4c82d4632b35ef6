SPECIFICATION FairSpec
CONSTANTS
  Calls = {c1}
  Reqs = {q1}
  Msgs = {m1, m2, m3}
  SendQueueLen = 1
  RecvQueueLen = 1
  MaxXid = 1
  nil = nil
PROPERTIES
  ImplementsCalls
  ShutdownCompletes
  ContextEndsCall
  ReplyReturns
