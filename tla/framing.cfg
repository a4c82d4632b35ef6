SPECIFICATION FairSpec
CONSTANTS
  MaxSegment = 2
  MaxMsgSize = 4
  Sizes = {0, 2, 3, 4, 5}
  MaxMsgs = 3
INVARIANTS
  DeliveredIntact
  MemoryBounded
  RefusesOnlyTooLong
PROPERTIES
  MessagesArrive
CHECK_DEADLOCK FALSE
