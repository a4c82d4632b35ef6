SPECIFICATION Spec
CONSTANTS
  c1 = c1
  c2 = c2
  c3 = c3
  s1 = s1
  s2 = s2
  o1 = o1
  o2 = o2
  o3 = o3
  nil = nil
  Calls <- MCCalls
  Servers <- MCServers
  Objects <- MCObjects
  XidSpace = 2
SYMMETRY Symm
CHECK_DEADLOCK FALSE
INVARIANTS
  ObjectOwnership
  TableEntriesMatch
  CallbackAtMostOnce
  NoCallLost
  ReplyMatchesCall
PROPERTIES
  NoCallbackAfterDelete
  XidReusedLast
