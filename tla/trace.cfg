SPECIFICATION Spec
CONSTANTS
  Peers = {a, b}
  Xids = {1}
  Procs = {f, g}
  Catalog = {f}
  none = none
PROPERTIES
  ReplyTypesCached
CHECK_DEADLOCK FALSE
