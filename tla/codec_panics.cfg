SPECIFICATION XdrSpec
CONSTANTS
  Types <- MCTypes
  Values <- MCValues
  Bytes <- MCBytes
INVARIANT RefusedWithXdrError
