SPECIFICATION GoxdrSpec
CONSTANTS
  Types <- MCTypes
  Values <- MCValues
  Bytes <- MCBytes
  MaxPieces = 4
  Layouts <- MCLayouts
  Decls <- MCDecls
INVARIANTS
  RoundTrip
  Canonical
  InputBounded
  CutOffRefused
  JsonRoundTrip
  TokensAsWritten
  CommentsAttach
  CompilesAsMeant
  InitializedValid
CHECK_DEADLOCK FALSE
