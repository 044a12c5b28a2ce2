SPECIFICATION HandlesSpec
CONSTANTS
  Value = {v1, v2}
  Context = {c1, c2, c3}
  Kind <- MCKind
  Pieces <- MCPieces
  LenModulus = 3
  GroupSz = 2
  KeyBuf = 3
  MaxPieces = 2
  MaxFaults = 2
SYMMETRY Symmetry
INVARIANTS
  EveryKeyIsWiped
