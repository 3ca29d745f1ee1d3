SPECIFICATION Spec
CONSTANTS
  k1 = k1
  k2 = k2
  k3 = k3
  b = b
  NoEntry = NoEntry
  Key = {k1, k2, k3}
  Block = {b}
  MaxSize = 3
  MaxUsers = 2
  MaxChunk = 2
  FreedKey = {"overwritten"}
SYMMETRY Symmetry
INVARIANT
  TableMatchesList
CHECK_DEADLOCK FALSE
