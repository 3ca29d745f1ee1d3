SPECIFICATION Spec
CONSTANTS
  k1 = k1
  k2 = k2
  k3 = k3
  k4 = k4
  b = b
  NoEntry = NoEntry
  Key = {k1, k2, k3, k4}
  Block = {b}
  MaxSize = 4
  MaxUsers = 2
  MaxChunk = 2
SYMMETRY Symmetry
INVARIANTS
  TypeOK
  SizeIsExact
  UnusedIsComplete
PROPERTIES
  KeepsWhatIsInUse
  CompletedIsFinal
  EvictsOldestFirst
  IsAPinnedStore
CHECK_DEADLOCK FALSE
