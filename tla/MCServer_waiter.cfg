SPECIFICATION FairSpec
CONSTANTS
  c1 = c1
  c2 = c2
  c3 = c3
  r1 = r1
  r2 = r2
  o1 = o1
  o2 = o2
  o3 = o3
  e1 = e1
  e2 = e2
  e3 = e3
  NoEntry = NoEntry
  NoRequest = NoRequest
  NoClient = NoClient
  NoConn = NoConn
  Client = {c1, c2}
  Key = {r1}
  Block = {o1, o2, o3, e1, e2}
  MaxSize = 4
  Body <- TwoBlockBodies
  Answers <- NotFound
  Faults = {}
  MaxChunk = 2
PROPERTY
  WaiterIsWoken
CHECK_DEADLOCK FALSE
