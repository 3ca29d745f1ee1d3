SPECIFICATION FairLoopSpec
CONSTANTS
  r1 = r1
  r2 = r2
  o1 = o1
  o2 = o2
  e1 = e1
  NoEntry = NoEntry
  NoRequest = NoRequest
  NoClient = NoClient
  NoConn = NoConn
  Client = {4, 5, 6}
  MaxLive = 2
  Key = {r1, r2}
  Block = {o1, o2, e1}
  MaxSize = 2
  Body <- ShortBodies
  Answers <- OnlyFirstIsFound
  Faults = {"client", "listening", "signal"}
  MaxChunk = 1
CHECK_DEADLOCK FALSE
INVARIANTS
  LoopTypeOK
  EventsAreCurrent
PROPERTIES
  LoopImplementsServer
  StopIsHeard
  RequestIsAnswered
