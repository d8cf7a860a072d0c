SPECIFICATION PathSpec
CONSTANTS
  Node = {n1}
  NoName = NoName
  Pipe = {1, 2, 3}
  NoPipe = 0
  Reason = {"inactive"}
  ConnState = {"registered"}
  Load = {0, 1, 2}
  StaleAfter = 0
  ClaimExpiry = 0
  ClaimMax = 1
  MaxAge = 1
  Req = {r1}
  BufferSize = 3
  MaxChunks = 2
  MaxFaults = 1
PROPERTY LostStreamEnds
