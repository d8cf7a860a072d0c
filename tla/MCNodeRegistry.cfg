SPECIFICATION RegistrySpec
CONSTANTS
  Node = {n1, n2, n3}
  NoName = NoName
  Pipe = {p1, p2, p3}
  Reason = {inactive}
  ConnState = {registered}
  Load = {0, 1}
  StaleAfter = 1
  ClaimExpiry = 2
  ClaimMax = 2
  MaxAge = 3
SYMMETRY Symmetry
INVARIANTS OrderIndexed PipeLinked ClaimsBounded NoOutdatedClaim SelectsLeastLoaded
PROPERTY ClaimLossJustified
