SPECIFICATION FleetSafetySpec
CONSTANTS
  d1 = d1
  t1 = t1
  n1 = n1
  n2 = n2
  Daemon = {d1}
  Token = {t1}
  Invalid = {}
  TokenOf <- OneToken
  NodeIDOf <- OneName
  SubjectOf <- OneSubject
  Node = {n1, n2}
  NoName = NoName
  Pipe <- FivePipes
  NoPipe = 0
  ConnState = {"registered"}
  Reason = {"auth_failed", "inactive", "internal"}
  Load = {0}
  RegistrationTick = 1
  HeartbeatInterval = 1
  StaleAfter = 1
  ClaimExpiry = 1
  ClaimMax = 1
  MaxAge = 2
  MaxSilence = 5
  NoAck = NoAck
  NoReason = NoReason
  Capacity = 2
  MaxFaults = 0
INVARIANT RevokedIsDropped
