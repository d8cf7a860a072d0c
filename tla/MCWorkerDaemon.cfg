SPECIFICATION DaemonSpec
CONSTANTS
  Daemon = {d1}
  ConnState = {"connecting", "registered", "degraded"}
  Reason = {"auth_failed", "inactive", "internal"}
  Load = {0}
  RegistrationTick = 1
  HeartbeatInterval = 3
  NoAck = NoAck
  NoReason = NoReason
  MaxAge = 0
  MaxSilence = 13
INVARIANTS ConnStateMatchesAcks SilenceNoticed
