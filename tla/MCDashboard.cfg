SPECIFICATION DashboardSpec
CONSTANTS
  Cred = {k1, k2}
  NoCred = NoCred
  Browser = {b1, b2}
  NonceTTL = 1
  SessionTTL = 1
  MaxAge = 2
  MaxFaults = 1
CHECK_DEADLOCK FALSE
INVARIANTS RevealedOnce SessionsAreAdmin TrailMatches
PROPERTY RevokedSessionsDie
