SPECIFICATION LimiterSpec
CONSTANTS
  IP = {a, b}
  Limit = 2
  Window = 2
INVARIANTS BurnBounded
PROPERTY BurstEnds
