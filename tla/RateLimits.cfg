SPECIFICATION FairSpec
CONSTANTS
  r1 = r1
  r2 = r2
  r3 = r3
  k1 = k1
  Requests = {r1, r2, r3}
  Keys = {k1}
  NoKey = NoKey
  Specs <- MCSpecs
  RateLimitEnabled = TRUE
  MaxDrops = 2
INVARIANTS
  LimitsHold
PROPERTIES
  EveryRequestAnswered
CHECK_DEADLOCK FALSE
