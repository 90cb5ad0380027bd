SPECIFICATION OutageSpec
CONSTANTS
  r1 = r1
  r2 = r2
  r3 = r3
  k1 = k1
  Requests = {r1}
  Keys = {k1}
  NoKey = NoKey
  Specs <- MCSpecs
  RateLimitEnabled = TRUE
  MaxDrops = 1
PROPERTIES
  OutageLocksNobodyOut
CHECK_DEADLOCK FALSE
