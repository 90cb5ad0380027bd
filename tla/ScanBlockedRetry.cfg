SPECIFICATION Spec
CONSTANTS
  pA = pA
  pB = pB
  pC = pC
  kHtml = kHtml
  kCss = kCss
  t1 = t1
  NoPage = NoPage
  s1 = s1
  s2 = s2
  Scans = {s1}
  Pages = {pA}
  Keys = {kHtml, kCss}
  Techs = {t1}
  Artefacts <- MCArtefacts
  Detected <- MCDetected
  JobAttempts = 2
  MaxStalled = 0
  Concurrency = 2
  Driver = "redis"
  Mishaps <- OnlySucceed
INVARIANT
  RetryIsNotBlocked
CHECK_DEADLOCK FALSE
