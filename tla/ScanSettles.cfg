SPECIFICATION NotedFairSpec
CONSTANTS
  pA = pA
  pB = pB
  pC = pC
  kHtml = kHtml
  kCss = kCss
  t1 = t1
  NoPage = NoPage
  s1 = s1
  s2 = s2
  Scans = {s1}
  Pages = {pA, pB}
  Keys = {kHtml, kCss}
  Techs = {t1}
  Artefacts <- MCArtefacts
  Detected <- MCDetected
  JobAttempts = 2
  MaxStalled = 1
  Concurrency = 1
  Driver = "redis"
  Mishaps <- AllButLocks
PROPERTIES
  EnqueuedScanSettles
  ImplementsContract
CHECK_DEADLOCK FALSE
