SPECIFICATION NotedSpec
CONSTANTS
  pA = pA
  pB = pB
  pC = pC
  kHtml = kHtml
  kCss = kCss
  t1 = t1
  NoPage = NoPage
  s1 = s1
  s2 = s2
  Scans = {s1}
  Pages = {pA, pB}
  Keys = {kHtml, kCss}
  Techs = {t1}
  Artefacts <- MCArtefacts
  Detected <- MCDetected
  JobAttempts = 2
  MaxStalled = 1
  Concurrency = 2
  Driver = "redis"
  Mishaps <- Everything
INVARIANTS
  TypeOK
  NoDanglingAsset
  SettledRowIsHonest
  OneRunWhileLocked
  ReadsBackWhileLocked
  JobAndRowAgree
PROPERTIES
  CancelIsKept
CHECK_DEADLOCK FALSE
