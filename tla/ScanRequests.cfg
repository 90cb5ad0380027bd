SPECIFICATION Spec
CONSTANTS
  free = free
  paid = paid
  h1 = h1
  h2 = h2
  pA = pA
  pC = pC
  kHtml = kHtml
  kCss = kCss
  t1 = t1
  s1 = s1
  s2 = s2
  NoPage = NoPage
  NoHost = NoHost
  Users = {free, paid}
  PaidUsers = {paid}
  Hosts = {h1, h2}
  Askers <- MCAskers
  DailyLimit = 1
  Scans = {s1, s2}
  Pages = {pC}
  Keys = {kHtml, kCss}
  Techs = {t1}
  Artefacts <- MCArtefacts
  Detected <- MCDetected
  JobAttempts = 1
  MaxStalled = 0
  Concurrency = 1
  Driver = "inline"
  Mishaps <- InlineMishaps
INVARIANTS
  QuotaHoldsOneAtATime
  OneWebsitePerHost
  UnsettledIsAttended
CHECK_DEADLOCK FALSE
