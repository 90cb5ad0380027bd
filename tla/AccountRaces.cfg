SPECIFICATION OAuthSpec
CONSTANTS
  e1 = e1
  p1 = p1
  p2 = p2
  weak = weak
  h1 = h1
  h2 = h2
  f1 = f1
  f2 = f2
  NoPassword = NoPassword
  NoEmail = NoEmail
  Emails = {e1}
  Passwords = {p1, p2, weak}
  Weak = {weak}
  Handlers = {h1, h2}
  Flows = {f1, f2}
  Profiles <- MCProfiles
  MaxFailed = 2
  MaxLinks = 1
SYMMETRY Sym
INVARIANTS
  OAuthTypeOK
  LinkSpentOnce
  OldSessionsEnd
  LockNeedsFailures
  IdentityIsProven
  EveryAccountHasADoor
PROPERTIES
  RejectedPasswordCostsNothing
  SignupNeverReplaces
CHECK_DEADLOCK FALSE
