SPECIFICATION Spec
CONSTANTS
  u1 = u1
  u2 = u2
  a = a
  b = b
  a1 = a1
  a2 = a2
  b1 = b1
  NoUser = NoUser
  NoTab = NoTab
  Users = {u1, u2}
  Tabs = {a, b}
  Calls = {a1, a2}
  TabOf <- MCTabOf
  MaxExchanges = 2
  MaxTokens = 2
  MaxExcuses = 1
INVARIANTS
  NoFalseAlarm
  LogoutWins
  TabShowsItsUser
PROPERTIES
  OutMeansOver
CHECK_DEADLOCK FALSE
