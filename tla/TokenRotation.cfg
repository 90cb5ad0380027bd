SPECIFICATION Spec
CONSTANTS
  u1 = u1
  u2 = u2
  r1 = r1
  r2 = r2
  Users = {u1,u2}
  Requests = {r1,r2}
  MaxTokens = 3
SYMMETRY Sym
INVARIANTS
  TypeOK
  OneHeirPerFamily
  FamilyHasOneOwner
  CleanEndIsFinal
PROPERTIES
  ImplementsSessions
