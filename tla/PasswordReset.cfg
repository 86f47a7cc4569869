SPECIFICATION Spec
CONSTANTS
  NoToken = NoToken
  NoUser = NoUser
  Req = {r1, r2}
  Token = {t1, t2, t3}
  User = {u1, u2}
  Ttl = 1
  MaxTime = 1
SYMMETRY Symm
INVARIANTS
  OneTokenOneWrite
  SettledTokensAreSpent
PROPERTY ImplementsSingleUse
CHECK_DEADLOCK FALSE
