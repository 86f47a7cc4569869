SPECIFICATION Spec
CONSTANTS
  Req = {r1, r2}
  User = {u1, u2}
  Email = {e1, e2}
  Account = {x1}
  Nonce = {n1, n2}
  Token = {t1}
  Key = {k1}
  MaxRestart = 1
  MaxReq = 3
SYMMETRY Symm
INVARIANTS
  VerifiedIsVouchedFor
  OAuthLoginsAreVerified
  OneUserPerAccount
PROPERTIES
  SingleUseHolds
CHECK_DEADLOCK FALSE
