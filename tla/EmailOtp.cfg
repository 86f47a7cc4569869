SPECIFICATION Spec
CONSTANTS
  Req = {r1, r2}
  MAX_ATTEMPTS = 3
  MaxFailures = 2
  Window = 2
  Lockout = 1
  Ttl = 1
  MaxCodes = 2
  MaxTime = 2
SYMMETRY Symm
INVARIANTS
  OneCodeInFlight
  SessionsAreVerified
PROPERTY OnlyNewestCodeWins
CHECK_DEADLOCK FALSE
