SPECIFICATION Spec
CONSTANTS
  NoChal = NoChal
  NoSecret = NoSecret
  Req = {r1, r2}
  Chal = {c1, c2}
  Secret = {s1, s2}
  MaxFailures = 2
  Window = 2
  Lockout = 1
  Ttl = 1
  MaxTime = 2
SYMMETRY Symm
INVARIANTS
  LockoutBudget
  OneLateVerdict
  OneGuessPerChallenge
  SecondFactorHonoured
CHECK_DEADLOCK FALSE
