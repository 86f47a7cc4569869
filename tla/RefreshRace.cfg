SPECIFICATION Spec
CONSTANTS
  r1 = r1
  r2 = r2
  u1 = u1
  a1 = a1
  m1 = m1
  t1 = t1
  t2 = t2
  t3 = t3
  NoToken = NoToken
  NoSubject = NoSubject
  NoReq = NoReq
  Req = {r1, r2}
  Token = {t1, t2, t3}
  Subject = {u1, a1, m1}
  KindOf <- MCKindOf
  Ttl = 1
  MaxTime = 1
SYMMETRY Symm
INVARIANT RedeemedOnce
