SPECIFICATION HSpec
CONSTANTS
  e1 = e1
  e2 = e2
  a1 = a1
  a2 = a2
  Entry = {e1, e2}
  Admin = {a1, a2}
  Budget = 1
  NoQuota = NoQuota
  MaxGen = 3
  MaxDay = 1
  Worlds <- MCWorlds
SYMMETRY Symmetric
INVARIANTS
  RequestIsOwn
  CpuBounded
  SchedulersFollowTheMap
  QuotaHolds
CHECK_DEADLOCK FALSE
