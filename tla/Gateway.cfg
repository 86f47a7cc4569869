SPECIFICATION GSpec
CONSTANTS
  Req = {r1, r2}
  Scripts = 3
  MaxCrash = 2
  MaxBad = 1
  MaxKeys = 4
  Ws = {w1, w2}
  Ttl = 1
  Leeway = 1
  Worlds <- MCWorlds
INVARIANTS
  ServesOnFullSchema
  SubsequentSetupsRefused
  ScopesHold
  PredecessorsFade
PROPERTIES
  SetupIsForever
  ComesUp
CHECK_DEADLOCK FALSE
