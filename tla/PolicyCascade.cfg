SPECIFICATION Spec
CONSTANTS
  w1 = w1
  w2 = w2
  a1 = a1
  a2 = a2
  Req = {r1}
  Workspace = {w1, w2}
  App = {a1, a2}
  Home <- MCHome
  Master = Master
  Families <- MCOrdered
INVARIANTS
  ChainHolds
PROPERTY MasterPutSettles
