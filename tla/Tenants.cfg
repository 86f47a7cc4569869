SPECIFICATION TSpec
CONSTANTS
  Workspace = {master, acme}
  Master = master
  App = {shop}
  Call = {r1, r2}
  ScriptCount = 1
  Cap = 1
  MaxRow = 3
  MaxFile = 4
  MaxDeath = 1
  MaxCall = 5
SYMMETRY Symm
INVARIANTS
  AckedIsMigrated
  FreshTenant
CHECK_DEADLOCK FALSE
