SPECIFICATION Spec
CONSTANTS
  a = a
  b = b
  Req = {a, b}
  Coll = {notes}
  Internal <- MCInternal
  Field <- MCField
  Owner = "owner"
  Unique <- MCUnique
  Rec = {r1}
  User = {u1}
  File = {f1}
  Worlds <- MCWorlds
SYMMETRY Symmetric
INVARIANTS
  SchemaAgrees
  NoInheritedRule
  AccessWithinRules
  UploadsAreComplete
CHECK_DEADLOCK FALSE
