SPECIFICATION Spec
CONSTANTS
  Names = {root, bob, eve}
  Passwords = {x, y}
  AdminName = root
  AdminPassword = x
  HasInitToken = TRUE
  AllowRegister = TRUE
  Failing = TRUE
  DBDriver = "sqlite"
  Requests = {r1, r2}
  MaxRows = 2
SYMMETRY Symmetry
INVARIANTS
  TypeOK
  UniqueNames
  AdminsOverlap
CHECK_DEADLOCK FALSE
