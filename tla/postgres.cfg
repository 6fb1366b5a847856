SPECIFICATION FairSpec
CONSTANTS
  Names = {root, bob}
  Passwords = {x, y}
  AdminName = root
  AdminPassword = x
  HasInitToken = TRUE
  AllowRegister = TRUE
  Failing = FALSE
  DBDriver = "postgres"
  Requests = {r1}
  MaxRows = 1
PROPERTIES
  ComesUpAgain
CHECK_DEADLOCK FALSE
