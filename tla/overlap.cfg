SPECIFICATION Spec
CONSTANTS
  u1 = u1
  None = None
  Agents = {a1}
  Users = {}
  Deliveries = {d1, d2}
  Bodies <- MCNodes
  Known = {a1}
  Timeout = 1
  Ticking = FALSE
  Serial = FALSE
  MaxTokens = 1
  MaxAccidents = 0
INVARIANTS
  CacheReplacedInFull
CHECK_DEADLOCK FALSE
