SPECIFICATION PanelSpec
CONSTANTS
  u1 = u1
  None = None
  Agents = {a1}
  Users = {u1}
  Deliveries = {d1, d2}
  Bodies <- MCBodies
  Known = {a1}
  Timeout = 1
  Ticking = FALSE
  Serial = TRUE
  MaxTokens = 1
  MaxAccidents = 1
  Plan = p1
  Group = g1
  Admin = admin
  Lists = {{a1}}
  Limit = 1
  Gets = {r1}
CONSTRAINT Focus
SYMMETRY DeliverySymmetry
INVARIANTS
  PanelTypeOK
  DeletedAgentIsNotServed
PROPERTIES
  ImplementsAccess
  FetchIsFromOneReport
CHECK_DEADLOCK FALSE
