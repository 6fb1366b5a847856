SPECIFICATION FairSpec
CONSTANTS
  u1 = u1
  None = None
  Agents = {a1}
  Users = {}
  Deliveries = {d1, d2}
  Bodies <- MCNodes
  Known = {}
  Timeout = 1
  Ticking = TRUE
  Serial = TRUE
  MaxTokens = 1
  MaxAccidents = 1
INVARIANTS
  CacheOfOneReport
  PublishedWhole
PROPERTIES
  SilentAgentGoesOffline
  ReportLands
CHECK_DEADLOCK FALSE
