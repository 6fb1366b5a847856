SPECIFICATION Spec
CONSTANTS
  u1 = u1
  None = None
  Agents = {a1}
  Users = {u1}
  Deliveries = {d1, d2}
  Bodies <- MCUsage
  Known = {a1}
  Timeout = 1
  Ticking = FALSE
  Serial = FALSE
  MaxTokens = 2
  MaxAccidents = 1
SYMMETRY Symmetry
INVARIANTS
  TypeOK
  AuditTrail
  UsageMatches
  OldTokensAreRefused
PROPERTIES
  ShutOutAgentIsQuiet
  ImplementsLedger
CHECK_DEADLOCK FALSE
