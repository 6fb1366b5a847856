SPECIFICATION Spec
CONSTANTS
  p1 = p1
  p2 = p2
  g1 = g1
  g2 = g2
  s1 = s1
  s2 = s2
  None = None
  Users = {u1}
  Plans = {p1, p2}
  Groups = {g1, g2}
  Sources = {s1, s2}
  Agents = {a1}
  PlanGroups <- MCPlanGroups
  Limits = {0, 1}
  Requests = {}
  Editors = {e1}
  Nodes = {n1}
  Amounts <- MCAmounts
  MaxUsed = 1
  Recording = TRUE
  MaxWrites = 1
  Later = {}
INVARIANTS
  NoOrphanLinks
CHECK_DEADLOCK FALSE
