SPECIFICATION SettledSpec
CONSTANTS
  p = p
  q = q
  r = r
  u = u
  k1 = k1
  k2 = k2
  net1 = net1
  Names = {p, q, r}
  GroupNames = {p, q}
  GroupOf <- AliasedGroups
  Users = {u}
  Contracts = {k1, k2}
  Contents = {net1}
  None = None
  MaxIds = 12
  Records = {1, 2}
  Plans <- RepairPlans
  MaxEvents = 5
CHECK_DEADLOCK FALSE
PROPERTIES
  SpecsAreHandled
  DeletionsEnd
  OrphansCollected
  DriftRepaired
