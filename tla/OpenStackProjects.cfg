SPECIFICATION Spec
CONSTANTS
  p = p
  q = q
  r = r
  u = u
  k1 = k1
  k2 = k2
  net1 = net1
  Names = {p, q, r}
  GroupNames = {p, q}
  GroupOf <- AliasedGroups
  Users = {u}
  Contracts = {k1, k2}
  Contents = {net1}
  None = None
  MaxIds = 12
  Records = {1, 2}
  Plans <- SafetyPlans
  MaxEvents = 4
CHECK_DEADLOCK FALSE
INVARIANTS
  OneOwner
PROPERTIES
  CollectorSparesUsed
  DeletionSparesListed
