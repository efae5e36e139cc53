SPECIFICATION LedSpec
CONSTANTS
  p = p
  q = q
  k1 = k1
  k2 = k2
  x1 = x1
  Names = {p, q}
  Cores = {k1, k2}
  Extras = {x1}
  MaxIds = 12
  Records = {1, 2}
  Plans <- LedPlans
  MaxEvents = 4
CHECK_DEADLOCK FALSE
INVARIANTS
  ImportsBounded
PROPERTIES
  ImportsSettle
  RegisteredCollected
