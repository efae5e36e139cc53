SPECIFICATION Spec
CONSTANTS
  p = p
  q = q
  k1 = k1
  k2 = k2
  x1 = x1
  Names = {p}
  Cores = {k1, k2}
  Extras = {x1}
  MaxIds = 9
  Records = {1, 2}
  Plans <- ExternalPlans
  MaxEvents = 4
CHECK_DEADLOCK FALSE

PROPERTIES
  ExternalImagesSpared
