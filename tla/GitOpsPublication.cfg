SPECIFICATION Spec
CONSTANTS
  k1 = k1
  k2 = k2
  Clusters = {c1}
  Contacts = {k1, k2}
  Absent = Absent
  Customer = Customer
  MaxGeneration = 2
  Workers = {w1, w2}
  Nobody = Nobody
  NoPreview = NoPreview
  DefaultContact = k1
  MaxOperations = 1
  MaxVersion = 3
  HandTrees <- EditedTrees
  MaxEdits = 1
  MaxFaults = 2
  ConfirmReads = 2
SYMMETRY Symmetry
CHECK_DEADLOCK FALSE
PROPERTIES
  PublishesAsApproved
  PushesCurrentConfiguration
