SPECIFICATION FairSpec
CONSTANTS
  k1 = k1
  k2 = k2
  Clusters = {c1}
  Contacts = {k1, k2}
  Absent = Absent
  Customer = Customer
  MaxGeneration = 1
  Workers = {w1}
  Nobody = Nobody
  NoPreview = NoPreview
  DefaultContact = k1
  MaxOperations = 2
  MaxVersion = 3
  HandTrees <- EditedTrees
  MaxEdits = 1
  MaxFaults = 1
  ConfirmReads = 2
CHECK_DEADLOCK FALSE
INVARIANTS
  ManualEditsSurvive
  BaselineOnMain
  OneActiveOperation
PROPERTIES
  OperationsSettle
