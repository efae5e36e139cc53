SPECIFICATION FairSpec
CONSTANTS
  i1 = i1
  i2 = i2
  d1 = d1
  d2 = d2
  g = g
  Infras = {i1, i2}
  Policies = {d1, d2}
  Groups = {g}
  MaxUids = 2
  MaxGens = 3
  MaxBuckets = 2
  MaxJobs = 4
  Plans <- SafePlans
  MaxEvents = 3
  MaxCommits = 6
  Retries = 2
  BackoffLimit = 1
  HistoryLimit = 1
CHECK_DEADLOCK FALSE
INVARIANTS
  OneOpenJob
  InputsKept
  ReceiptTrue
  PublishesOwned
PROPERTIES
  ManualPolicySurvives
  GenerationsAnswered
