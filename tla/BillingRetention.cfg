SPECIFICATION Spec
CONSTANTS
  WindowHours = 2
  MaxReports = 1
  Jobs = {j1}
  NoJob = NoJob
  Series = {x1}
  Files = {f1, f2}
  PeriodHours = 3
  Clients = {c1}
  MaxRetries = 1
  Workers = {w1, w2}
  NoWorker = NoWorker
  NoFile = NoFile
  MaxFaults = 2
  Elapses = TRUE
SYMMETRY Symmetry
CHECK_DEADLOCK FALSE
INVARIANTS
  TypeOK
  RenderedInFull
  SucceededMeansDelivered
  SucceededMeansDownloadable
  RepeatedOnlyIfLost
