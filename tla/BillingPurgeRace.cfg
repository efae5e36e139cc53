SPECIFICATION Spec
CONSTANTS
  WindowHours = 2
  MaxReports = 1
  Jobs = {j1}
  NoJob = NoJob
  Series = {x1}
  Files = {f1}
  PeriodHours = 1
  Clients = {c1, c2}
  MaxRetries = 2
  Workers = {w1, w2}
  NoWorker = NoWorker
  NoFile = NoFile
  MaxFaults = 1
  Elapses = TRUE
SYMMETRY Symmetry
CHECK_DEADLOCK FALSE
PROPERTIES
  PurgeSparesLiveReports
