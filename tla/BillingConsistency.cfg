SPECIFICATION LimitedSpec
CONSTANTS
  WindowHours = 2
  MaxReports = 2
  Jobs = {j1}
  NoJob = NoJob
  Series = {x1}
  Files = {f1}
  PeriodHours = 1
  Clients = {c1, c2}
  MaxRetries = 3
  Workers = {w1, w2}
  NoWorker = NoWorker
  NoFile = NoFile
  MaxFaults = 2
  Elapses = TRUE
SYMMETRY Symmetry
CHECK_DEADLOCK FALSE
INVARIANTS
  OneLiveReportPerJob
  OneProcessor
  RunMatchesReport
PROPERTIES
  DeliveredIsFinal
  ClaimsWhatIsLive
