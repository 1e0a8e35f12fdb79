SPECIFICATION Spec
CONSTANTS
  Days = {"monday", "tuesday"}
  MaxLines = 4
  CronJobs = {j1}
  MaxRuns = 2
INVARIANTS
  TypeOK
  FilesTellWhatWasWritten
  ExitLosesNothing
PROPERTIES
  LinesSettle
CHECK_DEADLOCK FALSE
