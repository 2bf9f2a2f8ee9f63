SPECIFICATION RunnerSpec
CONSTANTS
  j1 = j1
  j2 = j2
  j3 = j3
  j4 = j4
  Jobs <- FourJobs
  JobType <- Types
  NDev <- Devices
  NSta <- Stations
  MaxJobs = 1
  BulkWidth = 2
  MaxDev = 2
  OpResults = {"success"}
  MaxDbErrors = 0
  MaxCrashes = 0
PROPERTY CancelledPendingNeverRuns
CHECK_DEADLOCK FALSE
