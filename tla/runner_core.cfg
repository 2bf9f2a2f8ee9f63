SPECIFICATION RunnerSpec
CONSTANTS
  j1 = j1
  j2 = j2
  j3 = j3
  j4 = j4
  Jobs <- FourJobs
  JobType <- Types
  NDev <- Devices
  NSta <- Stations
  MaxJobs = 1
  BulkWidth = 2
  MaxDev = 2
  OpResults = {"success", "failed", "skipped"}
  MaxDbErrors = 1
  MaxCrashes = 1
INVARIANTS SlotAccounting AtMostOnce CompletionIsTotal 
PROPERTIES JobSettles ImplementsLifecycle
CHECK_DEADLOCK FALSE
