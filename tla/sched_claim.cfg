SPECIFICATION Spec
CONSTANTS
  a = a
  b = b
  j1 = j1
  j2 = j2
  r1 = r1
  r2 = r2
  Instances <- TwoServers
  Jobs <- TwoJobs
  Rank <- First
  NDev <- First
  MaxDev = 1
  Repeats <- OneJob
  Windowed <- None
  NoWindow <- Held
  Fallible <- OneJob
  Cancellable <- OneJob
  RunIds <- TwoRuns
  MaxReloads = 1
  Cap <- CapOne
  MaxExits = 1
  MaxEdits = 1
SYMMETRY RunSymmetry
INVARIANT OneRunPerJob
 
CHECK_DEADLOCK FALSE
