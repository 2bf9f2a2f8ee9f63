SPECIFICATION ScheduleSpec
CONSTANTS
  DayUnits = 4
  WindowSets <- AllSets
  JobType = "upgrade"
  Site = 1
  Region = 1
  TimeAsText = TRUE
  RepeatEvery = 5
INVARIANT NoWindowMissed
PROPERTIES  BlockedJobRuns DueJobRuns
CHECK_DEADLOCK FALSE
