SPECIFICATION ScheduleSpec
CONSTANTS
  DayUnits = 4
  WindowSets <- AllSets
  JobType = "upgrade"
  Site = 1
  Region = 1
  TimeAsText = FALSE
  RepeatEvery = 5
PROPERTY BlockedJobRuns
CHECK_DEADLOCK FALSE
