SPECIFICATION Spec
CONSTANTS
  MaxAlerts = 1
  Channels <- Hook
  Sysmon <- None
  Slow <- Mail
  Recovers <- First
  Workers <- TwoAndSys
  SysmonWorkers <- SysWorker
  MaxAttempts = 2
  MaxFailures = 1
  MaxLost = 1
  MaxDbErrors = 1
  MaxExits = 1
INVARIANT StampMeansDelivered
INVARIANT TriggerNeverAfterOk
INVARIANT OkOnlyAfterTrigger
PROPERTY LateAnswersIgnored
CHECK_DEADLOCK FALSE
