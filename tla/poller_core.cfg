SPECIFICATION MCPollerSpec
CONSTANTS
  Devices = {d1}
  Workers = {w1, w2}
  QueueSize = 1
  NoDevice = none
  MaxExtra = 1
  Requests = {r1}
  Watch = watch
  Intervals = {30, 60}
  Logins = {1}
  FirstInterval = 30
  FirstLogin = 1
  NoValue = none
  MaxSaves = 3
  MaxFaults = 1
INVARIANT StationsFollowParent
PROPERTIES OfflineNeedsThree PollingSettles 
CHECK_DEADLOCK FALSE
