SPECIFICATION AlertsSpec
CONSTANTS
  MaxAlerts = 2
  Ops <- EveryOp
  MaxOps = 1
  Reqs <- OneReq
  Immediate = FALSE
  MaxDbErrors = 1
  MaxExits = 1
INVARIANTS AtMostOneOpen 
PROPERTIES CooldownHeld ClearedCloses 
CHECK_DEADLOCK FALSE
