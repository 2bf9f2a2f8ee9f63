------------------------------ MODULE MCAlerts ------------------------------
(***************************************************************************)
(* What the user of alerting may count on: the life of alerts under every  *)
(* request, and the way of one alert's notifications to mail and sysmon.   *)
(* part says which of the two models moves; the other rests at its start.  *)
(***************************************************************************)
EXTENDS AlertManager

VARIABLES alert, st, att, stamped, wpc, item, try, got, shown, lost,
          unwritten, restarts, part

outboxVars == <<alert, st, att, stamped, wpc, item, try, got, shown, lost,
                unwritten, restarts>>

EveryOp == {"edit", "silence", "resolve", "reload"}
OneReq  == {1}

(* A general worker and the one that serves sysmon and recovers old claims.*)
Outbox == INSTANCE AlertOutbox WITH
  MaxAlerts <- 1, Channels <- {"email", "sysmon"}, Sysmon <- {"sysmon"}, Slow <- {},
  Recovers <- {1}, Workers <- {"g1", "s"}, SysmonWorkers <- {"s"}, MaxAttempts <- 2,
  MaxFailures <- 1, MaxLost <- 0, MaxDbErrors <- 0, MaxExits <- 1,
  dbErrors <- unwritten, exits <- restarts

AlertsInit == Init /\ Outbox!Init /\ part \in {"manager", "outbox"}

AlertsNext ==
  \/ part = "manager" /\ Next /\ UNCHANGED <<outboxVars, part>>
  \/ part = "outbox" /\ Outbox!Next /\ UNCHANGED <<vars, part>>

(* AlertManager.FairSpec, with the evaluation held where it rests.         *)
ManagerFairness ==
  /\ WF_vars(part = "manager" /\ EvalStep)
  /\ \A r \in Reqs : WF_vars(OpStep(r))
  /\ WF_vars(DurationPasses) /\ WF_vars(CooldownPasses)

AlertsSpec ==
  /\ AlertsInit /\ [][AlertsNext]_<<vars, outboxVars, part>>
  /\ ManagerFairness /\ Outbox!Fairness

(* AlertOutbox.NotificationsSettle: each is sent or given up in the end.   *)
NotificationsSettle == Outbox!NotificationsSettle

=============================================================================
