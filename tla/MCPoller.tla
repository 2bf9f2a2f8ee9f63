------------------------------ MODULE MCPoller ------------------------------
(***************************************************************************)
(* The poller: its loop over the devices, and the settings it is told to   *)
(* reload. part says which of the two models moves.                        *)
(***************************************************************************)
EXTENDS Poller, RuntimeSettings

VARIABLE part

polling == part = "poller"
setting == part = "settings"

MCPollerInit == PollerInit /\ SettingsInit /\ part \in {"poller", "settings"}

MCPollerNext ==
    \/ polling /\ PollerNext /\ UNCHANGED <<settingsVars, part>>
    \/ setting /\ SettingsNext /\ UNCHANGED <<pollerVars, part>>

\* The ticker fires, goroutines run, probes end (their clients have time limits) and
\* backoffs end; loaders run and the poller takes what they send. Users, the signal to
\* stop and the periodic reload are not fair.
MCPollerFairness ==
    /\ WF_pollerVars(polling /\ BeginCycle) /\ WF_pollerVars(EndCycle)
    /\ WF_pollerVars(CloseQueue) /\ WF_pollerVars(Return)
    /\ WF_pollerVars(\E d \in Devices : QueueRow(d))
    /\ \A d \in Devices : /\ WF_pollerVars(BackoffEnds(d))
                          /\ WF_pollerVars(RefreshQueues(d) \/ RefreshFails(d))
    /\ \A w \in Workers : WF_pollerVars(WorkerStep(w))
    /\ WF_settingsVars(ResetTicker)
    /\ \A l \in Loaders : WF_settingsVars(setting /\ LoaderStep(l))

MCPollerSpec ==
    MCPollerInit /\ [][MCPollerNext]_<<pollerVars, settingsVars, part>> /\ MCPollerFairness

\* Poller.SilentGoesOffline and StopReturns, where devices are polled: a device that stops
\* answering ends offline for good, and Start returns once it is told to stop.
PollingSettles == setting \/ (SilentGoesOffline /\ StopReturns)
=============================================================================
