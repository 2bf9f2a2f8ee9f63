----------------------------- MODULE MCSchedule -----------------------------
(***************************************************************************)
(* What a scheduled job may count on: the ticks of one Scheduler with      *)
(* three jobs, and one job under the windows of MaintenanceWindow.  part   *)
(* says which of the two moves; the other rests at its start.              *)
(*                                                                         *)
(* The windows have days of four units: one or two windows, every start    *)
(* and end, several sets of days, and daily windows in three zones.        *)
(***************************************************************************)
EXTENDS MaintenanceWindow, TLC

Clock == 0..(DayUnits - 1)

Win(s, e, d, z) == [scope |-> "global", at |-> 0, start |-> s, end |-> e,
                    days |-> d, zone |-> z, allow |-> {"upgrade", "reboot"}]

(* A window of another site, one that does not allow the job's type, and   *)
(* one of the device's own region.                                         *)
OtherSite == [Win(0, 2, {}, 0) EXCEPT !.scope = "site", !.at = 2]
OtherType == [Win(1, 3, {}, 0) EXCEPT !.allow = {"reboot"}]
OwnRegion == [Win(2, 3, {6}, 0) EXCEPT !.scope = "region", !.at = 1]

DaySets == {{}, {0}, {3}, {1, 3}, {0, 6}, {1, 2, 3, 4, 5}}

AnyDays  == {Win(s, e, d, 0) : s \in Clock, e \in Clock, d \in DaySets}
EveryDay == {Win(s, e, {}, z) : s \in Clock, e \in Clock, z \in {-2, 0, 1}}

(* Every window alone, and beside windows of other sites and types.        *)
Mixed(W) == {{w} : w \in W} \cup {{w, v} : w \in W, v \in {OtherSite, OtherType}}

AllSets  == {{}, {OtherSite}} \cup Mixed(AnyDays \cup EveryDay)
            \cup {{w, OwnRegion} : w \in AnyDays}

VARIABLES
  status, due, nextSet, repeat, todo, claiming, gen, tokens, cancels,
  stopping, exits, edits, schedReq, rpc, rjob, rinst, rctx, rdone, rerr,
  rstatus, rrepeat,
  part

schedVars  == <<status, due, nextSet, repeat, todo, claiming, gen, tokens, cancels,
                stopping, exits, edits, schedReq, rpc, rjob, rinst, rctx, rdone, rerr,
                rstatus, rrepeat>>

(* One server with three jobs in the order of their time: a plain one, one *)
(* whose window opens and closes, one no window applies to.                *)
Sched == INSTANCE Scheduler WITH
  Instances <- {"a"}, Jobs <- {"plain", "windowed", "without"},
  Rank <- [plain |-> 1, windowed |-> 2, without |-> 3],
  NDev <- [plain |-> 1, windowed |-> 1, without |-> 1], MaxDev <- 1,
  Repeats <- {}, Windowed <- {"windowed"}, NoWindow <- {"without"},
  Fallible <- {}, Cancellable <- {}, RunIds <- {"r1", "r2"},
  MaxReloads <- 1, Cap <- (0 :> 2 @@ 1 :> 2), MaxExits <- 1, MaxEdits <- 1,
  cancelReq <- schedReq

ScheduleInit ==
  /\ WindowInit /\ Sched!Init
  /\ \/ part = "sched" /\ windows = {} /\ now = 0
     \/ part = "window"

WindowStep == part = "window" /\ WindowNext /\ UNCHANGED <<schedVars, part>>

ScheduleNext ==
  \/ part = "sched" /\ Sched!Next /\ UNCHANGED <<windowVars, part>>
  \/ WindowStep

(* Where the scheduler rests none of its fair steps is enabled; the clock  *)
(* of the windows always is.                                               *)
ScheduleSpec ==
  /\ ScheduleInit /\ [][ScheduleNext]_<<windowVars, schedVars, part>>
  /\ Sched!Fairness /\ WF_windowVars(WindowStep)

(* Scheduler.DueJobRuns: a due job no window holds back is taken up.       *)
DueJobRuns == Sched!DueJobRuns

=============================================================================
