----------------------------- MODULE Scheduler -----------------------------
(***************************************************************************)
(* The scheduler of timed jobs (internal/scheduler/scheduler.go), run by   *)
(* one or more server processes (instances) on one scheduled_jobs table.   *)
(*                                                                         *)
(* An instance lists the due jobs, looks at the maintenance window of each *)
(* and either blocks it or takes a slot of the channel jobSem and claims   *)
(* the row; a goroutine then runs the job.  Users create, edit and cancel  *)
(* jobs; ReloadSettings replaces jobSem by a new channel, and everybody    *)
(* reads the field s.jobSem at the time of the send or receive.            *)
(*                                                                         *)
(* Time is abstract: due says that next_run, or scheduled_at when next_run *)
(* is null, has passed.  The outcome of checkMaintenanceWindow is a choice *)
(* here; MaintenanceWindow models how it is computed.                      *)
(***************************************************************************)
EXTENDS Naturals, FiniteSets

CONSTANTS
  Instances,    \* server processes
  Jobs,         \* identifiers of scheduled jobs
  Rank,         \* Rank[j]: position of scheduled_at in time order
  Repeats,      \* jobs created with a repeat_cron
  Windowed,     \* jobs for which windows open and close
  NoWindow,     \* jobs no enabled window applies to, while others exist
  Fallible,     \* jobs whose body may return an error of its own
  Cancellable,  \* bound: jobs that users cancel and edit
  MaxDev,       \* bound: devices of a job
  NDev,         \* NDev[j]: number of devices of the job
  RunIds,       \* bound: goroutines of runJob that exist at once
  MaxReloads,   \* bound: changes of scheduler_max_concurrent of one instance
  Cap,          \* Cap[g]: scheduler_max_concurrent after g changes
  MaxExits,     \* bound: process exits
  MaxEdits      \* bound: changes by users, of schedules and of the limit

Gens == 0..MaxReloads

ASSUME SchedulerAssumption ==
  /\ Instances # {}
  /\ Rank \in [Jobs -> Nat]
  /\ Repeats \subseteq Jobs /\ Windowed \subseteq Jobs
  /\ NoWindow \subseteq Jobs /\ Fallible \subseteq Jobs
  /\ Cancellable \subseteq Jobs
  /\ MaxDev \in Nat /\ NDev \in [Jobs -> 0..MaxDev]
  /\ MaxReloads \in Nat /\ MaxExits \in Nat /\ MaxEdits \in Nat
  /\ Cap \in [Gens -> Nat \ {0}]

NoJob == "nojob"
NoRun == "norun"

ASSUME NullAssumption == NoJob \notin Jobs /\ NoRun \notin RunIds

VARIABLES
  status,    \* scheduled_jobs.status
  due,       \* the time the job waits for has passed
  nextSet,   \* next_run is not null
  repeat,    \* repeat_cron is not null
  todo,      \* todo[i]: listed jobs checkAndRunJobs has not looked at yet
  claiming,  \* claiming[i]: the job a slot was just taken for
  gen,       \* gen[i]: which jobSem the field s.jobSem holds
  tokens,    \* tokens[i][g]: tokens in the g-th channel of instance i
  cancels,   \* cancels[i][j]: the run registered in runningCancels
  stopping,  \* instances whose context is cancelled
  exits,     \* process exits so far
  edits,     \* such changes so far
  cancelReq, \* cancelReq[j]: instance in whose CancelJob the row is updated
  rpc,       \* rpc[r]: position of a runJob goroutine
  rjob, rinst, rctx, rdone, rerr, rstatus, rrepeat

tableVars == <<status, due, nextSet, repeat>>
loopVars  == <<todo, claiming>>
semVars   == <<gen, tokens>>
procVars  == <<stopping, exits, edits>>
runVars   == <<rpc, rjob, rinst, rctx, rdone, rerr, rstatus, rrepeat>>
vars == <<tableVars, loopVars, semVars, cancels, procVars, cancelReq, runVars>>

Statuses == {"absent", "pending", "running", "completed", "failed",
             "cancelled", "blocked"}
Claimable == {"pending", "blocked"}
Positions == {"free", "spawned", "run", "read", "write", "resched",
              "deferred", "release"}
(* The job is being worked on, or its end is not in the table yet.         *)
Active == {"spawned", "run", "read", "write", "resched"}

TypeOK ==
  /\ status \in [Jobs -> Statuses]
  /\ due \in [Jobs -> BOOLEAN] /\ nextSet \in [Jobs -> BOOLEAN]
  /\ repeat \in [Jobs -> BOOLEAN]
  /\ todo \in [Instances -> SUBSET Jobs]
  /\ claiming \in [Instances -> Jobs \cup {NoJob}]
  /\ gen \in [Instances -> Gens]
  /\ tokens \in [Instances -> [Gens -> Nat]]
  /\ cancels \in [Instances -> [Jobs -> RunIds \cup {NoRun}]]
  /\ stopping \subseteq Instances
  /\ exits \in Nat /\ edits \in Nat
  /\ cancelReq \in [Jobs -> SUBSET Instances]
  /\ rpc \in [RunIds -> Positions]
  /\ rjob \in [RunIds -> Jobs \cup {NoJob}]
  /\ rinst \in [RunIds -> Instances \cup {NoJob}]
  /\ rctx \in [RunIds -> BOOLEAN]
  /\ rdone \in [RunIds -> Nat]
  /\ rerr \in [RunIds -> {"none", "cancelled", "other"}]
  /\ rstatus \in [RunIds -> Statuses]
  /\ rrepeat \in [RunIds -> BOOLEAN]

-----------------------------------------------------------------------------
Init ==
  /\ status = [j \in Jobs |-> "absent"]
  /\ due = [j \in Jobs |-> FALSE]
  /\ nextSet = [j \in Jobs |-> FALSE]
  /\ repeat = [j \in Jobs |-> FALSE]
  /\ todo = [i \in Instances |-> {}]
  /\ claiming = [i \in Instances |-> NoJob]
  /\ gen = [i \in Instances |-> 0]
  /\ tokens = [i \in Instances |-> [g \in Gens |-> 0]]
  /\ cancels = [i \in Instances |-> [j \in Jobs |-> NoRun]]
  /\ stopping = {}
  /\ exits = 0
  /\ edits = 0
  /\ cancelReq = [j \in Jobs |-> {}]
  /\ rpc = [r \in RunIds |-> "free"]
  /\ rjob = [r \in RunIds |-> NoJob]
  /\ rinst = [r \in RunIds |-> NoJob]
  /\ rctx = [r \in RunIds |-> FALSE]
  /\ rdone = [r \in RunIds |-> 0]
  /\ rerr = [r \in RunIds |-> "none"]
  /\ rstatus = [r \in RunIds |-> "absent"]
  /\ rrepeat = [r \in RunIds |-> FALSE]

-----------------------------------------------------------------------------
(***************************************************************************)
(* Users and time.                                                         *)
(***************************************************************************)
CreateJob(j) ==
  /\ status[j] = "absent"
  /\ status' = [status EXCEPT ![j] = "pending"]
  /\ repeat' = [repeat EXCEPT ![j] = j \in Repeats]
  /\ UNCHANGED <<due, nextSet, loopVars, semVars, cancels, procVars, cancelReq,
                 runVars>>

TimePasses(j) ==
  /\ status[j] # "absent" /\ ~ due[j]
  /\ due' = [due EXCEPT ![j] = TRUE]
  /\ UNCHANGED <<status, nextSet, repeat, loopVars, semVars, cancels, procVars,
                 cancelReq, runVars>>

(* Mutant of UpdateJobSchedule: the update has no condition on the status. *)
UpdateAnyJobSchedule(j) ==
  /\ edits < MaxEdits
  /\ edits' = edits + 1
  /\ status[j] # "absent"
  /\ status' = [status EXCEPT ![j] = "pending"]
  /\ UNCHANGED <<due, nextSet, repeat, loopVars, semVars, cancels, stopping,
                 exits, cancelReq, runVars>>

(* UpdateJobSchedule: the update is conditional on the status; scheduled_at *)
(* and repeat_cron keep their value when the request leaves them out, and  *)
(* an empty repeat_cron clears it.                                         *)
UpdateJobSchedule(j) ==
  /\ edits < MaxEdits /\ j \in Cancellable
  /\ edits' = edits + 1
  /\ status[j] \in Claimable
  /\ status' = [status EXCEPT ![j] = "pending"]
  /\ nextSet' = [nextSet EXCEPT ![j] = FALSE]
  /\ \E b \in BOOLEAN : due' = [due EXCEPT ![j] = b]
  /\ \E b \in BOOLEAN :
       (b => repeat[j] \/ j \in Repeats) /\ repeat' = [repeat EXCEPT ![j] = b]
  /\ UNCHANGED <<loopVars, semVars, cancels, stopping, exits, cancelReq, runVars>>

(* CancelJob, served by instance i: first the conditional update ...       *)
CancelRow(i, j) ==
  /\ j \in Cancellable
  /\ status[j] \in {"pending", "blocked", "running"}
  /\ status' = [status EXCEPT ![j] = "cancelled"]
  /\ cancelReq' = [cancelReq EXCEPT ![j] = @ \cup {i}]
  /\ UNCHANGED <<due, nextSet, repeat, loopVars, semVars, cancels, procVars,
                 runVars>>

(* ... then the context of the run that is registered in this process.     *)
CancelContext(i, j) ==
  /\ i \in cancelReq[j]
  /\ cancelReq' = [cancelReq EXCEPT ![j] = @ \ {i}]
  /\ rctx' = [r \in RunIds |-> rctx[r] \/ (cancels[i][j] = r /\ rpc[r] # "free")]
  /\ UNCHANGED <<tableVars, loopVars, semVars, cancels, procVars, rpc, rjob,
                 rinst, rdone, rerr, rstatus, rrepeat>>

ReloadSettings(i) ==
  /\ edits < MaxEdits /\ gen[i] < MaxReloads
  /\ edits' = edits + 1
  /\ gen' = [gen EXCEPT ![i] = @ + 1]
  /\ UNCHANGED <<tableVars, loopVars, tokens, cancels, stopping, exits,
                 cancelReq, runVars>>

-----------------------------------------------------------------------------
(***************************************************************************)
(* checkAndRunJobs.                                                        *)
(***************************************************************************)
Due == {j \in Jobs : status[j] \in Claimable /\ due[j]}

(* The rows the query returns: at most twice the limit, in the order of    *)
(* next_run or scheduled_at.  Rows with a next_run fall anywhere between.  *)
Listed(i, S) ==
  /\ S \subseteq Due
  /\ LET limit == 2 * Cap[gen[i]] IN
       Cardinality(S) = IF Cardinality(Due) < limit THEN Cardinality(Due) ELSE limit
  /\ \A j \in S, k \in Due \ S : ~nextSet[j] /\ ~nextSet[k] => Rank[j] <= Rank[k]

ListJobs(i) ==
  /\ i \notin stopping
  /\ todo[i] = {} /\ claiming[i] = NoJob
  /\ \E S \in SUBSET Due : S # {} /\ Listed(i, S) /\ todo' = [todo EXCEPT ![i] = S]
  /\ UNCHANGED <<tableVars, claiming, semVars, cancels, procVars, cancelReq,
                 runVars>>

(* Mutant of BlockJob: a blocked job ends the loop over the listed jobs.   *)
BlockJobStops(i, j) ==
  /\ claiming[i] = NoJob
  /\ j \in todo[i] /\ j \in Windowed \cup NoWindow
  /\ todo' = [todo EXCEPT ![i] = {}]
  /\ status' = [status EXCEPT ![j] = "blocked"]
  /\ nextSet' = [nextSet EXCEPT ![j] = @ \/ j \notin NoWindow]
  /\ due' = [due EXCEPT ![j] = @ /\ j \in NoWindow]
  /\ UNCHANGED <<repeat, claiming, semVars, cancels, procVars, cancelReq,
                 runVars>>

(* blockJobForMaintenance: the update has no condition on the status.  The *)
(* next_run is left alone when no window applies to the job.               *)
BlockJob(i, j) ==
  /\ claiming[i] = NoJob
  /\ j \in todo[i] /\ j \in Windowed \cup NoWindow
  /\ todo' = [todo EXCEPT ![i] = @ \ {j}]
  /\ status' = [status EXCEPT ![j] = "blocked"]
  /\ nextSet' = [nextSet EXCEPT ![j] = @ \/ j \notin NoWindow]
  /\ due' = [due EXCEPT ![j] = @ /\ j \in NoWindow]
  /\ UNCHANGED <<repeat, claiming, semVars, cancels, procVars, cancelReq,
                 runVars>>

TakeSlot(i, j) ==
  /\ claiming[i] = NoJob
  /\ j \in todo[i] \ NoWindow
  /\ tokens[i][gen[i]] < Cap[gen[i]]
  /\ tokens' = [tokens EXCEPT ![i][gen[i]] = @ + 1]
  /\ todo' = [todo EXCEPT ![i] = @ \ {j}]
  /\ claiming' = [claiming EXCEPT ![i] = j]
  /\ UNCHANGED <<tableVars, gen, cancels, procVars, cancelReq, runVars>>

(* No slot: the rest of the list is left for the next tick.                *)
NoSlot(i, j) ==
  /\ claiming[i] = NoJob
  /\ j \in todo[i] \ NoWindow
  /\ tokens[i][gen[i]] >= Cap[gen[i]]
  /\ todo' = [todo EXCEPT ![i] = {}]
  /\ UNCHANGED <<tableVars, claiming, semVars, cancels, procVars, cancelReq,
                 runVars>>

(* Mutant of ClaimJob: the update only excludes cancelled rows.            *)
ClaimAnyJob(i, r) ==
  LET j == claiming[i] IN
  /\ j # NoJob
  /\ i \notin stopping
  /\ status[j] # "cancelled"
  /\ rpc[r] = "free"
  /\ status' = [status EXCEPT ![j] = "running"]
  /\ claiming' = [claiming EXCEPT ![i] = NoJob]
  /\ rpc' = [rpc EXCEPT ![r] = "spawned"]
  /\ rjob' = [rjob EXCEPT ![r] = j]
  /\ rinst' = [rinst EXCEPT ![r] = i]
  /\ UNCHANGED <<due, nextSet, repeat, todo, semVars, cancels, procVars,
                 cancelReq, rctx, rdone, rerr, rstatus, rrepeat>>

ClaimJob(i, r) ==
  LET j == claiming[i] IN
  /\ j # NoJob
  /\ i \notin stopping
  /\ status[j] \in Claimable
  /\ rpc[r] = "free"
  /\ status' = [status EXCEPT ![j] = "running"]
  /\ claiming' = [claiming EXCEPT ![i] = NoJob]
  /\ rpc' = [rpc EXCEPT ![r] = "spawned"]
  /\ rjob' = [rjob EXCEPT ![r] = j]
  /\ rinst' = [rinst EXCEPT ![r] = i]
  /\ rctx' = [rctx EXCEPT ![r] = FALSE]
  /\ rdone' = [rdone EXCEPT ![r] = 0]
  /\ rerr' = [rerr EXCEPT ![r] = "none"]
  /\ rrepeat' = [rrepeat EXCEPT ![r] = repeat[j]]
  /\ UNCHANGED <<due, nextSet, repeat, todo, semVars, cancels, procVars,
                 cancelReq, rstatus>>

(* A receive on whatever channel s.jobSem holds now; it waits when that    *)
(* channel is empty.                                                       *)
ReceiveToken(i) ==
  /\ tokens[i][gen[i]] > 0
  /\ tokens' = [tokens EXCEPT ![i][gen[i]] = @ - 1]
  /\ UNCHANGED gen

ClaimFails(i) ==
  /\ claiming[i] # NoJob
  /\ i \in stopping \/ status[claiming[i]] \notin Claimable
  /\ ReceiveToken(i)
  /\ claiming' = [claiming EXCEPT ![i] = NoJob]
  /\ UNCHANGED <<tableVars, todo, cancels, procVars, cancelReq, runVars>>

-----------------------------------------------------------------------------
(***************************************************************************)
(* runJob.                                                                 *)
(***************************************************************************)
RegisterRun(r) ==
  /\ rpc[r] = "spawned"
  /\ rpc' = [rpc EXCEPT ![r] = "run"]
  /\ cancels' = [cancels EXCEPT ![rinst[r]][rjob[r]] = r]
  /\ rctx' = [rctx EXCEPT ![r] = rinst[r] \in stopping]
  /\ UNCHANGED <<tableVars, loopVars, semVars, procVars, cancelReq, rjob, rinst,
                 rdone, rerr, rstatus, rrepeat>>

(* One device: the context is looked at before each.                       *)
RunDevice(r) ==
  /\ rpc[r] = "run"
  /\ rdone[r] < NDev[rjob[r]]
  /\ IF rctx[r]
     THEN /\ rpc' = [rpc EXCEPT ![r] = "read"]
          /\ rerr' = [rerr EXCEPT ![r] = "cancelled"]
          /\ UNCHANGED rdone
     ELSE /\ rdone' = [rdone EXCEPT ![r] = @ + 1]
          /\ UNCHANGED <<rpc, rerr>>
  /\ UNCHANGED <<tableVars, loopVars, semVars, cancels, procVars, cancelReq,
                 rjob, rinst, rctx, rstatus, rrepeat>>

EndBody(r) ==
  /\ rpc[r] = "run"
  /\ rdone[r] >= NDev[rjob[r]]
  /\ \/ rerr' = rerr
     \/ rjob[r] \in Fallible /\ rerr' = [rerr EXCEPT ![r] = "other"]
  /\ rpc' = [rpc EXCEPT ![r] = "read"]
  /\ UNCHANGED <<tableVars, loopVars, semVars, cancels, procVars, cancelReq,
                 rjob, rinst, rctx, rdone, rstatus, rrepeat>>

(* The final status: a cancelled context counts as cancelled only when the *)
(* row says so; the read uses the context of the scheduler and fails once  *)
(* that is cancelled.                                                      *)
FinalStatus(r) ==
  CASE rerr[r] = "none" -> "completed"
    [] rerr[r] = "cancelled" /\ status[rjob[r]] = "cancelled"
         /\ rinst[r] \notin stopping -> "cancelled"
    [] OTHER -> "failed"

ReadStatus(r) ==
  /\ rpc[r] = "read"
  /\ rpc' = [rpc EXCEPT ![r] = "write"]
  /\ rstatus' = [rstatus EXCEPT ![r] = FinalStatus(r)]
  /\ UNCHANGED <<tableVars, loopVars, semVars, cancels, procVars, cancelReq,
                 rjob, rinst, rctx, rdone, rerr, rrepeat>>

(* updateJobStatus: no condition on the status in the table.               *)
WriteStatus(r) ==
  /\ rpc[r] = "write"
  /\ status' = [status EXCEPT ![rjob[r]] = rstatus[r]]
  /\ rpc' = [rpc EXCEPT ![r] = IF rrepeat[r] /\ rstatus[r] = "completed"
                               THEN "resched" ELSE "deferred"]
  /\ UNCHANGED <<due, nextSet, repeat, loopVars, semVars, cancels, procVars,
                 cancelReq, rjob, rinst, rctx, rdone, rerr, rstatus, rrepeat>>

(* A repeat_cron that calculateNextRun cannot read leaves the job as it is. *)
ScheduleNextRun(r) ==
  /\ rpc[r] = "resched"
  /\ rpc' = [rpc EXCEPT ![r] = "deferred"]
  /\ \/ UNCHANGED <<status, nextSet, due>>
     \/ /\ status' = [status EXCEPT ![rjob[r]] = "pending"]
        /\ nextSet' = [nextSet EXCEPT ![rjob[r]] = TRUE]
        /\ due' = [due EXCEPT ![rjob[r]] = FALSE]
  /\ UNCHANGED <<repeat, loopVars, semVars, cancels, procVars, cancelReq, rjob,
                 rinst, rctx, rdone, rerr, rstatus, rrepeat>>

Unregister(r) ==
  /\ rpc[r] = "deferred"
  /\ rpc' = [rpc EXCEPT ![r] = "release"]
  /\ cancels' = [cancels EXCEPT ![rinst[r]][rjob[r]] = NoRun]
  /\ UNCHANGED <<tableVars, loopVars, semVars, procVars, cancelReq, rjob, rinst,
                 rctx, rdone, rerr, rstatus, rrepeat>>

(* The goroutines in R are gone, and their locals with them.               *)
Gone(R) ==
  /\ rpc' = [r \in RunIds |-> IF r \in R THEN "free" ELSE rpc[r]]
  /\ rjob' = [r \in RunIds |-> IF r \in R THEN NoJob ELSE rjob[r]]
  /\ rinst' = [r \in RunIds |-> IF r \in R THEN NoJob ELSE rinst[r]]
  /\ rctx' = [r \in RunIds |-> r \notin R /\ rctx[r]]
  /\ rdone' = [r \in RunIds |-> IF r \in R THEN 0 ELSE rdone[r]]
  /\ rerr' = [r \in RunIds |-> IF r \in R THEN "none" ELSE rerr[r]]
  /\ rstatus' = [r \in RunIds |-> IF r \in R THEN "absent" ELSE rstatus[r]]
  /\ rrepeat' = [r \in RunIds |-> r \notin R /\ rrepeat[r]]

ReleaseSlot(r) ==
  /\ rpc[r] = "release"
  /\ ReceiveToken(rinst[r])
  /\ Gone({r})
  /\ UNCHANGED <<tableVars, loopVars, cancels, procVars, cancelReq>>

-----------------------------------------------------------------------------
(***************************************************************************)
(* An instance stops: main cancels the context and returns without waiting *)
(* for the scheduler.  Exit is a crash or the end of that, and the next    *)
(* process starts with no goroutine; it does nothing about running rows.   *)
(***************************************************************************)
BeginStop(i) ==
  /\ i \notin stopping
  /\ exits + Cardinality(stopping) < MaxExits
  /\ stopping' = stopping \cup {i}
  /\ rctx' = [r \in RunIds |-> rctx[r] \/ (rinst[r] = i /\ rpc[r] = "run")]
  /\ UNCHANGED <<tableVars, loopVars, semVars, cancels, exits, edits, cancelReq,
                 rpc, rjob, rinst, rdone, rerr, rstatus, rrepeat>>

Exit(i) ==
  /\ i \in stopping \/ exits + Cardinality(stopping) < MaxExits
  /\ exits' = exits + 1
  /\ stopping' = stopping \ {i}
  /\ todo' = [todo EXCEPT ![i] = {}]
  /\ claiming' = [claiming EXCEPT ![i] = NoJob]
  /\ tokens' = [tokens EXCEPT ![i] = [g \in Gens |-> 0]]
  /\ cancels' = [cancels EXCEPT ![i] = [j \in Jobs |-> NoRun]]
  /\ cancelReq' = [j \in Jobs |-> cancelReq[j] \ {i}]
  /\ Gone({r \in RunIds : rinst[r] = i})
  /\ UNCHANGED <<tableVars, gen, edits>>

-----------------------------------------------------------------------------
LoopStep(i) ==
  \/ ListJobs(i) \/ ClaimFails(i)
  \/ \E j \in Jobs : BlockJob(i, j) \/ TakeSlot(i, j) \/ NoSlot(i, j)
  \/ \E r \in RunIds : ClaimJob(i, r)

RunStep(r) ==
  \/ RegisterRun(r) \/ RunDevice(r) \/ EndBody(r) \/ ReadStatus(r)
  \/ WriteStatus(r) \/ ScheduleNextRun(r) \/ Unregister(r) \/ ReleaseSlot(r)

UserStep ==
  \E j \in Jobs :
    \/ CreateJob(j) \/ UpdateJobSchedule(j) \/ TimePasses(j)
    \/ \E i \in Instances : CancelRow(i, j) \/ CancelContext(i, j)

Next ==
  \/ \E i \in Instances :
       LoopStep(i) \/ ReloadSettings(i) \/ BeginStop(i) \/ Exit(i)
  \/ \E r \in RunIds : RunStep(r)
  \/ UserStep

Spec == Init /\ [][Next]_vars

(* The ticker keeps ticking, goroutines run, devices answer or time out,   *)
(* and time passes.  A server that is told to stop exits, and is started   *)
(* again.  A claim is retried with whichever run id is free.               *)
Fairness ==
  /\ \A i \in Instances : WF_vars(LoopStep(i))
  /\ \A i \in Instances : WF_vars(i \in stopping /\ Exit(i))
  /\ \A r \in RunIds : WF_vars(RunStep(r))
  /\ \A j \in Jobs : WF_vars(TimePasses(j))
  /\ \A i \in Instances, j \in Jobs : WF_vars(CancelContext(i, j))

FairSpec == Spec /\ Fairness

-----------------------------------------------------------------------------
(***************************************************************************)
(* Properties.                                                             *)
(***************************************************************************)
ActiveRuns(j) == {r \in RunIds : rpc[r] \in Active /\ rjob[r] = j}

(* No two goroutines, of one instance or of several, work on one job at a  *)
(* time: "Use FOR UPDATE SKIP LOCKED to prevent multiple instances from    *)
(* grabbing same job" (scheduler.go:210), "Atomic update: only succeeds if *)
(* job is still pending" (448).                                            *)
OneRunPerJob == \A r, s \in RunIds :
  r # s /\ rpc[r] \in Active /\ rpc[s] \in Active => rjob[r] # rjob[s]

(* A job that was cancelled while nobody worked on it stays cancelled: the *)
(* scheduler does not pick it up again, a user cannot edit it back         *)
(* (scheduler.go:847-857, 272 "Job was claimed by another instance or      *)
(* cancelled").                                                            *)
CancelledIdleStays ==
  [][\A j \in Jobs : status[j] = "cancelled" /\ ActiveRuns(j) = {} =>
       status'[j] = "cancelled"]_vars

(* A due job that no maintenance window holds back is eventually taken up  *)
(* (or cancelled), while blocked jobs are listed beside it at every tick:  *)
(* "Fetch extra in case some are blocked" (scheduler.go:221).  The query   *)
(* must have room for all of them, and the limit must not have been        *)
(* changed: a goroutine or the loop itself may then wait for a token that  *)
(* the old channel holds (scheduler.go:169, 274, 281).                     *)
DueJobRuns ==
  \A j \in Jobs \ (Windowed \cup NoWindow) :
    (status[j] \in Claimable /\ due[j])
      ~> (status[j] \notin Claimable \/ \E i \in Instances : gen[i] > 0)

=============================================================================
