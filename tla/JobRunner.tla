----------------------------- MODULE JobRunner -----------------------------
(***************************************************************************)
(* The asynchronous job runner (internal/jobs/runner.go).                  *)
(*                                                                         *)
(* A job is a row of job_runs plus at most one goroutine, executeJob, that *)
(* waits for a slot of the counting channel jobSem, registers a cancel     *)
(* function in the map running, loads the row, runs the devices of the     *)
(* job and writes the final status.  The row survives a crash of the       *)
(* process; the goroutines, the channel and the map do not.  Requests to   *)
(* cancel, the shutdown sequence and a crash interleave with all of this.  *)
(*                                                                         *)
(* Every database write of the executor goes through dbExecIgnore, which   *)
(* drops an error: MaxDbErrors bounds how many writes are lost that way.   *)
(***************************************************************************)
EXTENDS Naturals, FiniteSets

CONSTANTS
  Jobs,         \* identifiers of the jobs ever created
  MaxJobs,      \* capacity of jobSem (10 in NewRunner)
  BulkWidth,    \* concurrent upgrades of one bulk job (5 in the code)
  JobType,      \* JobType[j]: the job_type column
  MaxDev,       \* bound: devices of one job
  NDev,         \* NDev[j]: the number of devices the job touches
  OpResults,    \* the results of device operations that are explored
  NSta,         \* NSta[j]: devices 1..NSta[j] are stations, the rest APs
  MaxDbErrors,  \* bound: ignored database write errors
  MaxCrashes    \* bound: process exits, crash or shutdown

Sequential == {"upgrade", "fanout_upgrade", "backup", "reboot", "refresh"}
KnownTypes == Sequential \cup {"bulk_upgrade"}

(* "noresult": UpgradeDevice returned an error and no result (the device   *)
(* is gone); a fanout leaves such a device out of its results, the other   *)
(* jobs take it for failed.                                                *)
Outcomes   == {"none", "success", "skipped", "failed", "noresult"}

ASSUME RunnerAssumption ==
  /\ IsFiniteSet(Jobs)
  /\ MaxJobs \in Nat \ {0}
  /\ BulkWidth \in Nat \ {0}
  /\ JobType \in [Jobs -> KnownTypes \cup {"restore"}]
  /\ MaxDev \in Nat
  /\ NDev \in [Jobs -> 0..MaxDev]
  /\ NSta \in [Jobs -> 0..MaxDev]
  /\ OpResults \subseteq Outcomes \ {"none"}
  /\ MaxDbErrors \in Nat
  /\ MaxCrashes \in Nat

VARIABLES
  row,        \* job_runs: status, completed_at written, completed_steps
  pc,         \* position of executeJob(j); "none" when no goroutine runs it
  sem,        \* number of tokens in jobSem
  running,    \* keys of the map r.running
  ctxDone,    \* jobs whose context is cancelled
  next,       \* index of the next device executeJob starts
  busy,       \* devices whose operation is in flight
  outcome,    \* outcome[j][d]: result of the operation on device d
  jobErr,     \* the error returned by runXxxJob
  cancelReq,  \* position of a CancelJob call for j
  phase,      \* of the process: up, draining, drained, exiting, down
  dbErrors, crashes,
  runs,       \* history: times the body of job j was entered
  ops,        \* history: operations started on device d for job j
  acked       \* history: the successes CancelJob(j) reported to its caller

dbVars   == <<row, dbErrors>>
execVars == <<pc, sem, running, ctxDone>>
workVars == <<next, busy, outcome, jobErr>>
histVars == <<runs, ops, acked>>
vars == <<row, pc, sem, running, ctxDone, next, busy, outcome, jobErr,
          cancelReq, phase, dbErrors, crashes, runs, ops, acked>>

Statuses == {"absent", "pending", "running", "rebooting", "completed",
             "skipped", "failed", "cancelled"}
Positions == {"none", "wait", "slot", "load", "mark", "run", "finish",
              "stamp", "exit", "panic"}
(* Positions at which executeJob holds a token of jobSem, and those at     *)
(* which its cancel function is in the map and wg counts it.               *)
Holding    == {"slot", "load", "mark", "run", "finish", "stamp", "exit"}
Registered == Holding \ {"slot"}
Phases     == {"up", "draining", "drained", "exiting", "down"}
Slots == 1..MaxDev
Devs(j) == 1..NDev[j]
Upgrades == {"upgrade", "bulk_upgrade", "fanout_upgrade"}

JobRow == [status: Statuses, stamped: BOOLEAN, steps: Nat]

TypeOK ==
  /\ row \in [Jobs -> JobRow]
  /\ pc \in [Jobs -> Positions]
  /\ sem \in Nat
  /\ running \subseteq Jobs
  /\ ctxDone \subseteq Jobs
  /\ next \in [Jobs -> Nat]
  /\ busy \in [Jobs -> SUBSET Slots]
  /\ outcome \in [Jobs -> [Slots -> Outcomes]]
  /\ jobErr \in [Jobs -> BOOLEAN]
  /\ cancelReq \in [Jobs -> {"idle", "missed"}]
  /\ phase \in Phases
  /\ dbErrors \in Nat /\ crashes \in Nat
  /\ runs \in [Jobs -> Nat]
  /\ ops \in [Jobs -> [Slots -> Nat]]
  /\ acked \in [Jobs -> SUBSET {"signalled", "row"}]

-----------------------------------------------------------------------------
(* The process comes up for the first time with an empty job_runs table.   *)
Init ==
  /\ row = [j \in Jobs |-> [status |-> "absent", stamped |-> FALSE, steps |-> 0]]
  /\ pc = [j \in Jobs |-> "none"]
  /\ sem = 0
  /\ running = {}
  /\ ctxDone = {}
  /\ next = [j \in Jobs |-> 1]
  /\ busy = [j \in Jobs |-> {}]
  /\ outcome = [j \in Jobs |-> [d \in Slots |-> "none"]]
  /\ jobErr = [j \in Jobs |-> FALSE]
  /\ cancelReq = [j \in Jobs |-> "idle"]
  /\ phase = "up"
  /\ dbErrors = 0
  /\ crashes = 0
  /\ runs = [j \in Jobs |-> 0]
  /\ ops = [j \in Jobs |-> [d \in Slots |-> 0]]
  /\ acked = [j \in Jobs |-> {}]

(* dbExecIgnore: the write of r to the row of j happens, or fails with an  *)
(* error that is only logged.                                              *)
DbExecIgnore(j, r) ==
  \/ /\ row' = [row EXCEPT ![j] = r]
     /\ UNCHANGED dbErrors
  \/ /\ dbErrors < MaxDbErrors
     /\ dbErrors' = dbErrors + 1
     /\ UNCHANGED row

Goto(j, from, to) ==
  /\ pc[j] = from
  /\ pc' = [pc EXCEPT ![j] = to]

(* The HTTP server answers until srv.Shutdown, which follows Shutdown.     *)
Serving == phase \in {"up", "draining"}

(***************************************************************************)
(* StartJob inserts the pending row and starts the goroutine.              *)
(***************************************************************************)
StartJob(j) ==
  /\ Serving
  /\ row[j].status = "absent"
  /\ row' = [row EXCEPT ![j].status = "pending"]
  /\ pc' = [pc EXCEPT ![j] = "wait"]
  /\ UNCHANGED <<sem, running, ctxDone, workVars, cancelReq, phase, dbErrors,
                 crashes, histVars>>

(***************************************************************************)
(* executeJob, up to the decision to run the job.                          *)
(***************************************************************************)
AcquireSlot(j) ==
  /\ Goto(j, "wait", "slot")
  /\ sem < MaxJobs
  /\ sem' = sem + 1
  /\ UNCHANGED <<dbVars, running, ctxDone, workVars, cancelReq, phase,
                 crashes, histVars>>

RegisterJob(j) ==
  /\ Goto(j, "slot", "load")
  /\ running' = running \cup {j}
  /\ ctxDone' = ctxDone \ {j}
  /\ UNCHANGED <<dbVars, sem, workVars, cancelReq, phase, crashes, histVars>>

(* Mutant of LoadJob: the status of the loaded row is not looked at.       *)
LoadJobAnyStatus(j) ==
  /\ pc[j] = "load"
  /\ pc' = [pc EXCEPT ![j] = IF j \in ctxDone THEN "exit" ELSE "mark"]
  /\ UNCHANGED <<dbVars, sem, running, ctxDone, workVars, cancelReq, phase,
                 crashes, histVars>>

(* GetJob runs under the job's context: a cancelled context makes the load *)
(* fail and executeJob returns without touching the row.                   *)
LoadJob(j) ==
  /\ pc[j] = "load"
  /\ pc' = [pc EXCEPT ![j] =
              IF j \in ctxDone \/ row[j].status # "pending"
              THEN "exit" ELSE "mark"]
  /\ UNCHANGED <<dbVars, sem, running, ctxDone, workVars, cancelReq, phase,
                 crashes, histVars>>

(* The status is overwritten whatever it has become since the load.        *)
MarkRunning(j) ==
  /\ Goto(j, "mark", "run")
  /\ DbExecIgnore(j, [row[j] EXCEPT !.status = "running"])
  /\ runs' = [runs EXCEPT ![j] = @ + 1]
  /\ UNCHANGED <<sem, running, ctxDone, workVars, cancelReq, phase, crashes,
                 ops, acked>>

-----------------------------------------------------------------------------
(***************************************************************************)
(* The bodies of the job types.  fanout_upgrade, backup, reboot and        *)
(* refresh visit their devices one after the other and look at the         *)
(* context before each; upgrade has one device and does not look, and the  *)
(* AP that ends a fanout is not preceded by a look either.  bulk_upgrade   *)
(* starts a goroutine per device, at most BulkWidth at a time, stations    *)
(* first.                                                                  *)
(***************************************************************************)
ChecksContext(j, d) ==
  \/ JobType[j] \in {"backup", "reboot", "refresh"}
  \/ JobType[j] = "fanout_upgrade" /\ d <= NSta[j]

StartOperation(j) ==
  /\ busy' = [busy EXCEPT ![j] = @ \cup {next[j]}]
  /\ next' = [next EXCEPT ![j] = @ + 1]
  /\ ops' = [ops EXCEPT ![j][next[j]] = @ + 1]

BeginDevice(j) ==
  /\ pc[j] = "run"
  /\ JobType[j] \in Sequential
  /\ next[j] \in Devs(j)
  /\ busy[j] = {}
  /\ ~ jobErr[j]
  /\ ~ (ChecksContext(j, next[j]) /\ j \in ctxDone)
  /\ StartOperation(j)
  /\ UNCHANGED <<dbVars, execVars, outcome, jobErr, cancelReq, phase,
                 crashes, runs, acked>>

BulkDispatch(j) ==
  /\ pc[j] = "run"
  /\ JobType[j] = "bulk_upgrade"
  /\ next[j] \in Devs(j)
  /\ Cardinality(busy[j]) < BulkWidth
  /\ StartOperation(j)
  /\ UNCHANGED <<dbVars, execVars, outcome, jobErr, cancelReq, phase,
                 crashes, runs, acked>>

Attempted(j, oc) == Cardinality({d \in Devs(j) : oc[d] # "none"})

(* The operation on d ends; updateProgress writes completed_steps, the     *)
(* number of devices attempted.  The goroutines of a bulk job do this even *)
(* after executeJob has returned.  A failed single upgrade is the error of *)
(* the job and writes no progress.                                         *)
EndDevice(j, d, o) ==
  /\ d \in busy[j]
  /\ o = "skipped" => JobType[j] \in Upgrades
  /\ o = "noresult" => JobType[j] = "fanout_upgrade"
  /\ busy' = [busy EXCEPT ![j] = @ \ {d}]
  /\ outcome' = [outcome EXCEPT ![j][d] = o]
  /\ LET fails == JobType[j] = "upgrade" /\ o = "failed" IN
       /\ jobErr' = [jobErr EXCEPT ![j] = @ \/ fails]
       /\ IF fails
          THEN UNCHANGED dbVars
          ELSE DbExecIgnore(j, [row[j] EXCEPT !.steps = Attempted(j, outcome'[j])])
  /\ UNCHANGED <<execVars, next, cancelReq, phase, crashes, histVars>>

(* The queries that list the stations of a fanout and read the backup      *)
(* directory come before the first device, and their errors end the job.   *)
HasSetup(j) == JobType[j] \in {"fanout_upgrade", "backup"} /\ next[j] = 1

FailSetup(j) ==
  /\ Goto(j, "run", "finish")
  /\ HasSetup(j)
  /\ jobErr' = [jobErr EXCEPT ![j] = TRUE]
  /\ UNCHANGED <<dbVars, sem, running, ctxDone, next, busy, outcome,
                 cancelReq, phase, crashes, histVars>>

(* Mutant of AbortBody: no loop waits for what it has started.             *)
AbortBodyNow(j) ==
  /\ Goto(j, "run", "finish")
  /\ j \in ctxDone
  /\ next[j] \in Devs(j)
  /\ jobErr' = [jobErr EXCEPT ![j] = TRUE]
  /\ UNCHANGED <<dbVars, sem, running, ctxDone, next, busy, outcome,
                 cancelReq, phase, crashes, histVars>>

(* A cancelled context ends a sequential loop at the next look, and a bulk *)
(* loop at the next select: without waiting for its goroutines.            *)
AbortBody(j) ==
  /\ Goto(j, "run", "finish")
  /\ j \in ctxDone
  /\ next[j] \in Devs(j)
  /\ \/ JobType[j] = "bulk_upgrade"
     \/ ChecksContext(j, next[j]) /\ busy[j] = {}
  /\ jobErr' = [jobErr EXCEPT ![j] = TRUE]
  /\ UNCHANGED <<dbVars, sem, running, ctxDone, next, busy, outcome,
                 cancelReq, phase, crashes, histVars>>

(* Mutant of EndBody: wg.Wait is missing at the end of a bulk job.         *)
EndBodyNoWait(j) ==
  /\ Goto(j, "run", "finish")
  /\ next[j] \notin Devs(j)
  /\ UNCHANGED <<dbVars, sem, running, ctxDone, workVars, cancelReq, phase,
                 crashes, histVars>>

(* The body returns once nothing is left to start or in flight.  A job     *)
(* type the switch does not know, and an upgrade without a device, fail.   *)
EndBody(j) ==
  /\ Goto(j, "run", "finish")
  /\ busy[j] = {}
  /\ \/ next[j] \notin Devs(j)
     \/ jobErr[j]
     \/ JobType[j] \notin KnownTypes
  /\ jobErr' = [jobErr EXCEPT ![j] =
                  \/ @
                  \/ JobType[j] \notin KnownTypes
                  \/ JobType[j] \in {"upgrade", "fanout_upgrade"} /\ NDev[j] = 0]
  /\ UNCHANGED <<dbVars, sem, running, ctxDone, next, busy, outcome,
                 cancelReq, phase, crashes, histVars>>

-----------------------------------------------------------------------------
(***************************************************************************)
(* The end of executeJob.                                                  *)
(***************************************************************************)
Results(j) ==
  {outcome[j][d] : d \in Devs(j)}
    \ (IF JobType[j] = "fanout_upgrade" THEN {"noresult"} ELSE {})

FinalStatus(j) ==
  CASE jobErr[j] /\ j \in ctxDone -> "cancelled"
    [] jobErr[j] /\ j \notin ctxDone -> "failed"
    [] ~jobErr[j] /\ JobType[j] \in Upgrades ->
         IF Results(j) = {"skipped"} THEN "skipped"
         ELSE IF "success" \in Results(j) THEN "rebooting"
         ELSE "completed"
    [] ~jobErr[j] /\ JobType[j] = "refresh" /\ "failed" \in Results(j) ->
         "failed"
    [] OTHER -> "completed"

FinishJob(j) ==
  /\ Goto(j, "finish", "stamp")
  /\ DbExecIgnore(j, [row[j] EXCEPT !.status = FinalStatus(j)])
  /\ UNCHANGED <<sem, running, ctxDone, workVars, cancelReq, phase, crashes,
                 histVars>>

StampCompleted(j) ==
  /\ Goto(j, "stamp", "exit")
  /\ DbExecIgnore(j, [row[j] EXCEPT !.stamped = TRUE])
  /\ UNCHANGED <<sem, running, ctxDone, workVars, cancelReq, phase, crashes,
                 histVars>>

(* The deferred calls: wg.Done, delete from running, cancel, <-jobSem.     *)
ReleaseJob(j, from, to) ==
  /\ Goto(j, from, to)
  /\ sem' = sem - 1
  /\ running' = running \ {j}
  /\ ctxDone' = ctxDone \cup {j}

(* Mutant of ExitJob: the deferred release of the slot is missing.         *)
ExitJobLeaks(j) ==
  /\ Goto(j, "exit", "none")
  /\ running' = running \ {j}
  /\ ctxDone' = ctxDone \cup {j}
  /\ UNCHANGED <<dbVars, sem, workVars, cancelReq, phase, crashes, histVars>>

ExitJob(j) ==
  /\ ReleaseJob(j, "exit", "none")
  /\ UNCHANGED <<dbVars, workVars, cancelReq, phase, crashes, histVars>>

(* Mutant of PanicJob: a panic skips the release of slot and map entry.    *)
PanicJobLeaks(j) ==
  /\ busy[j] = {}
  /\ Goto(j, "run", "panic")
  /\ UNCHANGED <<dbVars, sem, running, ctxDone, workVars, cancelReq, phase,
                 crashes, histVars>>

(* A panic in the body runs the deferred calls first and then the recover  *)
(* function, which marks the job failed.                                   *)
PanicJob(j) ==
  /\ busy[j] = {}
  /\ ReleaseJob(j, "run", "panic")
  /\ UNCHANGED <<dbVars, workVars, cancelReq, phase, crashes, histVars>>

RecoverPanic(j) ==
  /\ Goto(j, "panic", "none")
  /\ DbExecIgnore(j, [row[j] EXCEPT !.status = "failed", !.stamped = TRUE])
  /\ UNCHANGED <<sem, running, ctxDone, workVars, cancelReq, phase, crashes,
                 histVars>>

-----------------------------------------------------------------------------
(***************************************************************************)
(* CancelJob: look the job up under the lock, release the lock, and if it  *)
(* was not registered cancel the row where it is still pending.            *)
(***************************************************************************)
CancelLookup(j) ==
  /\ Serving
  /\ row[j].status # "absent"
  /\ cancelReq[j] = "idle"
  /\ IF j \in running
     THEN /\ ctxDone' = ctxDone \cup {j}
          /\ acked' = [acked EXCEPT ![j] = @ \cup {"signalled"}]
          /\ UNCHANGED cancelReq
     ELSE /\ cancelReq' = [cancelReq EXCEPT ![j] = "missed"]
          /\ UNCHANGED <<ctxDone, acked>>
  /\ UNCHANGED <<dbVars, pc, sem, running, workVars, phase, crashes, runs, ops>>

CancelRow(j) ==
  /\ cancelReq[j] = "missed"
  /\ cancelReq' = [cancelReq EXCEPT ![j] = "idle"]
  /\ IF row[j].status = "pending"
     THEN /\ row' = [row EXCEPT ![j] = [@ EXCEPT !.status = "cancelled", !.stamped = TRUE]]
          /\ acked' = [acked EXCEPT ![j] = @ \cup {"row"}]
     ELSE UNCHANGED <<row, acked>>
  /\ UNCHANGED <<execVars, workVars, phase, dbErrors, crashes, runs, ops>>

-----------------------------------------------------------------------------
(***************************************************************************)
(* Shutdown, process exit and Start.                                       *)
(***************************************************************************)
BeginShutdown ==
  /\ phase = "up"
  /\ crashes < MaxCrashes
  /\ phase' = "draining"
  /\ ctxDone' = ctxDone \cup running
  /\ UNCHANGED <<dbVars, pc, sem, running, workVars, cancelReq, crashes,
                 histVars>>

(* r.wg.Wait returns: Shutdown reports that all jobs completed.            *)
DrainDone ==
  /\ phase = "draining"
  /\ \A j \in Jobs : pc[j] \notin Registered
  /\ phase' = "drained"
  /\ UNCHANGED <<dbVars, execVars, workVars, cancelReq, crashes, histVars>>

DrainTimeout ==
  /\ phase = "draining"
  /\ phase' = "exiting"
  /\ UNCHANGED <<dbVars, execVars, workVars, cancelReq, crashes, histVars>>

(* The process goes away, by a crash at any time or at the end of a        *)
(* shutdown, and everything but the database with it.                      *)
ProcessExit ==
  /\ phase # "down"
  /\ crashes < MaxCrashes
  /\ crashes' = crashes + 1
  /\ phase' = "down"
  /\ pc' = [j \in Jobs |-> "none"]
  /\ sem' = 0
  /\ running' = {}
  /\ ctxDone' = {}
  /\ next' = [j \in Jobs |-> 1]
  /\ busy' = [j \in Jobs |-> {}]
  /\ outcome' = [j \in Jobs |-> [d \in Slots |-> "none"]]
  /\ jobErr' = [j \in Jobs |-> FALSE]
  /\ cancelReq' = [j \in Jobs |-> "idle"]
  /\ UNCHANGED <<dbVars, histVars>>

(* Mutant of Start: rows left running are queued again instead of failed.  *)
StartRequeues ==
  /\ phase = "down"
  /\ phase' = "up"
  /\ row' = [j \in Jobs |-> IF row[j].status = "running"
                            THEN [row[j] EXCEPT !.status = "pending"]
                            ELSE row[j]]
  /\ pc' = [j \in Jobs |-> IF row'[j].status = "pending" THEN "wait" ELSE "none"]
  /\ UNCHANGED <<sem, running, ctxDone, workVars, cancelReq, dbErrors, crashes,
                 histVars>>

(* Start: rows left running are failed, pending rows get a goroutine.      *)
Start ==
  /\ phase = "down"
  /\ phase' = "up"
  /\ \/ /\ row' = [j \in Jobs |-> IF row[j].status = "running"
                                  THEN [row[j] EXCEPT !.status = "failed"]
                                  ELSE row[j]]
        /\ UNCHANGED dbErrors
     \/ /\ dbErrors < MaxDbErrors
        /\ dbErrors' = dbErrors + 1
        /\ UNCHANGED row
  /\ pc' = [j \in Jobs |-> IF row[j].status = "pending" THEN "wait" ELSE "none"]
  /\ UNCHANGED <<sem, running, ctxDone, workVars, cancelReq, crashes, histVars>>

-----------------------------------------------------------------------------
ExecStep(j) ==
  \/ AcquireSlot(j) \/ RegisterJob(j) \/ LoadJob(j) \/ MarkRunning(j)
  \/ BeginDevice(j) \/ BulkDispatch(j) \/ AbortBody(j) \/ EndBody(j)
  \/ FailSetup(j)
  \/ FinishJob(j) \/ StampCompleted(j) \/ ExitJob(j) \/ RecoverPanic(j)

OperationEnds(j) == \E d \in Slots, o \in OpResults : EndDevice(j, d, o)

Next ==
  \/ \E j \in Jobs :
       \/ StartJob(j) \/ ExecStep(j) \/ OperationEnds(j) \/ PanicJob(j)
       \/ CancelLookup(j) \/ CancelRow(j)
  \/ BeginShutdown \/ DrainDone \/ DrainTimeout \/ ProcessExit \/ Start

Spec == Init /\ [][Next]_vars

(* The Go scheduler runs every runnable goroutine; device operations have  *)
(* timeouts; the wait of Shutdown has a timer, and main returns after it;  *)
(* a stopped server is started again.  One of these steps happens as long  *)
(* as one can, which is enough: no executor goes round in a circle.        *)
ServiceStep ==
  \/ \E j \in Jobs : ExecStep(j) \/ OperationEnds(j)
  \/ DrainDone \/ DrainTimeout
  \/ phase \in {"drained", "exiting"} /\ ProcessExit
  \/ Start

Fairness == WF_vars(ServiceStep) /\ WF_vars(\E j \in Jobs : CancelRow(j))

FairSpec == Spec /\ Fairness

-----------------------------------------------------------------------------
(***************************************************************************)
(* Properties.                                                             *)
(***************************************************************************)

(* Slots and the map of cancel functions account exactly for the executors *)
(* that hold them, through panics, aborts and restarts: jobSem (runner.go: *)
(* 263-273) is never over-drained, never leaks, and no job runs that       *)
(* CancelJob and Shutdown cannot find in r.running.                        *)
SlotAccounting ==
  /\ sem = Cardinality({j \in Jobs : pc[j] \in Holding})
  /\ sem <= MaxJobs
  /\ running = {j \in Jobs : pc[j] \in Registered}

(* As long as no write of the row was lost, no device is operated on twice *)
(* for one job, whatever crashes, shutdowns and restarts come between: the *)
(* recovery of Start (runner.go:178-209) re-runs only jobs whose body was  *)
(* never entered.                                                          *)
AtMostOnce ==
  dbErrors = 0 => \A j \in Jobs : \A d \in Slots : ops[j][d] <= 1

(* A job that reports completed, skipped or rebooting has attempted every  *)
(* one of its devices, shows that as its progress, and has no operation in *)
(* flight (runner.go:338-417, 565-566).                                    *)
CompletionIsTotal ==
  dbErrors = 0 =>
    \A j \in Jobs : row[j].status \in {"completed", "skipped", "rebooting"} =>
      /\ busy[j] = {}
      /\ row[j].steps = NDev[j]
      /\ \A d \in Devs(j) : ops[j][d] = 1

Final == {"rebooting", "completed", "skipped", "failed", "cancelled"}

(* The row and the body of a job, as JobLifecycle speaks of them.          *)
StatusOf == [j \in Jobs |-> row[j].status]
BodyOf == [j \in Jobs |-> CASE pc[j] = "mark" -> "loaded"
                            [] pc[j] \in {"run", "finish"} -> "active"
                            [] OTHER -> IF runs[j] = 0 THEN "none" ELSE "over"]

Lifecycle == INSTANCE JobLifecycle WITH
  st <- StatusOf, exec <- BodyOf, lost <- dbErrors > 0

(* Until a write is lost the runner implements the lifecycle of            *)
(* JobLifecycle (runner.go:249-429): one entry into the body, a final      *)
(* status when it ends, failed when it was cut off, and no change after.   *)
ImplementsLifecycle == Lifecycle!Spec

(* What "Job %s: cancelled pending job" (runner.go:860) reports: a job     *)
(* whose pending row was cancelled is not executed.                        *)
CancelledPendingNeverRuns ==
  [][\A j \in Jobs : "row" \in acked[j] => runs'[j] = runs[j]]_vars

(* "Shutdown waits for running jobs to complete" (runner.go:1037): when    *)
(* the wait has succeeded no device operation of a job is still in flight, *)
(* for the jobs that visit their devices one by one.  A bulk upgrade that  *)
(* is cancelled does leave upgrades behind (runner.go:531).                *)
DrainedMeansQuiet ==
  phase = "drained" =>
    \A j \in Jobs : JobType[j] \in Sequential /\ pc[j] = "none" => busy[j] = {}

=============================================================================
