-------------------------- MODULE SchedulerProofs --------------------------
(***************************************************************************)
(* Proofs about Scheduler for every set of instances, jobs and goroutines, *)
(* any number of exits, edits and changes of the limit, and about the      *)
(* windows of MaintenanceWindow for any length of the day, any zones and   *)
(* any tables of windows.                                                  *)
(*                                                                         *)
(* One goroutine per job is not inductive: it rests on ClaimInv, which     *)
(* says that a job somebody works on is neither pending nor blocked, so    *)
(* that the conditional update of claimJob cannot succeed for it.  The     *)
(* update of blockJobForMaintenance has no condition and breaks ClaimInv,  *)
(* hence the assumption that no window holds a job back.                   *)
(***************************************************************************)
EXTENDS Scheduler, MaintenanceWindow, FiniteSetTheorems, NaturalsInduction, WellFoundedInduction, TLAPS

(* No job is ever blocked: there are no enabled maintenance windows, or    *)
(* scheduler_respect_maintenance is off.                                   *)
NeverBlocked == Windowed = {} /\ NoWindow = {}

(* A goroutine works for an instance, on a job.                            *)
Placed == \A r \in RunIds : rpc[r] # "free" => rjob[r] \in Jobs /\ rinst[r] \in Instances

(* What a goroutine is about to write is final.                            *)
WritesFinal == \A r \in RunIds :
  rpc[r] = "write" => rstatus[r] \in {"completed", "failed", "cancelled"}

(* A job somebody works on cannot be claimed, nor created anew.            *)
NotClaimable == \A r \in RunIds :
  rpc[r] \in Active => status[rjob[r]] \notin {"absent", "pending", "blocked"}

TypeInv == TypeOK /\ Placed

ClaimInv == TypeInv /\ WritesFinal /\ NotClaimable /\ OneRunPerJob

LEMMA InitTypes == Init => TypeInv
BY SchedulerAssumption, NullAssumption
   DEF Init, TypeInv, TypeOK, Placed, Statuses, Positions, Gens

LEMMA GoneTypes ==
  ASSUME TypeInv, NEW R \in SUBSET RunIds, Gone(R)
  PROVE  /\ rpc' \in [RunIds -> Positions]
         /\ rjob' \in [RunIds -> Jobs \cup {NoJob}]
         /\ rinst' \in [RunIds -> Instances \cup {NoJob}]
         /\ rctx' \in [RunIds -> BOOLEAN]
         /\ rdone' \in [RunIds -> Nat]
         /\ rerr' \in [RunIds -> {"none", "cancelled", "other"}]
         /\ rstatus' \in [RunIds -> Statuses]
         /\ rrepeat' \in [RunIds -> BOOLEAN]
         /\ Placed'
         /\ \A r \in RunIds : rpc'[r] # "free" =>
              r \notin R /\ rpc'[r] = rpc[r] /\ rjob'[r] = rjob[r]
              /\ rstatus'[r] = rstatus[r]
<1>1. rpc' \in [RunIds -> Positions] /\ rjob' \in [RunIds -> Jobs \cup {NoJob}]
      /\ rinst' \in [RunIds -> Instances \cup {NoJob}]
  BY DEF TypeInv, TypeOK, Gone, Positions
<1>2. rctx' \in [RunIds -> BOOLEAN] /\ rrepeat' \in [RunIds -> BOOLEAN]
  BY DEF TypeInv, TypeOK, Gone
<1>3. rdone' \in [RunIds -> Nat]
      /\ rerr' \in [RunIds -> {"none", "cancelled", "other"}]
      /\ rstatus' \in [RunIds -> Statuses]
  BY DEF TypeInv, TypeOK, Gone, Statuses
<1>4. \A r \in RunIds : rpc'[r] # "free" =>
        r \notin R /\ rpc'[r] = rpc[r] /\ rjob'[r] = rjob[r]
        /\ rinst'[r] = rinst[r] /\ rstatus'[r] = rstatus[r]
  BY DEF Gone
<1>5. Placed'
  BY <1>4 DEF Placed, TypeInv
<1> QED BY <1>1, <1>2, <1>3, <1>4, <1>5

LEMMA ReceiveTypes ==
  ASSUME TypeInv, NEW i \in Instances, ReceiveToken(i)
  PROVE  tokens' \in [Instances -> [Gens -> Nat]] /\ gen' = gen
BY DEF TypeInv, TypeOK, ReceiveToken

(* The status a run ends with is one of the three final ones.              *)
LEMMA FinalStatusFinal ==
  \A r \in RunIds : FinalStatus(r) \in {"completed", "failed", "cancelled"}
<1> SUFFICES ASSUME NEW r \in RunIds
             PROVE  FinalStatus(r) \in {"completed", "failed", "cancelled"}
  OBVIOUS
<1>1. CASE rerr[r] = "none"
  BY <1>1 DEF FinalStatus
<1>2. CASE rerr[r] # "none" /\ rerr[r] = "cancelled"
           /\ status[rjob[r]] = "cancelled" /\ rinst[r] \notin stopping
  BY <1>2 DEF FinalStatus
<1>3. CASE rerr[r] # "none" /\ ~(rerr[r] = "cancelled"
           /\ status[rjob[r]] = "cancelled" /\ rinst[r] \notin stopping)
  BY <1>3 DEF FinalStatus
<1> QED BY <1>1, <1>2, <1>3

(* Every step keeps the types.                                             *)
LEMMA StepTypes ==
  ASSUME TypeInv, [Next]_vars
  PROVE  TypeInv'
<1> USE NullAssumption, SchedulerAssumption
<1>1. ASSUME NEW j \in Jobs, CreateJob(j) PROVE TypeInv'
  BY <1>1 DEF CreateJob, TypeInv, TypeOK, Placed, loopVars, semVars, procVars,
              runVars, Statuses
<1>2. ASSUME NEW j \in Jobs, UpdateJobSchedule(j) PROVE TypeInv'
  <2>1. status' \in [Jobs -> Statuses] /\ nextSet' \in [Jobs -> BOOLEAN]
        /\ due' \in [Jobs -> BOOLEAN] /\ edits' \in Nat
    BY <1>2 DEF UpdateJobSchedule, TypeInv, TypeOK, Statuses
  <2>2. repeat' \in [Jobs -> BOOLEAN]
    BY <1>2 DEF UpdateJobSchedule, TypeInv, TypeOK
  <2> QED BY <1>2, <2>1, <2>2 DEF UpdateJobSchedule, TypeInv, TypeOK, Placed,
             loopVars, semVars, runVars
<1>3. ASSUME NEW j \in Jobs, TimePasses(j) PROVE TypeInv'
  BY <1>3 DEF TimePasses, TypeInv, TypeOK, Placed, loopVars, semVars, procVars,
              runVars
<1>4. ASSUME NEW i \in Instances, NEW j \in Jobs, CancelRow(i, j) PROVE TypeInv'
  BY <1>4 DEF CancelRow, TypeInv, TypeOK, Placed, loopVars, semVars, procVars,
              runVars, Statuses
<1>5. ASSUME NEW i \in Instances, NEW j \in Jobs, CancelContext(i, j)
      PROVE  TypeInv'
  <2>1. rctx' \in [RunIds -> BOOLEAN]
    BY <1>5 DEF CancelContext, TypeInv, TypeOK
  <2>2. cancelReq' \in [Jobs -> SUBSET Instances]
    BY <1>5 DEF CancelContext, TypeInv, TypeOK
  <2> QED BY <1>5, <2>1, <2>2 DEF CancelContext, TypeInv, TypeOK, Placed,
             tableVars, loopVars, semVars, procVars
<1>6. ASSUME NEW i \in Instances, ReloadSettings(i) PROVE TypeInv'
  <2>1. gen' \in [Instances -> Gens]
    <3>1. gen[i] \in 0..MaxReloads /\ gen[i] < MaxReloads
      BY <1>6 DEF ReloadSettings, TypeInv, TypeOK, Gens
    <3>2. gen[i] + 1 \in Gens
      BY <3>1 DEF Gens
    <3> QED BY <1>6, <3>2 DEF ReloadSettings, TypeInv, TypeOK
  <2> QED BY <1>6, <2>1 DEF ReloadSettings, TypeInv, TypeOK, Placed, tableVars,
             loopVars, procVars, runVars
<1>7. ASSUME NEW i \in Instances, ListJobs(i) PROVE TypeInv'
  BY <1>7 DEF ListJobs, Due, TypeInv, TypeOK, Placed, tableVars, semVars,
              procVars, runVars
<1>8. ASSUME NEW i \in Instances, NEW j \in Jobs, BlockJob(i, j) PROVE TypeInv'
  <2>1. due' \in [Jobs -> BOOLEAN] /\ nextSet' \in [Jobs -> BOOLEAN]
    BY <1>8 DEF BlockJob, TypeInv, TypeOK
  <2>2. status' \in [Jobs -> Statuses] /\ todo' \in [Instances -> SUBSET Jobs]
    BY <1>8 DEF BlockJob, TypeInv, TypeOK, Statuses
  <2> QED BY <1>8, <2>1, <2>2 DEF BlockJob, TypeInv, TypeOK, Placed, semVars,
             procVars, runVars
<1>9. ASSUME NEW i \in Instances, NEW j \in Jobs, TakeSlot(i, j) PROVE TypeInv'
  BY <1>9 DEF TakeSlot, TypeInv, TypeOK, Placed, tableVars, procVars, runVars
<1>10. ASSUME NEW i \in Instances, NEW j \in Jobs, NoSlot(i, j) PROVE TypeInv'
  BY <1>10 DEF NoSlot, TypeInv, TypeOK, Placed, tableVars, semVars, procVars,
               runVars
<1>11. ASSUME NEW i \in Instances, NEW r \in RunIds, ClaimJob(i, r)
       PROVE  TypeInv'
  <2>1. claiming[i] \in Jobs
    BY <1>11 DEF ClaimJob, TypeInv, TypeOK
  <2>2. status' \in [Jobs -> Statuses]
        /\ claiming' \in [Instances -> Jobs \cup {NoJob}]
        /\ rpc' \in [RunIds -> Positions]
        /\ rjob' \in [RunIds -> Jobs \cup {NoJob}]
        /\ rinst' \in [RunIds -> Instances \cup {NoJob}]
    BY <1>11, <2>1 DEF ClaimJob, TypeInv, TypeOK, Statuses, Positions
  <2>3. rctx' \in [RunIds -> BOOLEAN] /\ rdone' \in [RunIds -> Nat]
        /\ rerr' \in [RunIds -> {"none", "cancelled", "other"}]
        /\ rrepeat' \in [RunIds -> BOOLEAN]
    BY <1>11, <2>1 DEF ClaimJob, TypeInv, TypeOK
  <2>4. Placed'
    BY <1>11, <2>1 DEF ClaimJob, TypeInv, TypeOK, Placed
  <2> QED BY <1>11, <2>2, <2>3, <2>4 DEF ClaimJob, TypeInv, TypeOK, semVars,
             procVars
<1>12. ASSUME NEW i \in Instances, ClaimFails(i) PROVE TypeInv'
  <2>1. tokens' \in [Instances -> [Gens -> Nat]] /\ gen' = gen
    BY <1>12, ReceiveTypes DEF ClaimFails
  <2> QED BY <1>12, <2>1 DEF ClaimFails, TypeInv, TypeOK, Placed, tableVars,
             procVars, runVars
<1>13. ASSUME NEW r \in RunIds, RegisterRun(r) PROVE TypeInv'
  <2>1. rjob[r] \in Jobs /\ rinst[r] \in Instances
    BY <1>13 DEF RegisterRun, TypeInv, Placed
  <2>2. cancels' \in [Instances -> [Jobs -> RunIds \cup {NoRun}]]
    BY <1>13, <2>1 DEF RegisterRun, TypeInv, TypeOK
  <2>3. rpc' \in [RunIds -> Positions] /\ rctx' \in [RunIds -> BOOLEAN]
    BY <1>13 DEF RegisterRun, TypeInv, TypeOK, Positions
  <2>4. Placed'
    BY <1>13, <2>1 DEF RegisterRun, TypeInv, TypeOK, Placed
  <2> QED BY <1>13, <2>2, <2>3, <2>4 DEF RegisterRun, TypeInv, TypeOK,
             tableVars, loopVars, semVars, procVars
<1>14. ASSUME NEW r \in RunIds, RunDevice(r) PROVE TypeInv'
  <2>1. rpc' \in [RunIds -> Positions] /\ rdone' \in [RunIds -> Nat]
        /\ rerr' \in [RunIds -> {"none", "cancelled", "other"}]
    <3>1. CASE rctx[r]
      <4>1. rpc' = [rpc EXCEPT ![r] = "read"]
            /\ rerr' = [rerr EXCEPT ![r] = "cancelled"] /\ rdone' = rdone
        BY <1>14, <3>1, Zenon DEF RunDevice
      <4> QED BY <4>1 DEF TypeInv, TypeOK, Positions
    <3>2. CASE ~ rctx[r]
      <4>1. rdone' = [rdone EXCEPT ![r] = @ + 1] /\ rpc' = rpc /\ rerr' = rerr
        BY <1>14, <3>2, Zenon DEF RunDevice
      <4> QED BY <4>1 DEF TypeInv, TypeOK
    <3> QED BY <3>1, <3>2
  <2>2. Placed'
    BY <1>14 DEF RunDevice, TypeInv, TypeOK, Placed
  <2> QED BY <1>14, <2>1, <2>2 DEF RunDevice, TypeInv, TypeOK, tableVars,
             loopVars, semVars, procVars
<1>15. ASSUME NEW r \in RunIds, EndBody(r) PROVE TypeInv'
  <2>1. rpc' \in [RunIds -> Positions]
        /\ rerr' \in [RunIds -> {"none", "cancelled", "other"}]
    BY <1>15 DEF EndBody, TypeInv, TypeOK, Positions
  <2>2. Placed'
    BY <1>15 DEF EndBody, TypeInv, TypeOK, Placed
  <2> QED BY <1>15, <2>1, <2>2 DEF EndBody, TypeInv, TypeOK, tableVars,
             loopVars, semVars, procVars
<1>16. ASSUME NEW r \in RunIds, ReadStatus(r) PROVE TypeInv'
  <2>1. FinalStatus(r) \in Statuses
    BY FinalStatusFinal DEF Statuses
  <2>2. rpc' \in [RunIds -> Positions] /\ rstatus' \in [RunIds -> Statuses]
    BY <1>16, <2>1 DEF ReadStatus, TypeInv, TypeOK, Positions
  <2>3. Placed'
    BY <1>16 DEF ReadStatus, TypeInv, TypeOK, Placed
  <2> QED BY <1>16, <2>2, <2>3 DEF ReadStatus, TypeInv, TypeOK, tableVars,
             loopVars, semVars, procVars
<1>17. ASSUME NEW r \in RunIds, WriteStatus(r) PROVE TypeInv'
  <2>1. rpc' \in [RunIds -> Positions] /\ status' \in [Jobs -> Statuses]
    BY <1>17 DEF WriteStatus, TypeInv, TypeOK, Positions
  <2>2. Placed'
    BY <1>17 DEF WriteStatus, TypeInv, TypeOK, Placed
  <2> QED BY <1>17, <2>1, <2>2 DEF WriteStatus, TypeInv, TypeOK, loopVars,
             semVars, procVars
<1>18. ASSUME NEW r \in RunIds, ScheduleNextRun(r) PROVE TypeInv'
  <2>1. rpc' \in [RunIds -> Positions]
    BY <1>18 DEF ScheduleNextRun, TypeInv, TypeOK, Positions
  <2>2. /\ status' \in [Jobs -> Statuses] /\ nextSet' \in [Jobs -> BOOLEAN]
        /\ due' \in [Jobs -> BOOLEAN]
    <3>1. /\ status \in [Jobs -> Statuses] /\ nextSet \in [Jobs -> BOOLEAN]
          /\ due \in [Jobs -> BOOLEAN]
      BY DEF TypeInv, TypeOK
    <3>2. CASE UNCHANGED <<status, nextSet, due>>
      BY <3>1, <3>2
    <3>3. CASE /\ status' = [status EXCEPT ![rjob[r]] = "pending"]
               /\ nextSet' = [nextSet EXCEPT ![rjob[r]] = TRUE]
               /\ due' = [due EXCEPT ![rjob[r]] = FALSE]
      BY <3>1, <3>3 DEF Statuses
    <3> QED BY <1>18, <3>2, <3>3 DEF ScheduleNextRun
  <2>3. Placed'
    BY <1>18 DEF ScheduleNextRun, TypeInv, TypeOK, Placed
  <2> QED BY <1>18, <2>1, <2>2, <2>3 DEF ScheduleNextRun, TypeInv, TypeOK,
             loopVars, semVars, procVars
<1>19. ASSUME NEW r \in RunIds, Unregister(r) PROVE TypeInv'
  <2>1. rjob[r] \in Jobs /\ rinst[r] \in Instances
    BY <1>19 DEF Unregister, TypeInv, Placed
  <2>2. cancels' \in [Instances -> [Jobs -> RunIds \cup {NoRun}]]
        /\ rpc' \in [RunIds -> Positions]
    BY <1>19, <2>1 DEF Unregister, TypeInv, TypeOK, Positions
  <2>3. Placed'
    BY <1>19, <2>1 DEF Unregister, TypeInv, TypeOK, Placed
  <2> QED BY <1>19, <2>2, <2>3 DEF Unregister, TypeInv, TypeOK, tableVars,
             loopVars, semVars, procVars
<1>20. ASSUME NEW r \in RunIds, ReleaseSlot(r) PROVE TypeInv'
  <2>1. rinst[r] \in Instances
    BY <1>20 DEF ReleaseSlot, TypeInv, Placed
  <2>2. tokens' \in [Instances -> [Gens -> Nat]] /\ gen' = gen
    BY <1>20, <2>1, ReceiveTypes DEF ReleaseSlot
  <2>3. Gone({r})
    BY <1>20 DEF ReleaseSlot
  <2> QED BY <1>20, <2>2, <2>3, GoneTypes DEF ReleaseSlot, TypeInv, TypeOK,
             tableVars, loopVars, procVars
<1>21. ASSUME NEW i \in Instances, BeginStop(i) PROVE TypeInv'
  <2>1. rctx' \in [RunIds -> BOOLEAN]
    BY <1>21 DEF BeginStop, TypeInv, TypeOK
  <2> QED BY <1>21, <2>1 DEF BeginStop, TypeInv, TypeOK, Placed, tableVars,
             loopVars, semVars
<1>22. ASSUME NEW i \in Instances, Exit(i) PROVE TypeInv'
  <2>1. Gone({r \in RunIds : rinst[r] = i})
    BY <1>22 DEF Exit
  <2>2. cancels' \in [Instances -> [Jobs -> RunIds \cup {NoRun}]]
        /\ tokens' \in [Instances -> [Gens -> Nat]]
    BY <1>22 DEF Exit, TypeInv, TypeOK
  <2>3. /\ todo' \in [Instances -> SUBSET Jobs]
        /\ claiming' \in [Instances -> Jobs \cup {NoJob}]
        /\ exits' \in Nat /\ stopping' \subseteq Instances
        /\ cancelReq' \in [Jobs -> SUBSET Instances]
    BY <1>22 DEF Exit, TypeInv, TypeOK
  <2> QED BY <1>22, <2>1, <2>2, <2>3, GoneTypes DEF Exit, TypeInv, TypeOK,
             tableVars
<1>23. CASE UNCHANGED vars
  BY <1>23 DEF vars, TypeInv, TypeOK, Placed, tableVars, loopVars, semVars,
               procVars, runVars
<1> QED BY <1>1, <1>2, <1>3, <1>4, <1>5, <1>6, <1>7, <1>8, <1>9, <1>10, <1>11,
           <1>12, <1>13, <1>14, <1>15, <1>16, <1>17, <1>18, <1>19, <1>20,
           <1>21, <1>22, <1>23 DEF Next, LoopStep, RunStep, UserStep

(* The state of the scheduler always has its types.                        *)
THEOREM SchedulerTypes == Spec => []TypeOK
<1>1. Init => TypeInv
  BY InitTypes
<1>2. TypeInv /\ [Next]_vars => TypeInv'
  BY StepTypes
<1>3. TypeInv => TypeOK
  BY DEF TypeInv
<1> QED BY <1>1, <1>2, <1>3, PTL DEF Spec

-----------------------------------------------------------------------------
(* A step that leaves the table's status column alone, starts no run and   *)
(* moves no run into write keeps ClaimInv.                                 *)
LEMMA QuietClaim ==
  ASSUME ClaimInv, TypeInv', NEW j \in Jobs,
         status' = status \/ status' = [status EXCEPT ![j] = "cancelled"]
           \/ (status[j] \in {"absent", "pending", "blocked"} /\ NeverBlocked
               /\ status' = [status EXCEPT ![j] = "pending"]),
         \A r \in RunIds : rpc'[r] \in Active =>
           rpc[r] \in Active /\ rjob'[r] = rjob[r],
         \A r \in RunIds : rpc'[r] = "write" =>
           rpc[r] = "write" /\ rstatus'[r] = rstatus[r]
  PROVE  ClaimInv'
<1>1. WritesFinal'
  BY DEF ClaimInv, WritesFinal
<1>2. NotClaimable'
  <2> SUFFICES ASSUME NEW r \in RunIds, rpc'[r] \in Active
               PROVE  status'[rjob'[r]] \notin {"absent", "pending", "blocked"}
    BY DEF NotClaimable
  <2>1. /\ rpc[r] \in Active /\ rjob'[r] = rjob[r] /\ rjob[r] \in Jobs
        /\ status[rjob[r]] \notin {"absent", "pending", "blocked"}
    BY DEF ClaimInv, TypeInv, Placed, NotClaimable, Active
  <2> QED BY <2>1 DEF ClaimInv, TypeInv, TypeOK
<1>3. OneRunPerJob'
  BY DEF ClaimInv, OneRunPerJob
<1> QED BY <1>1, <1>2, <1>3 DEF ClaimInv

(* Every step keeps ClaimInv when no job is ever blocked.                  *)
LEMMA StepClaim ==
  ASSUME NeverBlocked, ClaimInv, [Next]_vars
  PROVE  ClaimInv'
<1>0. TypeInv'
  BY StepTypes DEF ClaimInv
<1>1. ASSUME NEW j \in Jobs, CreateJob(j) PROVE ClaimInv'
  BY <1>0, <1>1, QuietClaim DEF CreateJob, runVars
<1>2. ASSUME NEW j \in Jobs, UpdateJobSchedule(j) PROVE ClaimInv'
  BY <1>0, <1>2, QuietClaim DEF UpdateJobSchedule, Claimable, runVars
<1>3. ASSUME NEW j \in Jobs, TimePasses(j) PROVE ClaimInv'
  BY <1>0, <1>3, QuietClaim DEF TimePasses, runVars
<1>4. ASSUME NEW i \in Instances, NEW j \in Jobs, CancelRow(i, j) PROVE ClaimInv'
  BY <1>0, <1>4, QuietClaim DEF CancelRow, runVars
<1>5. ASSUME NEW i \in Instances, NEW j \in Jobs, CancelContext(i, j)
      PROVE  ClaimInv'
  BY <1>0, <1>5, QuietClaim DEF CancelContext, tableVars
<1>6. ASSUME NEW i \in Instances, NEW j \in Jobs, BlockJob(i, j) PROVE ClaimInv'
  BY <1>6 DEF BlockJob, NeverBlocked
<1>7. ASSUME NEW i \in Instances, NEW j \in Jobs, TakeSlot(i, j) \/ NoSlot(i, j)
      PROVE  ClaimInv'
  BY <1>0, <1>7, QuietClaim DEF TakeSlot, NoSlot, tableVars, runVars
<1>8. ASSUME NEW i \in Instances, NEW r \in RunIds, ClaimJob(i, r)
      PROVE  ClaimInv'
  <2>1. PICK j \in Jobs : j = claiming[i] /\ status[j] \in Claimable
    BY <1>8, NullAssumption DEF ClaimJob, ClaimInv, TypeInv, TypeOK
  <2>2. \A s \in RunIds : rpc[s] \in Active => rjob[s] # j
    BY <2>1 DEF ClaimInv, NotClaimable, Claimable
  <2>3. /\ status' = [status EXCEPT ![j] = "running"]
        /\ rpc' = [rpc EXCEPT ![r] = "spawned"] /\ rjob' = [rjob EXCEPT ![r] = j]
        /\ rstatus' = rstatus
    BY <1>8, <2>1 DEF ClaimJob
  <2>4. WritesFinal'
    BY <2>3 DEF ClaimInv, TypeInv, TypeOK, WritesFinal
  <2>5. NotClaimable'
    BY <2>2, <2>3 DEF ClaimInv, TypeInv, TypeOK, Placed, NotClaimable, Active
  <2>6. OneRunPerJob'
    BY <2>2, <2>3 DEF ClaimInv, TypeInv, TypeOK, OneRunPerJob, Active
  <2> QED BY <1>0, <2>4, <2>5, <2>6 DEF ClaimInv
<1>9. ASSUME NEW r \in RunIds, RegisterRun(r) PROVE ClaimInv'
  <2>1. rjob[r] \in Jobs
    BY <1>9 DEF RegisterRun, ClaimInv, TypeInv, Placed
  <2> QED BY <1>0, <1>9, <2>1, QuietClaim
          DEF RegisterRun, ClaimInv, TypeInv, TypeOK, Active, tableVars
<1>10. ASSUME NEW r \in RunIds, RunDevice(r) PROVE ClaimInv'
  <2>1. rjob[r] \in Jobs
    BY <1>10 DEF RunDevice, ClaimInv, TypeInv, Placed
  <2>2. rpc' = rpc \/ rpc' = [rpc EXCEPT ![r] = "read"]
    BY <1>10, Zenon DEF RunDevice
  <2>3. UNCHANGED <<status, rjob, rstatus>>
    BY <1>10 DEF RunDevice, tableVars
  <2>4. \A s \in RunIds : rpc'[s] = rpc[s] \/ (rpc'[s] = "read" /\ rpc[s] = "run")
    BY <1>10, <2>2 DEF RunDevice, ClaimInv, TypeInv, TypeOK
  <2>5. \A s \in RunIds : /\ rpc'[s] \in Active => rpc[s] \in Active
                          /\ rpc'[s] = "write" => rpc[s] = "write"
    BY <2>4 DEF Active
  <2> QED BY <1>0, <2>1, <2>3, <2>5, QuietClaim
<1>11. ASSUME NEW r \in RunIds, EndBody(r) PROVE ClaimInv'
  <2>1. rjob[r] \in Jobs
    BY <1>11 DEF EndBody, ClaimInv, TypeInv, Placed
  <2> QED BY <1>0, <1>11, <2>1, QuietClaim
          DEF EndBody, ClaimInv, TypeInv, TypeOK, Active, tableVars
<1>12. ASSUME NEW r \in RunIds, ReadStatus(r) PROVE ClaimInv'
  <2>1. /\ rpc[r] = "read" /\ rpc' = [rpc EXCEPT ![r] = "write"]
        /\ rstatus' = [rstatus EXCEPT ![r] = FinalStatus(r)]
        /\ rjob' = rjob /\ status' = status
    BY <1>12 DEF ReadStatus, tableVars
  <2>2. WritesFinal'
    BY <2>1, FinalStatusFinal DEF ClaimInv, TypeInv, TypeOK, WritesFinal
  <2>3. NotClaimable' /\ OneRunPerJob'
    BY <2>1 DEF ClaimInv, TypeInv, TypeOK, NotClaimable, OneRunPerJob, Active
  <2> QED BY <1>0, <2>2, <2>3 DEF ClaimInv
<1>13. ASSUME NEW r \in RunIds, WriteStatus(r) PROVE ClaimInv'
  <2>1. /\ rpc[r] = "write" /\ rjob[r] \in Jobs
        /\ rstatus[r] \in {"completed", "failed", "cancelled"}
    BY <1>13 DEF WriteStatus, ClaimInv, TypeInv, Placed, WritesFinal
  <2>2. /\ status' = [status EXCEPT ![rjob[r]] = rstatus[r]]
        /\ \/ rpc' = [rpc EXCEPT ![r] = "resched"]
           \/ rpc' = [rpc EXCEPT ![r] = "deferred"]
        /\ rjob' = rjob /\ rstatus' = rstatus
    BY <1>13, Zenon DEF WriteStatus
  <2>3. WritesFinal'
    BY <2>2 DEF ClaimInv, TypeInv, TypeOK, WritesFinal
  <2>4. NotClaimable'
    BY <2>1, <2>2 DEF ClaimInv, TypeInv, TypeOK, Placed, NotClaimable, Active
  <2>5. OneRunPerJob'
    <3>1. \A s \in RunIds : rpc'[s] \in Active => rpc[s] \in Active
      BY <2>1, <2>2 DEF TypeInv, TypeOK, ClaimInv, Active
    <3> QED BY <2>2, <3>1 DEF ClaimInv, OneRunPerJob
  <2> QED BY <1>0, <2>3, <2>4, <2>5 DEF ClaimInv
<1>14. ASSUME NEW r \in RunIds, ScheduleNextRun(r) PROVE ClaimInv'
  <2>1. /\ rpc[r] = "resched" /\ rjob[r] \in Jobs
        /\ rpc' = [rpc EXCEPT ![r] = "deferred"] /\ rjob' = rjob
        /\ rstatus' = rstatus
        /\ status' = status \/ status' = [status EXCEPT ![rjob[r]] = "pending"]
    BY <1>14 DEF ScheduleNextRun, ClaimInv, TypeInv, Placed
  <2>2. \A s \in RunIds : s # r /\ rpc[s] \in Active => rjob[s] # rjob[r]
    BY <2>1 DEF ClaimInv, OneRunPerJob, Active
  <2>3. WritesFinal' /\ OneRunPerJob'
    BY <2>1 DEF ClaimInv, TypeInv, TypeOK, WritesFinal, OneRunPerJob, Active
  <2>4. NotClaimable'
    BY <2>1, <2>2 DEF ClaimInv, TypeInv, TypeOK, Placed, NotClaimable, Active
  <2> QED BY <1>0, <2>3, <2>4 DEF ClaimInv
<1>15. ASSUME NEW r \in RunIds, Unregister(r) PROVE ClaimInv'
  <2>1. rjob[r] \in Jobs
    BY <1>15 DEF Unregister, ClaimInv, TypeInv, Placed
  <2> QED BY <1>0, <1>15, <2>1, QuietClaim
          DEF Unregister, ClaimInv, TypeInv, TypeOK, Active, tableVars
<1>16. ASSUME NEW R \in SUBSET RunIds, Gone(R), status' = status PROVE ClaimInv'
  <2>1. /\ \A s \in RunIds : rpc'[s] # "free" =>
              rpc'[s] = rpc[s] /\ rjob'[s] = rjob[s] /\ rstatus'[s] = rstatus[s]
    BY <1>16, GoneTypes DEF ClaimInv
  <2>2. WritesFinal' /\ NotClaimable' /\ OneRunPerJob'
    BY <1>16, <2>1 DEF ClaimInv, WritesFinal, NotClaimable, OneRunPerJob, Active
  <2> QED BY <1>0, <2>2 DEF ClaimInv
<1>17. ASSUME NEW r \in RunIds, ReleaseSlot(r) PROVE ClaimInv'
  BY <1>16, <1>17 DEF ReleaseSlot, tableVars
<1>18. ASSUME NEW i \in Instances, Exit(i) PROVE ClaimInv'
  BY <1>16, <1>18 DEF Exit, tableVars
<1>19. CASE /\ status' = status /\ rpc' = rpc /\ rjob' = rjob
            /\ rstatus' = rstatus
  BY <1>0, <1>19 DEF ClaimInv, WritesFinal, NotClaimable, OneRunPerJob
<1>20. ASSUME NEW i \in Instances,
              ReloadSettings(i) \/ ListJobs(i) \/ ClaimFails(i) \/ BeginStop(i)
       PROVE  ClaimInv'
  BY <1>19, <1>20 DEF ReloadSettings, ListJobs, ClaimFails, BeginStop,
                      tableVars, runVars
<1>21. CASE UNCHANGED vars
  BY <1>19, <1>21 DEF vars, tableVars, runVars
<1> QED BY <1>1, <1>2, <1>3, <1>4, <1>5, <1>6, <1>7, <1>8, <1>9, <1>10, <1>11,
           <1>12, <1>13, <1>14, <1>15, <1>17, <1>18, <1>20, <1>21
        DEF Next, LoopStep, RunStep, UserStep

(* When no maintenance window holds jobs back, no two goroutines of any    *)
(* number of server processes ever work on one job: the conditional update *)
(* of claimJob (scheduler.go:449) is enough, through exits, edits, cancels *)
(* and repeats.                                                            *)
THEOREM ClaimedOnce == NeverBlocked => (Spec => []OneRunPerJob)
<1> SUFFICES ASSUME NeverBlocked PROVE Spec => []OneRunPerJob
  OBVIOUS
<1>1. Init => ClaimInv
  BY InitTypes DEF Init, ClaimInv, WritesFinal, NotClaimable, OneRunPerJob, Active
<1>2. ClaimInv /\ [Next]_vars => ClaimInv'
  BY StepClaim
<1>3. ClaimInv => OneRunPerJob
  BY DEF ClaimInv
<1> QED BY <1>1, <1>2, <1>3, PTL DEF Spec

(* When no maintenance window holds jobs back, a job cancelled while       *)
(* nobody works on it stays cancelled: claim, edit and creation are        *)
(* conditional on the status, and only a run writes without a condition.   *)
THEOREM IdleCancelHolds == NeverBlocked => (Spec => CancelledIdleStays)
<1> SUFFICES ASSUME NeverBlocked PROVE Spec => CancelledIdleStays
  OBVIOUS
<1> DEFINE Stays == \A j \in Jobs : status[j] = "cancelled" /\ ActiveRuns(j) = {}
                       => status'[j] = "cancelled"
<1>1. Init => TypeInv
  BY InitTypes
<1>2. TypeInv /\ [Next]_vars => TypeInv'
  BY StepTypes
<1>3. TypeInv /\ [Next]_vars => [Stays]_vars
  <2> SUFFICES ASSUME TypeInv, Next, NEW k \in Jobs, status[k] = "cancelled",
                      ActiveRuns(k) = {}
               PROVE  status'[k] = "cancelled"
    OBVIOUS
  <2>1. \A r \in RunIds : rpc[r] \in Active => rjob[r] # k
    BY DEF ActiveRuns
  <2>3. ASSUME NEW j \in Jobs, CreateJob(j) \/ UpdateJobSchedule(j)
        PROVE  status'[k] = "cancelled"
    BY <2>3 DEF CreateJob, UpdateJobSchedule, Claimable, TypeInv, TypeOK
  <2>4. ASSUME NEW i \in Instances, NEW j \in Jobs, CancelRow(i, j)
        PROVE  status'[k] = "cancelled"
    BY <2>4 DEF CancelRow, TypeInv, TypeOK
  <2>5. ASSUME NEW i \in Instances, NEW j \in Jobs, BlockJob(i, j)
        PROVE  status'[k] = "cancelled"
    BY <2>5 DEF BlockJob, NeverBlocked
  <2>6. ASSUME NEW i \in Instances, NEW r \in RunIds, ClaimJob(i, r)
        PROVE  status'[k] = "cancelled"
    BY <2>6, NullAssumption DEF ClaimJob, Claimable, TypeInv, TypeOK
  <2>7. ASSUME NEW r \in RunIds, WriteStatus(r) \/ ScheduleNextRun(r)
        PROVE  status'[k] = "cancelled"
    <3>1. rjob[r] # k
      BY <2>1, <2>7 DEF WriteStatus, ScheduleNextRun, Active
    <3> QED BY <2>7, <3>1 DEF WriteStatus, ScheduleNextRun, TypeInv, TypeOK
  <2>8. CASE status' = status
    BY <2>8
  <2>9. ASSUME NEW j \in Jobs, NEW i \in Instances,
               TimePasses(j) \/ CancelContext(i, j) \/ TakeSlot(i, j)
                 \/ NoSlot(i, j)
        PROVE  status'[k] = "cancelled"
    BY <2>8, <2>9 DEF TimePasses, CancelContext, TakeSlot, NoSlot, tableVars
  <2>10. ASSUME NEW i \in Instances,
                ReloadSettings(i) \/ ListJobs(i) \/ ClaimFails(i)
                  \/ BeginStop(i) \/ Exit(i)
         PROVE  status'[k] = "cancelled"
    BY <2>8, <2>10 DEF ReloadSettings, ListJobs, ClaimFails, BeginStop, Exit,
                       tableVars
  <2>11. ASSUME NEW r \in RunIds,
                RegisterRun(r) \/ RunDevice(r) \/ EndBody(r) \/ ReadStatus(r)
                  \/ Unregister(r) \/ ReleaseSlot(r)
         PROVE  status'[k] = "cancelled"
    BY <2>8, <2>11 DEF RegisterRun, RunDevice, EndBody, ReadStatus, Unregister,
                       ReleaseSlot, tableVars
  <2> QED BY <2>3, <2>4, <2>5, <2>6, <2>7, <2>9, <2>10, <2>11,
             SchedulerAssumption DEF Next, LoopStep, RunStep, UserStep
<1> QED BY <1>1, <1>2, <1>3, PTL DEF Spec, CancelledIdleStays

-----------------------------------------------------------------------------
(***************************************************************************)
(* Slots.  A change of the limit replaces the channel, and tokens are then *)
(* given back to another one than they were taken from; the accounts are   *)
(* kept of the first channel, as long as it is the one in use.             *)
(***************************************************************************)
Runs(i) == {r \in RunIds : rpc[r] # "free" /\ rinst[r] = i}
Claims(i) == IF claiming[i] = NoJob THEN 0 ELSE 1

(* The tokens of the first channel are those of the goroutines and of the  *)
(* claim under way, and the limit is kept.                                 *)
FirstChannel(i) ==
  gen[i] = 0 => /\ IsFiniteSet(Runs(i))
                /\ tokens[i][0] = Cardinality(Runs(i)) + Claims(i)
                /\ tokens[i][0] <= Cap[0]

ChannelInv == TypeInv /\ \A i \in Instances : FirstChannel(i)

(* While the limit is what it was at the start, the goroutines of a server *)
(* and the claim under way are within the limit, and whoever gives a token *)
(* back finds one in the channel.                                          *)
SlotsKept == \A i \in Instances : gen[i] = 0 =>
  /\ Cardinality(Runs(i)) + Claims(i) <= Cap[0]
  /\ (\E r \in RunIds : rpc[r] = "release" /\ rinst[r] = i) \/ claiming[i] # NoJob
       => tokens[i][gen[i]] > 0

(* An instance whose claim, channel and goroutines stay is accounted for.  *)
LEMMA Undisturbed ==
  ASSUME ChannelInv, NEW i \in Instances, gen'[i] = gen[i], claiming'[i] = claiming[i],
         tokens'[i] = tokens[i], Runs(i)' = Runs(i)
  PROVE  FirstChannel(i)'
BY DEF ChannelInv, FirstChannel, Claims

(* A goroutine that goes on stays one of its instance.                     *)
LEMMA RunsStay ==
  ASSUME TypeInv, NEW q \in RunIds, NEW p, p # "free", rpc[q] # "free",
         rpc' = [rpc EXCEPT ![q] = p], rinst' = rinst
  PROVE  \A i \in Instances : Runs(i)' = Runs(i)
<1>1. \A r \in RunIds : rpc'[r] # "free" <=> rpc[r] # "free"
  BY DEF TypeInv, TypeOK
<1> QED BY <1>1 DEF Runs

(* Nothing changes where no claim, channel or goroutine does.              *)
LEMMA RestChannel ==
  ASSUME ChannelInv, UNCHANGED <<gen, claiming, tokens>>,
         \A i \in Instances : Runs(i)' = Runs(i)
  PROVE  \A i \in Instances : FirstChannel(i)'
BY Undisturbed

(* What goroutines there are depends on their positions and instances.     *)
LEMMA SameRuns ==
  ASSUME UNCHANGED <<rpc, rinst>>
  PROVE  \A i \in Instances : Runs(i)' = Runs(i)
BY DEF Runs

(* The runs of the others are not touched by what ends some of one.        *)
LEMMA GoneRuns ==
  ASSUME TypeInv, NEW i \in Instances, NEW R \in SUBSET RunIds, Gone(R), \A r \in R : rinst[r] = i
  PROVE  /\ Runs(i)' = Runs(i) \ R
         /\ \A k \in Instances : k # i => Runs(k)' = Runs(k)
<1>1. \A r \in RunIds : /\ r \in R => rpc'[r] = "free"
                        /\ r \notin R => rpc'[r] = rpc[r] /\ rinst'[r] = rinst[r]
  BY DEF Gone
<1> QED BY <1>1 DEF Runs

(* A receive takes one token out of the channel the field holds.           *)
LEMMA TokenBack ==
  ASSUME TypeInv, NEW i \in Instances, ReceiveToken(i)
  PROVE  /\ gen' = gen /\ tokens'[i][gen[i]] = tokens[i][gen[i]] - 1
         /\ \A k \in Instances : k # i => tokens'[k] = tokens[k]
BY DEF ReceiveToken, TypeInv, TypeOK

(* Every step keeps the accounts.                                          *)
LEMMA StepChannel ==
  ASSUME ChannelInv, [Next]_vars
  PROVE  ChannelInv'
<1> USE NullAssumption, SchedulerAssumption
<1>0. TypeInv /\ TypeInv'
  BY StepTypes DEF ChannelInv
<1> SUFFICES \A i \in Instances : FirstChannel(i)'
  BY <1>0 DEF ChannelInv
<1>1. CASE UNCHANGED <<gen, claiming, tokens, rpc, rinst>>
  BY <1>1, SameRuns, RestChannel
<1>2. ASSUME NEW k \in Instances, ReloadSettings(k) PROVE \A i \in Instances : FirstChannel(i)'
  <2> SUFFICES ASSUME NEW i \in Instances PROVE FirstChannel(i)'
    OBVIOUS
  <2>1. Runs(i)' = Runs(i) /\ claiming'[i] = claiming[i] /\ tokens'[i] = tokens[i]
    BY <1>2 DEF ReloadSettings, Runs, runVars, loopVars
  <2>2. CASE i = k
    <3>1. gen[i] \in Nat /\ gen'[i] = gen[i] + 1
      BY <1>0, <1>2, <2>2 DEF ReloadSettings, TypeInv, TypeOK, Gens
    <3>2. gen'[i] # 0
      BY <3>1
    <3> QED BY <3>2 DEF FirstChannel
  <2>3. CASE i # k
    <3>1. gen'[i] = gen[i]
      BY <1>0, <1>2, <2>3 DEF ReloadSettings, TypeInv, TypeOK
    <3> QED BY <2>1, <3>1, Undisturbed
  <2> QED BY <2>2, <2>3
<1>3. ASSUME NEW k \in Instances, NEW j \in Jobs, TakeSlot(k, j) PROVE \A i \in Instances : FirstChannel(i)'
  <2> SUFFICES ASSUME NEW i \in Instances PROVE FirstChannel(i)'
    OBVIOUS
  <2>1. Runs(i)' = Runs(i) /\ gen' = gen
    BY <1>3 DEF TakeSlot, Runs, runVars
  <2>2. CASE i = k
    <3> SUFFICES ASSUME gen[i] = 0
                 PROVE  /\ IsFiniteSet(Runs(i)')
                        /\ tokens'[i][0] = Cardinality(Runs(i)') + Claims(i)'
                        /\ tokens'[i][0] <= Cap[0]
      BY <2>1 DEF FirstChannel
    <3>1. IsFiniteSet(Runs(i)) /\ tokens[i][0] = Cardinality(Runs(i)) + Claims(i)
      BY DEF ChannelInv, FirstChannel
    <3>2. Claims(i) = 0 /\ Claims(i)' = 1
      <4>1. claiming[i] = NoJob /\ claiming'[i] = j /\ j # NoJob
        BY <1>0, <1>3, <2>2 DEF TakeSlot, TypeInv, TypeOK
      <4> QED BY <4>1 DEF Claims
    <3>3. tokens'[i][0] = tokens[i][0] + 1 /\ tokens[i][0] < Cap[0]
      BY <1>0, <1>3, <2>2 DEF TakeSlot, TypeInv, TypeOK, Gens
    <3>4. Cardinality(Runs(i)) \in Nat /\ Cap[0] \in Nat
      BY <3>1, FS_CardinalityType DEF Gens
    <3> QED BY <2>1, <3>1, <3>2, <3>3, <3>4
  <2>3. CASE i # k
    <3>1. claiming'[i] = claiming[i] /\ tokens'[i] = tokens[i]
      BY <1>0, <1>3, <2>3 DEF TakeSlot, TypeInv, TypeOK
    <3> QED BY <2>1, <3>1, Undisturbed
  <2> QED BY <2>2, <2>3
<1>4. ASSUME NEW k \in Instances, NEW r \in RunIds, ClaimJob(k, r) PROVE \A i \in Instances : FirstChannel(i)'
  <2> SUFFICES ASSUME NEW i \in Instances PROVE FirstChannel(i)'
    OBVIOUS
  <2>1. tokens' = tokens /\ gen' = gen /\ rpc[r] = "free"
    BY <1>4 DEF ClaimJob, semVars
  <2>2. \A q \in RunIds : /\ q # r => rpc'[q] = rpc[q] /\ rinst'[q] = rinst[q]
                          /\ q = r => rpc'[q] = "spawned" /\ rinst'[q] = k
    BY <1>0, <1>4 DEF ClaimJob, TypeInv, TypeOK
  <2>3. CASE i = k
    <3> SUFFICES ASSUME gen[i] = 0
                 PROVE  /\ IsFiniteSet(Runs(i)')
                        /\ tokens[i][0] = Cardinality(Runs(i)') + Claims(i)'
                        /\ tokens[i][0] <= Cap[0]
      BY <2>1 DEF FirstChannel
    <3>1. IsFiniteSet(Runs(i)) /\ tokens[i][0] = Cardinality(Runs(i)) + Claims(i) /\ tokens[i][0] <= Cap[0]
      BY DEF ChannelInv, FirstChannel
    <3>2. Claims(i) = 1 /\ Claims(i)' = 0
      <4>1. claiming[i] # NoJob /\ claiming'[i] = NoJob
        BY <1>0, <1>4, <2>3 DEF ClaimJob, TypeInv, TypeOK
      <4> QED BY <4>1 DEF Claims
    <3>3. Runs(i)' = Runs(i) \cup {r} /\ r \notin Runs(i)
      BY <2>1, <2>2, <2>3 DEF Runs
    <3>4. IsFiniteSet(Runs(i)') /\ Cardinality(Runs(i)') = Cardinality(Runs(i)) + 1
      BY <3>1, <3>3, FS_AddElement
    <3>5. Cardinality(Runs(i)) \in Nat
      BY <3>1, FS_CardinalityType
    <3> QED BY <3>1, <3>2, <3>4, <3>5
  <2>4. CASE i # k
    <3>1. claiming'[i] = claiming[i]
      BY <1>0, <1>4, <2>4 DEF ClaimJob, TypeInv, TypeOK
    <3>2. Runs(i)' = Runs(i)
      BY <2>1, <2>2, <2>4 DEF Runs
    <3> QED BY <2>1, <3>1, <3>2, Undisturbed
  <2> QED BY <2>3, <2>4
<1>5. ASSUME NEW k \in Instances, ClaimFails(k) PROVE \A i \in Instances : FirstChannel(i)'
  <2> SUFFICES ASSUME NEW i \in Instances PROVE FirstChannel(i)'
    OBVIOUS
  <2>1. Runs(i)' = Runs(i)
    BY <1>5 DEF ClaimFails, Runs, runVars
  <2>2. gen' = gen /\ tokens'[k][gen[k]] = tokens[k][gen[k]] - 1 /\ (i # k => tokens'[i] = tokens[i])
    BY <1>0, <1>5, TokenBack DEF ClaimFails
  <2>3. CASE i = k
    <3> SUFFICES ASSUME gen[i] = 0
                 PROVE  /\ IsFiniteSet(Runs(i)')
                        /\ tokens'[i][0] = Cardinality(Runs(i)') + Claims(i)'
                        /\ tokens'[i][0] <= Cap[0]
      BY <2>2 DEF FirstChannel
    <3>1. IsFiniteSet(Runs(i)) /\ tokens[i][0] = Cardinality(Runs(i)) + Claims(i) /\ tokens[i][0] <= Cap[0]
      BY DEF ChannelInv, FirstChannel
    <3>2. Claims(i) = 1 /\ Claims(i)' = 0
      <4>1. claiming[i] # NoJob /\ claiming'[i] = NoJob
        BY <1>0, <1>5, <2>3 DEF ClaimFails, TypeInv, TypeOK
      <4> QED BY <4>1 DEF Claims
    <3>3. tokens'[i][0] = tokens[i][0] - 1
      BY <2>2, <2>3
    <3>4. Cardinality(Runs(i)) \in Nat /\ Cap[0] \in Nat
      BY <3>1, FS_CardinalityType DEF Gens
    <3> QED BY <2>1, <3>1, <3>2, <3>3, <3>4
  <2>4. CASE i # k
    <3>1. claiming'[i] = claiming[i]
      BY <1>0, <1>5, <2>4 DEF ClaimFails, TypeInv, TypeOK
    <3> QED BY <2>1, <2>2, <2>4, <3>1, Undisturbed
  <2> QED BY <2>3, <2>4
<1>6. ASSUME NEW r \in RunIds, ReleaseSlot(r) PROVE \A i \in Instances : FirstChannel(i)'
  <2> SUFFICES ASSUME NEW i \in Instances PROVE FirstChannel(i)'
    OBVIOUS
  <2>0. PICK k \in Instances : k = rinst[r]
    BY <1>0, <1>6 DEF ReleaseSlot, TypeInv, Placed
  <2>1. k \in Instances /\ rpc[r] # "free" /\ claiming' = claiming /\ Gone({r}) /\ ReceiveToken(k)
    BY <1>6, <2>0 DEF ReleaseSlot, loopVars
  <2>2. Runs(k)' = Runs(k) \ {r} /\ (i # k => Runs(i)' = Runs(i)) /\ r \in Runs(k)
    <3> DEFINE R == {r}
    <3>1. R \in SUBSET RunIds /\ \A q \in R : rinst[q] = k
      BY <2>0
    <3>2. r \in Runs(k)
      BY <2>0, <2>1 DEF Runs
    <3>3. Gone(R)
      BY <2>1
    <3> HIDE DEF R
    <3>4. Runs(k)' = Runs(k) \ R /\ (i # k => Runs(i)' = Runs(i))
      BY <1>0, <3>1, <3>3, GoneRuns
    <3> QED BY <3>2, <3>4 DEF R
  <2>3. gen' = gen /\ tokens'[k][gen[k]] = tokens[k][gen[k]] - 1 /\ (i # k => tokens'[i] = tokens[i])
    BY <1>0, <2>1, TokenBack
  <2>4. CASE i = k
    <3> SUFFICES ASSUME gen[i] = 0
                 PROVE  /\ IsFiniteSet(Runs(i)')
                        /\ tokens'[i][0] = Cardinality(Runs(i)') + Claims(i)'
                        /\ tokens'[i][0] <= Cap[0]
      BY <2>3 DEF FirstChannel
    <3>1. IsFiniteSet(Runs(i)) /\ tokens[i][0] = Cardinality(Runs(i)) + Claims(i) /\ tokens[i][0] <= Cap[0]
      BY DEF ChannelInv, FirstChannel
    <3>2. Claims(i)' = Claims(i) /\ Claims(i) \in {0, 1}
      BY <2>1 DEF Claims
    <3>3. tokens'[i][0] = tokens[i][0] - 1
      BY <2>3, <2>4
    <3>4. Cardinality(Runs(i)) \in Nat /\ Cap[0] \in Nat
      BY <3>1, FS_CardinalityType DEF Gens
    <3>5. IsFiniteSet(Runs(i)') /\ Cardinality(Runs(i)') = Cardinality(Runs(i)) - 1
      BY <2>2, <2>4, <3>1, FS_RemoveElement
    <3> QED BY <3>1, <3>2, <3>3, <3>4, <3>5
  <2>5. CASE i # k
    BY <2>1, <2>2, <2>3, <2>5, Undisturbed
  <2> QED BY <2>4, <2>5
<1>7. ASSUME NEW k \in Instances, Exit(k) PROVE \A i \in Instances : FirstChannel(i)'
  <2> SUFFICES ASSUME NEW i \in Instances PROVE FirstChannel(i)'
    OBVIOUS
  <2> DEFINE R == {r \in RunIds : rinst[r] = k}
  <2>1. gen' = gen /\ Gone(R)
    BY <1>7 DEF Exit
  <2>2. Runs(k)' = {} /\ (i # k => Runs(i)' = Runs(i))
    <3>1. R \in SUBSET RunIds /\ \A r \in R : rinst[r] = k
      OBVIOUS
    <3>2. Runs(k) \ R = {}
      BY DEF Runs
    <3> HIDE DEF R
    <3> QED BY <1>0, <2>1, <3>1, <3>2, GoneRuns
  <2>3. CASE i = k
    <3>1. tokens'[i] = [g \in Gens |-> 0] /\ claiming'[i] = NoJob
      BY <1>0, <1>7, <2>3 DEF Exit, TypeInv, TypeOK
    <3>2. 0 \in Gens /\ Cap[0] \in Nat \ {0}
      BY DEF Gens
    <3>3. tokens'[i][0] = 0 /\ Claims(i)' = 0
      BY <3>1, <3>2 DEF Claims
    <3>4. IsFiniteSet(Runs(i)') /\ Cardinality(Runs(i)') = 0
      BY <2>2, <2>3, FS_EmptySet
    <3> QED BY <3>2, <3>3, <3>4 DEF FirstChannel
  <2>4. CASE i # k
    <3>1. claiming'[i] = claiming[i] /\ tokens'[i] = tokens[i]
      BY <1>0, <1>7, <2>4 DEF Exit, TypeInv, TypeOK
    <3> QED BY <2>1, <2>2, <2>4, <3>1, Undisturbed
  <2> QED BY <2>3, <2>4
<1>8. ASSUME NEW r \in RunIds, RunStep(r), ~ReleaseSlot(r) PROVE \A i \in Instances : FirstChannel(i)'
  <2>1. UNCHANGED <<gen, claiming, tokens, rinst>>
    BY <1>8 DEF RunStep, RegisterRun, RunDevice, EndBody, ReadStatus, WriteStatus, ScheduleNextRun,
                Unregister, loopVars, semVars
  <2>2. rpc[r] # "free"
    BY <1>8 DEF RunStep, RegisterRun, RunDevice, EndBody, ReadStatus, WriteStatus, ScheduleNextRun, Unregister
  <2>3. rpc' = rpc \/ \E p : p # "free" /\ rpc' = [rpc EXCEPT ![r] = p]
    <3>1. RegisterRun(r) \/ RunDevice(r) \/ EndBody(r) \/ ReadStatus(r)
          \/ WriteStatus(r) \/ ScheduleNextRun(r) \/ Unregister(r)
      BY <1>8 DEF RunStep
    <3>2. CASE RunDevice(r)
      <4>1. rpc' = rpc \/ rpc' = [rpc EXCEPT ![r] = "read"]
        BY <3>2 DEF RunDevice
      <4> QED BY <4>1
    <3>3. CASE WriteStatus(r)
      <4> DEFINE p == IF rrepeat[r] /\ rstatus[r] = "completed" THEN "resched" ELSE "deferred"
      <4>1. rpc' = [rpc EXCEPT ![r] = p] /\ p # "free"
        BY <3>3 DEF WriteStatus
      <4> QED BY <4>1
    <3>4. CASE RegisterRun(r)
      BY <3>4 DEF RegisterRun
    <3>5. CASE EndBody(r)
      BY <3>5 DEF EndBody
    <3>6. CASE ReadStatus(r)
      BY <3>6 DEF ReadStatus
    <3>7. CASE ScheduleNextRun(r)
      BY <3>7 DEF ScheduleNextRun
    <3>8. CASE Unregister(r)
      BY <3>8 DEF Unregister
    <3> QED BY <3>1, <3>2, <3>3, <3>4, <3>5, <3>6, <3>7, <3>8
  <2>4. \A i \in Instances : Runs(i)' = Runs(i)
    <3>1. CASE rpc' = rpc
      BY <2>1, <3>1, SameRuns
    <3>2. CASE \E p : p # "free" /\ rpc' = [rpc EXCEPT ![r] = p]
      BY <1>0, <2>1, <2>2, <3>2, RunsStay
    <3> QED BY <2>3, <3>1, <3>2
  <2> QED BY <2>1, <2>4, RestChannel
<1>9. ASSUME NEW k \in Instances, NEW j \in Jobs,
             BlockJob(k, j) \/ NoSlot(k, j) \/ CreateJob(j)
             \/ UpdateJobSchedule(j) \/ TimePasses(j) \/ CancelRow(k, j) \/ CancelContext(k, j)
      PROVE  \A i \in Instances : FirstChannel(i)'
  <2>1. UNCHANGED <<gen, claiming, tokens, rpc, rinst>>
    BY <1>9 DEF BlockJob, NoSlot, CreateJob, UpdateJobSchedule, TimePasses, CancelRow,
                CancelContext, loopVars, semVars, runVars
  <2> QED BY <1>1, <2>1
<1>10. CASE Next
  <2>1. CASE \E k \in Instances : LoopStep(k) \/ ReloadSettings(k) \/ BeginStop(k) \/ Exit(k)
    <3> PICK k \in Instances : LoopStep(k) \/ ReloadSettings(k) \/ BeginStop(k) \/ Exit(k)
      BY <2>1
    <3>1. CASE LoopStep(k)
      <4>1. CASE ListJobs(k)
        BY <4>1, <1>1 DEF ListJobs, semVars, runVars
      <4> QED BY <3>1, <4>1, <1>3, <1>4, <1>5, <1>9 DEF LoopStep
    <3>2. CASE ReloadSettings(k)
      BY <3>2, <1>2
    <3>3. CASE BeginStop(k)
      BY <3>3, <1>1 DEF BeginStop, loopVars, semVars
    <3>4. CASE Exit(k)
      BY <3>4, <1>7
    <3> QED BY <3>1, <3>2, <3>3, <3>4
  <2>2. CASE \E r \in RunIds : RunStep(r)
    BY <2>2, <1>6, <1>8
  <2>3. CASE UserStep
    BY <2>3, <1>9, SchedulerAssumption DEF UserStep
  <2> QED BY <1>10, <2>1, <2>2, <2>3 DEF Next
<1>11. CASE UNCHANGED vars
  BY <1>11, <1>1 DEF vars, loopVars, semVars, runVars
<1> QED BY <1>10, <1>11

(* They hold from the start.                                               *)
LEMMA ChannelInvariant == Spec => []ChannelInv
<1>1. Init => ChannelInv
  <2> SUFFICES ASSUME Init PROVE ChannelInv
    OBVIOUS
  <2>1. TypeInv
    BY InitTypes
  <2>2. ASSUME NEW i \in Instances PROVE FirstChannel(i)
    <3>1. Runs(i) = {} /\ Claims(i) = 0 /\ 0 \in Gens /\ Cap[0] \in Nat
      BY SchedulerAssumption DEF Init, Runs, Claims, Gens
    <3>2. tokens[i][0] = 0
      BY <3>1 DEF Init
    <3>3. IsFiniteSet(Runs(i)) /\ Cardinality(Runs(i)) = 0
      BY <3>1, FS_EmptySet
    <3> QED BY <3>1, <3>2, <3>3 DEF FirstChannel
  <2> QED BY <2>1, <2>2 DEF ChannelInv
<1> QED BY <1>1, StepChannel, PTL DEF Spec

(* As long as scheduler_max_concurrent of an instance was not changed, the *)
(* jobs it runs or claims are within it, and a goroutine that ends, or a   *)
(* claim that failed, never waits for a token (scheduler.go:268-281).      *)
THEOREM SlotsAccounted == Spec => []SlotsKept
<1>1. ASSUME ChannelInv PROVE SlotsKept
  <2> SUFFICES ASSUME NEW i \in Instances, gen[i] = 0
               PROVE  /\ Cardinality(Runs(i)) + Claims(i) <= Cap[0]
                      /\ (\E r \in RunIds : rpc[r] = "release" /\ rinst[r] = i) \/ claiming[i] # NoJob
                           => tokens[i][gen[i]] > 0
    BY DEF SlotsKept
  <2>1. IsFiniteSet(Runs(i)) /\ tokens[i][0] = Cardinality(Runs(i)) + Claims(i) /\ tokens[i][0] <= Cap[0]
    BY <1>1 DEF ChannelInv, FirstChannel
  <2>2. Cardinality(Runs(i)) \in Nat
    BY <2>1, FS_CardinalityType
  <2>3. ASSUME NEW r \in RunIds, rpc[r] = "release", rinst[r] = i PROVE Cardinality(Runs(i)) > 0
    <3>1. Runs(i) # {}
      BY <2>3 DEF Runs
    <3>2. Cardinality(Runs(i)) # 0
      BY <2>1, <3>1, FS_EmptySet
    <3> QED BY <2>2, <3>2
  <2>4. claiming[i] # NoJob => Claims(i) = 1
    BY DEF Claims
  <2>5. Claims(i) \in {0, 1}
    BY DEF Claims
  <2> QED BY <2>1, <2>2, <2>3, <2>4, <2>5
<1> QED BY <1>1, ChannelInvariant, PTL

-----------------------------------------------------------------------------
(***************************************************************************)
(* The windows.  The time of day in the zone of a window, and days that    *)
(* begin with its midnight.                                                *)
(***************************************************************************)
TimeOfDay(w) == Local(w) % DayUnits

(* A time is a number of whole days and a time of day.                     *)
LEMMA DayAndTime ==
    ASSUME NEW n \in Nat, n > 0, NEW t \in Int
    PROVE  /\ t \div n \in Int /\ t % n \in 0..(n - 1)
           /\ t = n * (t \div n) + (t % n)
<1>1. t \div n \in Int /\ n * (t \div n) \in Int
  OBVIOUS
<1>2. t % n \in 0..(n - 1)
  OBVIOUS
<1>3. t = n * (t \div n) + (t % n)
  OBVIOUS
<1> QED BY <1>1, <1>2, <1>3

(* In one way only.                                                        *)
LEMMA OneTime ==
    ASSUME NEW n \in Nat, n > 0, NEW t \in Int, NEW q \in Int, NEW x \in 0..(n - 1), t = n * q + x
    PROVE  t % n = x
<1> DEFINE y == t % n
           p == t \div n
<1>2. p \in Int /\ y \in 0..(n - 1) /\ t = n * p + y
  BY DayAndTime
<1> HIDE DEF y, p
<1>4. n * (q - p) = y - x
  BY <1>2
<1>5. ~(q - p >= 1)
  <2> SUFFICES ASSUME q - p >= 1 PROVE FALSE
    OBVIOUS
  <2>1. n * (q - p) >= n
    BY <1>2
  <2> QED BY <1>2, <1>4, <2>1
<1>6. ~(q - p <= -1)
  <2> SUFFICES ASSUME q - p <= -1 PROVE FALSE
    OBVIOUS
  <2>1. n * (q - p) <= -n
    BY <1>2
  <2> QED BY <1>2, <1>4, <2>1
<1>7. q = p
  BY <1>2, <1>5, <1>6
<1> QED BY <1>2, <1>7 DEF y

(* A nonempty set of naturals has a least element.                         *)
LEMMA Least ==
    ASSUME NEW S \in SUBSET Nat, S # {}
    PROVE  Min(S) \in S /\ \A y \in S : Min(S) <= y
<1> DEFINE R == OpToRel(<, Nat)
<1>1. IsWellFoundedOn(R, Nat)
  BY NatLessThanWellFounded
<1> HIDE DEF R
<1>2. \E x \in S : \A y \in S : ~(<<y, x>> \in R)
  BY <1>1, WFMin
<1>3. \A x, y \in Nat : <<y, x>> \in R <=> y < x
  BY DEF R, OpToRel
<1>4. \E x \in S : \A y \in S : x <= y
  <2>1. PICK x \in S : \A y \in S : ~(<<y, x>> \in R)
    BY <1>2
  <2>2. \A y \in S : x \in Nat /\ y \in Nat /\ ~(y < x)
    BY <1>3, <2>1
  <2>3. \A y \in S : x <= y
    BY <2>2
  <2> QED BY <2>3
<1> QED BY <1>4 DEF Min

(* The parameters of a window.                                             *)
LEMMA WindowTypes ==
    ASSUME windows \in WindowSets, NEW w \in windows
    PROVE  /\ DayUnits \in Nat /\ DayUnits > 0 /\ w.zone \in Int
           /\ w.start \in 0..(DayUnits - 1) /\ w.end \in 0..(DayUnits - 1)
BY WindowAssumption

(* The window as checkMaintenanceWindow reads it, in times of the day.     *)
LEMMA Readings ==
    ASSUME windows \in WindowSets, NEW w \in windows, now \in Int
    PROVE  /\ Local(w) \in Int /\ TimeOfDay(w) \in 0..(DayUnits - 1)
           /\ Local(w) \div DayUnits \in Int
           /\ Local(w) = Midnight(w) + TimeOfDay(w) /\ Midnight(w) \in Int
           /\ Midnight(w) = (Local(w) \div DayUnits) * DayUnits
<1>1. Local(w) \in Int /\ DayUnits \in Nat /\ DayUnits > 0
  BY WindowTypes DEF Local
<1>2. /\ Local(w) \div DayUnits \in Int /\ Local(w) % DayUnits \in 0..(DayUnits - 1)
      /\ Local(w) = DayUnits * (Local(w) \div DayUnits) + (Local(w) % DayUnits)
  BY <1>1, DayAndTime
<1>3. ASSUME NEW q \in Int PROVE q * DayUnits = DayUnits * q /\ q * DayUnits \in Int
  BY <1>1
<1> DEFINE q == Local(w) \div DayUnits
<1>4. q \in Int /\ Midnight(w) = q * DayUnits
  BY <1>2 DEF Midnight
<1> HIDE DEF q
<1>5. Midnight(w) = DayUnits * q /\ Midnight(w) \in Int
  BY <1>3, <1>4
<1>6. Local(w) = Midnight(w) + TimeOfDay(w)
  <2>1. Local(w) = DayUnits * q + TimeOfDay(w)
    BY <1>2, Zenon DEF TimeOfDay, q
  <2> QED BY <1>5, <2>1, Zenon
<1> QED BY <1>1, <1>2, <1>4, <1>5, <1>6 DEF TimeOfDay, q

(* A window is open where checkMaintenanceWindow says so.                  *)
LEMMA OpenWithin ==
    ASSUME windows \in WindowSets, now \in Int, NEW w \in windows, w.days = {} \/ w.zone = 0, Within(w)
    PROVE  OpenAt(w, Local(w))
<1> DEFINE d == Local(w) \div DayUnits
           m == Midnight(w)
           t == Local(w)
<1>1. /\ DayUnits \in Nat /\ w.start \in Int /\ w.end \in Int /\ w.end < DayUnits
      /\ t \in Int /\ m \in Int /\ d \in Int /\ m = d * DayUnits
  BY WindowTypes, Readings
<1>2. TimeAsText
  <2> SUFFICES ASSUME ~TimeAsText PROVE FALSE
    BY WindowAssumption
  <2>1. StartToday(w) = m + 0 /\ EndToday(w) = IF m + 0 < m + 0 THEN m + 0 + DayUnits ELSE m + 0
    BY DEF StartToday, EndToday, ClockOf
  <2> HIDE DEF m, t
  <2>2. StartToday(w) = m /\ EndToday(w) = m
    BY <1>1, <2>1
  <2>3. t >= m /\ t < m
    BY <2>2 DEF Within, t
  <2> QED BY <1>1, <2>3
<1>3. StartToday(w) = m + w.start
  BY <1>2 DEF StartToday, ClockOf
<1>4. EndToday(w) = IF m + w.end < m + w.start THEN m + w.end + DayUnits ELSE m + w.end
  BY <1>2 DEF EndToday, StartToday, ClockOf
<1>5. DayMatch(w) /\ t >= m + w.start /\ t < EndToday(w)
  BY <1>3 DEF Within
<1>6. OpensOn(w, d)
  <2>1. CASE w.days = {}
    BY <2>1 DEF OpensOn
  <2>2. CASE w.zone = 0
    <3>1. Local(w) = now
      BY <2>2 DEF Local
    <3> QED BY <1>5, <3>1 DEF OpensOn, DayMatch, CurrentDOW
  <2> QED BY <2>1, <2>2
<1> HIDE DEF m, t, d
<1>7. t < m + w.start + Length(w)
  BY <1>1, <1>4, <1>5 DEF Length
<1>8. t >= d * DayUnits + w.start /\ t < d * DayUnits + w.start + Length(w)
  BY <1>1, <1>5, <1>7
<1> QED BY <1>6, <1>8 DEF OpenAt, d, t

-----------------------------------------------------------------------------
(* A blocked job is not due before the next time the window opens.         *)
Ahead(w) ==
    \/ TimeOfDay(w) < w.start /\ wait <= w.start - TimeOfDay(w)
    \/ TimeOfDay(w) >= w.end /\ wait <= w.start + DayUnits - TimeOfDay(w)

WindowInv ==
    /\ windows \in WindowSets /\ now \in 0..(Week - 1)
    /\ Daily /\ Daytime =>
         /\ wait \in Nat
         /\ jobStatus = "blocked" => windows # {} /\ (wait > 0 => \A w \in Usable : Ahead(w))

(* A time of day before the start or past the end is outside.              *)
LEMMA NotOpen ==
    ASSUME windows \in WindowSets, now \in Int, NEW w \in windows, w.start <= w.end,
           TimeOfDay(w) < w.start \/ TimeOfDay(w) >= w.end
    PROVE  ~OpenAt(w, Local(w))
<1> DEFINE d == Local(w) \div DayUnits
           t == Local(w)
           x == TimeOfDay(w)
<1>1. /\ DayUnits \in Nat /\ w.start \in 0..(DayUnits - 1) /\ w.end \in 0..(DayUnits - 1)
      /\ t \in Int /\ d \in Int /\ d * DayUnits \in Int /\ t = d * DayUnits + x /\ x \in 0..(DayUnits - 1)
  BY WindowTypes, Readings
<1>2. Length(w) = w.end - w.start
  BY <1>1 DEF Length
<1>3. x < w.start \/ x >= w.end
  OBVIOUS
<1> HIDE DEF d, t, x
<1>4. (d - 1) * DayUnits = d * DayUnits - DayUnits
  BY <1>1
<1> DEFINE m == d * DayUnits
<1>5. ~(t >= m + w.start /\ t < m + w.start + Length(w))
  <2> HIDE DEF m
  <2>1. m \in Int /\ t = m + x
    BY <1>1 DEF m
  <2> QED BY <1>1, <1>2, <1>3, <2>1
<1>6. ~(t < (d - 1) * DayUnits + w.start + Length(w))
  <2>1. m \in Int /\ t = m + x /\ (d - 1) * DayUnits = m - DayUnits
    BY <1>1, <1>4
  <2> HIDE DEF m
  <2> QED BY <1>1, <1>2, <2>1
<1> QED BY <1>5, <1>6 DEF OpenAt, d, t

(* The clock goes on by one unit, over midnight and over the week's end.   *)
LEMMA ClockStep ==
    ASSUME windows \in WindowSets, now \in 0..(Week - 1), Tick, NEW w \in windows
    PROVE  /\ now' \in 0..(Week - 1)
           /\ TimeOfDay(w)' = IF TimeOfDay(w) + 1 = DayUnits THEN 0 ELSE TimeOfDay(w) + 1
<1> DEFINE x == TimeOfDay(w)
           q == Local(w) \div DayUnits
           z == w.zone
<1>1. Week \in Nat /\ Week = 7 * DayUnits /\ DayUnits \in Nat /\ DayUnits > 0 /\ z \in Int /\ now \in Int
  BY WindowTypes DEF Week
<1>2. q \in Int /\ x \in 0..(DayUnits - 1) /\ Local(w) = q * DayUnits + x /\ Local(w) = now + z
  BY <1>1, Readings DEF Local
<1>3. now' = (now + 1) % Week
  BY DEF Tick
<1>4. now' \in 0..(Week - 1) /\ (now' = now + 1 \/ now' = now + 1 - 7 * DayUnits)
  <2>1. CASE now + 1 < Week
    <3>1. now + 1 \in 0..(Week - 1) /\ now + 1 = Week * 0 + (now + 1)
      BY <1>1, <2>1
    <3>2. (now + 1) % Week = now + 1
      BY <1>1, <3>1, OneTime
    <3> QED BY <1>3, <3>1, <3>2
  <2>2. CASE ~(now + 1 < Week)
    <3>1. 0 \in 0..(Week - 1) /\ now + 1 = Week * 1 + 0 /\ now + 1 - 7 * DayUnits = 0
      BY <1>1, <2>2
    <3>2. (now + 1) % Week = 0
      BY <1>1, <3>1, OneTime
    <3> QED BY <1>3, <3>1, <3>2
  <2> QED BY <2>1, <2>2
<1>5. PICK k \in {0, 7} : now' + z = q * DayUnits + x + 1 - k * DayUnits
  <2> DEFINE m == q * DayUnits
  <2>1. m \in Int /\ now + z = m + x
    BY <1>1, <1>2
  <2> HIDE DEF m, q, x, z
  <2>2. CASE now' = now + 1
    <3>1. now' + z = m + x + 1 - 0 * DayUnits
      BY <1>1, <1>2, <2>1, <2>2
    <3> QED BY <3>1 DEF m
  <2>3. CASE now' = now + 1 - 7 * DayUnits
    <3>1. now' + z = m + x + 1 - 7 * DayUnits
      BY <1>1, <1>2, <2>1, <2>3
    <3> QED BY <3>1 DEF m
  <2> QED BY <1>4, <2>2, <2>3
<1>6. TimeOfDay(w)' = (now' + z) % DayUnits
  BY DEF TimeOfDay, Local
<1>7. now' + z \in Int
  BY <1>1, <1>4
<1> HIDE DEF q, x, z
<1>8. CASE x + 1 = DayUnits
  <2>1. now' + z = DayUnits * (q + 1 - k) + 0
    BY <1>1, <1>2, <1>5, <1>8
  <2>2. q + 1 - k \in Int /\ 0 \in 0..(DayUnits - 1)
    BY <1>1, <1>2
  <2>3. (now' + z) % DayUnits = 0
    BY <1>1, <1>7, <2>1, <2>2, OneTime
  <2> QED BY <1>4, <1>6, <1>8, <2>3 DEF x
<1>9. CASE x + 1 # DayUnits
  <2>1. now' + z = DayUnits * (q - k) + (x + 1)
    BY <1>1, <1>2, <1>5
  <2>2. q - k \in Int /\ x + 1 \in 0..(DayUnits - 1)
    BY <1>1, <1>2, <1>9
  <2>3. (now' + z) % DayUnits = x + 1
    BY <1>1, <1>7, <2>1, <2>2, OneTime
  <2> QED BY <1>4, <1>6, <1>9, <2>3 DEF x
<1> QED BY <1>8, <1>9

(* A job outside its daily windows is blocked until the first of them      *)
(* opens, or earlier.                                                      *)
LEMMA BlockWaits ==
    ASSUME TimeAsText, WindowInv, Daily, Daytime, Block
    PROVE  wait' \in Nat /\ windows # {} /\ (wait' > 0 => \A w \in Usable : Ahead(w)')
<1> DEFINE starts == {NextStart(w) - Local(w) : w \in {v \in windows : Applies(v)}}
<1>1. /\ windows \in WindowSets /\ now \in Int /\ ~InWindow /\ UNCHANGED <<windows, now>>
      /\ wait' = IF starts = {} THEN 0 ELSE Min(starts)
  BY DEF WindowInv, Block
<1>2. ASSUME NEW w \in windows, Applies(w)
      PROVE  /\ NextStart(w) - Local(w) \in Nat
             /\ \/ TimeOfDay(w) < w.start /\ NextStart(w) - Local(w) = w.start - TimeOfDay(w)
                \/ TimeOfDay(w) >= w.end /\ NextStart(w) - Local(w) = w.start + DayUnits - TimeOfDay(w)
  <2> DEFINE x == TimeOfDay(w)
             m == Midnight(w)
             t == Local(w)
  <2>1. /\ DayUnits \in Nat /\ w.start \in 0..(DayUnits - 1) /\ w.end \in 0..(DayUnits - 1) /\ w.start <= w.end
        /\ t \in Int /\ m \in Int /\ t = m + x /\ x \in 0..(DayUnits - 1)
    BY <1>1, <1>2, WindowTypes, Readings DEF Daytime, Usable
  <2>2. DaysToAdd(w) = 0 /\ DayMatch(w)
    BY <1>2 DEF DaysToAdd, DayMatch, Daily, Usable
  <2>3. StartToday(w) = m + w.start
    BY DEF StartToday, ClockOf
  <2>4. EndToday(w) = IF m + w.end < m + w.start THEN m + w.end + DayUnits ELSE m + w.end
    BY DEF EndToday, StartToday, ClockOf
  <2>5. NextStart(w) = m + w.start + DayUnits * ((IF t >= m + w.start THEN 1 ELSE 0) + 0)
    BY <2>2, <2>3 DEF NextStart
  <2>6. ~(t >= m + w.start /\ t < EndToday(w))
    BY <1>1, <1>2, <2>2, <2>3 DEF InWindow, Within
  <2> HIDE DEF x, m, t
  <2>7. EndToday(w) = m + w.end
    BY <2>1, <2>4
  <2>8. CASE t >= m + w.start
    <3>1. NextStart(w) = m + w.start + DayUnits
      BY <2>1, <2>5, <2>8
    <3>2. x >= w.end /\ NextStart(w) - t = w.start + DayUnits - x
      BY <2>1, <2>6, <2>7, <2>8, <3>1
    <3>3. w.start + DayUnits - x \in Nat
      BY <2>1
    <3> QED BY <3>2, <3>3 DEF x, t
  <2>9. CASE ~(t >= m + w.start)
    <3>1. NextStart(w) = m + w.start
      BY <2>1, <2>5, <2>9
    <3>2. x < w.start /\ NextStart(w) - t = w.start - x /\ w.start - x \in Nat
      BY <2>1, <2>9, <3>1
    <3> QED BY <3>2 DEF x, t
  <2> QED BY <2>8, <2>9
<1>3. starts \in SUBSET Nat
  BY <1>2
<1>4. windows # {}
  BY <1>1 DEF InWindow
<1>5. Usable = {v \in windows : Applies(v)} /\ \A w \in Usable : w \in windows /\ Applies(w)
  BY DEF Usable
<1>6. \A w \in Usable : NextStart(w) - Local(w) \in starts
  BY <1>5
<1> HIDE DEF starts
<1>7. wait' \in Nat /\ \A y \in starts : wait' <= y
  <2>1. CASE starts = {}
    BY <1>1, <2>1
  <2>2. CASE starts # {}
    <3>1. Min(starts) \in starts /\ \A y \in starts : Min(starts) <= y
      BY <1>3, <2>2, Least
    <3> QED BY <1>1, <1>3, <2>2, <3>1
  <2> QED BY <2>1, <2>2
<1>8. ASSUME NEW w \in Usable PROVE Ahead(w)'
  <2>1. wait' <= NextStart(w) - Local(w)
    BY <1>6, <1>7
  <2>2. TimeOfDay(w)' = TimeOfDay(w)
    BY <1>1 DEF TimeOfDay, Local
  <2>3. w \in windows /\ Applies(w)
    BY <1>5
  <2> QED BY <1>2, <2>1, <2>2, <2>3 DEF Ahead
<1> QED BY <1>4, <1>7, <1>8

(* While the clock goes on the distance shrinks with it.                   *)
LEMMA AheadStays ==
    ASSUME WindowInv, Tick, wait \in Nat, NEW w \in windows, w.start <= w.end, Ahead(w), wait' > 0
    PROVE  Ahead(w)'
<1> DEFINE x == TimeOfDay(w)
           y == TimeOfDay(w)'
<1>1. /\ windows \in WindowSets /\ now \in 0..(Week - 1) /\ now \in Int
      /\ DayUnits \in Nat /\ w.start \in 0..(DayUnits - 1) /\ w.end \in 0..(DayUnits - 1)
  BY WindowTypes, WindowAssumption DEF WindowInv, Week
<1>2. x \in 0..(DayUnits - 1)
  BY <1>1, Readings
<1>3. y = IF x + 1 = DayUnits THEN 0 ELSE x + 1
  BY <1>1, ClockStep
<1>4. wait' = wait - 1 /\ wait >= 2
  BY DEF Tick
<1>5. (x < w.start /\ wait <= w.start - x) \/ (x >= w.end /\ wait <= w.start + DayUnits - x)
  BY DEF Ahead
<1> HIDE DEF x, y
<1>6. (y < w.start /\ wait' <= w.start - y) \/ (y >= w.end /\ wait' <= w.start + DayUnits - y)
  BY <1>1, <1>2, <1>3, <1>4, <1>5
<1> QED BY <1>6 DEF Ahead, y

(* Every step keeps the invariant.                                         *)
LEMMA WindowInvStep == ASSUME TimeAsText, WindowInv, [WindowNext]_windowVars PROVE WindowInv'
<1>0. windows \in WindowSets /\ now \in 0..(Week - 1) /\ UNCHANGED windows
  BY DEF WindowInv, WindowNext, Run, Block, Repeat, Tick, windowVars
<1>1. (Daily' <=> Daily) /\ (Daytime' <=> Daytime) /\ Usable' = Usable
  BY <1>0 DEF Daily, Daytime, Usable, Applies
<1>2. CASE Run
  BY <1>0, <1>1, <1>2 DEF Run, WindowInv
<1>3. CASE Block
  <2>1. now' = now /\ jobStatus' = "blocked"
    BY <1>3 DEF Block
  <2>2. Daily /\ Daytime => wait' \in Nat /\ windows # {} /\ (wait' > 0 => \A w \in Usable : Ahead(w)')
    BY <1>3, BlockWaits
  <2> QED BY <1>0, <1>1, <2>1, <2>2 DEF WindowInv
<1>4. CASE Repeat
  BY <1>0, <1>1, <1>4, WindowAssumption DEF Repeat, WindowInv
<1>5. CASE Tick
  <2>1. now' \in 0..(Week - 1)
    <3>1. Week \in Nat /\ Week > 0 /\ now + 1 \in Int /\ now' = (now + 1) % Week
      BY <1>0, <1>5, WindowAssumption DEF Week, Tick
    <3> QED BY <3>1, DayAndTime
  <2>2. ASSUME Daily, Daytime
        PROVE  /\ wait' \in Nat
               /\ jobStatus' = "blocked" => windows' # {} /\ (wait' > 0 => \A w \in Usable' : Ahead(w)')
    <3>1. wait \in Nat /\ wait' = IF wait = 0 THEN 0 ELSE wait - 1
      BY <1>5, <2>2 DEF Tick, WindowInv
    <3>2. wait' \in Nat /\ (wait' > 0 => wait > 0)
      BY <3>1
    <3>3. ASSUME jobStatus' = "blocked" PROVE windows' # {} /\ (wait' > 0 => \A w \in Usable' : Ahead(w)')
      <4>1. jobStatus = "blocked"
        BY <1>5, <3>3 DEF Tick
      <4>2. windows # {} /\ (wait > 0 => \A w \in Usable : Ahead(w))
        BY <2>2, <4>1 DEF WindowInv
      <4>3. ASSUME wait' > 0, NEW w \in Usable PROVE Ahead(w)'
        <5>1. w \in windows /\ w.start <= w.end /\ Ahead(w)
          BY <2>2, <3>2, <4>2, <4>3 DEF Usable, Daytime
        <5> QED BY <1>5, <3>1, <4>3, <5>1, AheadStays
      <4> QED BY <1>0, <1>1, <4>2, <4>3
    <3> QED BY <3>2, <3>3
  <2> QED BY <1>0, <1>1, <2>1, <2>2 DEF WindowInv
<1>6. CASE UNCHANGED windowVars
  <2>1. UNCHANGED <<windows, now, wait, jobStatus>>
    BY <1>6 DEF windowVars
  <2>2. \A w : Ahead(w)' <=> Ahead(w)
    BY <2>1 DEF Ahead, TimeOfDay, Local
  <2> QED BY <1>0, <1>1, <2>1, <2>2 DEF WindowInv
<1> QED BY <1>2, <1>3, <1>4, <1>5, <1>6 DEF WindowNext

(* While a blocked job waits for its next_run no daily window it could use *)
(* opens (checkMaintenanceWindow, blockJobForMaintenance), when the times  *)
(* of the windows are read as they are stored and no window crosses        *)
(* midnight.                                                               *)
THEOREM WindowsNotMissed == TimeAsText => (WindowSpec => []NoWindowMissed)
<1> SUFFICES ASSUME TimeAsText PROVE WindowSpec => []NoWindowMissed
  OBVIOUS
<1>1. WindowInit => WindowInv
  BY DEF WindowInit, WindowInv
<1>2. WindowInv /\ [WindowNext]_windowVars => WindowInv'
  BY WindowInvStep
<1>3. WindowInv => NoWindowMissed
  <2> SUFFICES ASSUME WindowInv, Daily, Daytime, jobStatus = "blocked", wait > 0 PROVE ~Open
    BY DEF NoWindowMissed
  <2>1. windows \in WindowSets /\ now \in Int /\ windows # {} /\ \A w \in Usable : Ahead(w)
    BY DEF WindowInv
  <2>2. ASSUME NEW w \in windows, Applies(w) PROVE ~OpenAt(w, Local(w))
    <3>1. Ahead(w) /\ w.start <= w.end
      BY <2>1, <2>2 DEF Usable, Daytime
    <3>2. TimeOfDay(w) < w.start \/ TimeOfDay(w) >= w.end
      BY <3>1 DEF Ahead
    <3> QED BY <2>1, <3>1, <3>2, NotOpen
  <2> QED BY <2>1, <2>2 DEF Open
<1> QED BY <1>1, <1>2, <1>3, PTL DEF WindowSpec

(* The windows are those of the start, and the clock is a clock.           *)
ClockInv == windows \in WindowSets /\ now \in 0..(Week - 1)

(* A job is started only while a window of its site, region or the network *)
(* that allows its type is open (checkAndRunJobs, checkMaintenanceWindow), *)
(* where the days of the windows are days of the server's zone.            *)
THEOREM StartsInWindow == WindowSpec => OnlyInWindow
<1>1. WindowInit => ClockInv
  BY DEF WindowInit, ClockInv
<1>2. ClockInv /\ [WindowNext]_windowVars => ClockInv'
  <2> SUFFICES ASSUME ClockInv, [WindowNext]_windowVars PROVE ClockInv'
    OBVIOUS
  <2>1. CASE Tick
    <3>1. Week \in Nat /\ Week > 0 /\ now + 1 \in Int /\ now' = (now + 1) % Week
      BY <2>1, WindowAssumption DEF Week, Tick, ClockInv
    <3>2. now' \in 0..(Week - 1)
      BY <3>1, DayAndTime
    <3> QED BY <2>1, <3>2 DEF Tick, ClockInv
  <2>2. CASE UNCHANGED <<windows, now>>
    BY <2>2 DEF ClockInv
  <2> QED BY <2>1, <2>2 DEF WindowNext, Run, Block, Repeat, windowVars
<1>3. ClockInv /\ [WindowNext]_windowVars
        => [ServerDays /\ jobStatus' = "running" /\ jobStatus # "running" => Open]_windowVars
  <2> SUFFICES ASSUME ClockInv, WindowNext, ServerDays, jobStatus' = "running", jobStatus # "running" PROVE Open
    OBVIOUS
  <2>1. InWindow
    BY DEF WindowNext, Run, Block, Repeat, Tick
  <2>2. windows \in WindowSets /\ now \in Int
    BY DEF ClockInv
  <2>3. ASSUME NEW w \in windows, Applies(w), Within(w) PROVE OpenAt(w, Local(w))
    BY <2>2, <2>3, OpenWithin DEF ServerDays, Usable
  <2> QED BY <2>1, <2>3 DEF InWindow, Open
<1> QED BY <1>1, <1>2, <1>3, PTL DEF WindowSpec, OnlyInWindow
=============================================================================
