--------------------------- MODULE JobRunnerProofs ---------------------------
(***************************************************************************)
(* Proofs about JobRunner for every set of jobs, every number of slots and *)
(* devices, and any number of crashes and lost writes.                     *)
(*                                                                         *)
(* sem is decremented, so its type needs the slot accounting and both are  *)
(* proved together.  AtMostOnce rests on AtMostOnceInv: as long as no      *)
(* write was lost, a body that was entered has left a row that is no       *)
(* longer pending, and device indices at or above next are untouched.      *)
(* CompletionIsTotal rests on TotalInv, which says what was done for a job *)
(* at every position of its executor; together the three show that every   *)
(* step of the runner is a step of JobLifecycle or a stutter.              *)
(***************************************************************************)
EXTENDS JobRunner, FiniteSetTheorems, TLAPS

Holders == {j \in Jobs : pc[j] \in Holding}

(* A job without a row, and every job of a stopped server, has no executor. *)
IdleInv ==
  \A j \in Jobs : row[j].status = "absent" \/ phase = "down" => pc[j] = "none"

SlotInv == TypeOK /\ IdleInv /\ SlotAccounting

(* The holders of a slot are finitely many; one of them means sem is at    *)
(* least one, and adding or removing one changes sem by one.               *)
LEMMA HoldersCount ==
  ASSUME SlotInv
  PROVE  /\ IsFiniteSet(Holders)
         /\ sem = Cardinality(Holders)
         /\ \A j \in Jobs : j \notin Holders =>
              Cardinality(Holders \cup {j}) = sem + 1
         /\ \A j \in Holders : sem >= 1 /\ Cardinality(Holders \ {j}) = sem - 1
<1>1. IsFiniteSet(Holders)
  BY RunnerAssumption, FS_Subset DEF Holders
<1>2. sem = Cardinality(Holders)
  BY DEF SlotInv, SlotAccounting, Holders
<1>3. \A j \in Jobs : j \notin Holders => Cardinality(Holders \cup {j}) = sem + 1
  BY <1>1, <1>2, FS_AddElement
<1>4. ASSUME NEW j \in Holders
      PROVE  sem >= 1 /\ Cardinality(Holders \ {j}) = sem - 1
  <2>1. Cardinality(Holders \ {j}) = Cardinality(Holders) - 1
    BY <1>1, FS_RemoveElement
  <2>2. Cardinality(Holders) \in Nat /\ Cardinality(Holders \ {j}) \in Nat
    BY <1>1, FS_CardinalityType, FS_RemoveElement
  <2> QED BY <1>2, <2>1, <2>2
<1> QED BY <1>1, <1>2, <1>3, <1>4

(* How one move of an executor changes the set of slot holders.            *)
LEMMA HoldersMove ==
  ASSUME TypeOK, NEW j \in Jobs, NEW p \in Positions,
         pc' = [pc EXCEPT ![j] = p]
  PROVE  /\ (pc[j] \in Holding <=> p \in Holding) => Holders' = Holders
         /\ pc[j] \notin Holding /\ p \in Holding => Holders' = Holders \cup {j}
         /\ pc[j] \in Holding /\ p \notin Holding => Holders' = Holders \ {j}
BY DEF TypeOK, Holders

(* The same for the jobs whose cancel function is in the map.              *)
LEMMA RegisteredMove ==
  ASSUME TypeOK, NEW j \in Jobs, NEW p \in Positions,
         pc' = [pc EXCEPT ![j] = p],
         running = {i \in Jobs : pc[i] \in Registered}
  PROVE  /\ (pc[j] \in Registered <=> p \in Registered) =>
              running = {i \in Jobs : pc'[i] \in Registered}
         /\ pc[j] \notin Registered /\ p \in Registered =>
              running \cup {j} = {i \in Jobs : pc'[i] \in Registered}
         /\ pc[j] \in Registered /\ p \notin Registered =>
              running \ {j} = {i \in Jobs : pc'[i] \in Registered}
BY DEF TypeOK

(* Every final status is a final status.                                   *)
LEMMA FinalStatusType ==
  ASSUME NEW j \in Jobs
  PROVE  FinalStatus(j) \in Final
BY Zenon DEF FinalStatus, Final

(* completed_steps is a number.                                            *)
LEMMA AttemptedType ==
  ASSUME NEW j \in Jobs, NEW oc
  PROVE  Attempted(j, oc) \in Nat
<1>1. IsFiniteSet(Devs(j))
  BY RunnerAssumption, FS_Interval DEF Devs
<1>2. IsFiniteSet({d \in Devs(j) : oc[d] # "none"})
  BY <1>1, FS_Subset
<1> QED BY <1>2, FS_CardinalityType DEF Attempted

(* The changes that are made to a row keep it well typed.                  *)
LEMMA RowChanges ==
  /\ \A r \in JobRow, s \in Statuses : [r EXCEPT !.status = s] \in JobRow
  /\ \A r \in JobRow : [r EXCEPT !.stamped = TRUE] \in JobRow
  /\ \A r \in JobRow, n \in Nat : [r EXCEPT !.steps = n] \in JobRow
  /\ \A r \in JobRow, s \in Statuses :
       [r EXCEPT !.status = s, !.stamped = TRUE] \in JobRow
BY DEF JobRow

(* What those changes do to the status and to the progress.                *)
LEMMA RowFields ==
  /\ \A r \in JobRow, s \in Statuses : [r EXCEPT !.status = s].status = s
  /\ \A r \in JobRow : [r EXCEPT !.stamped = TRUE].status = r.status
  /\ \A r \in JobRow, n \in Nat : [r EXCEPT !.steps = n].status = r.status
  /\ \A r \in JobRow, s \in Statuses :
       [r EXCEPT !.status = s, !.stamped = TRUE].status = s
  /\ \A r \in JobRow, s \in Statuses : [r EXCEPT !.status = s].steps = r.steps
  /\ \A r \in JobRow : [r EXCEPT !.stamped = TRUE].steps = r.steps
  /\ \A r \in JobRow, n \in Nat : [r EXCEPT !.steps = n].steps = n
  /\ \A r \in JobRow, s \in Statuses :
       [r EXCEPT !.status = s, !.stamped = TRUE].steps = r.steps
BY DEF JobRow

(* A write through dbExecIgnore keeps the table well typed.                *)
LEMMA DbExecIgnoreType ==
  ASSUME TypeOK, NEW j \in Jobs, NEW r \in JobRow, DbExecIgnore(j, r)
  PROVE  /\ row' \in [Jobs -> JobRow]
         /\ dbErrors' \in Nat
         /\ dbErrors' >= dbErrors
BY DEF TypeOK, DbExecIgnore

(* SlotInv is inductive.                                                   *)
LEMMA SlotInvariant == Spec => []SlotInv
<1>1. Init => SlotInv
  <2> SUFFICES ASSUME Init PROVE SlotInv
    OBVIOUS
  <2>0. [status |-> "absent", stamped |-> FALSE, steps |-> 0] \in JobRow
    BY DEF JobRow, Statuses
  <2>1. TypeOK /\ IdleInv
    BY <2>0 DEF Init, TypeOK, IdleInv, Positions, Outcomes, Phases
  <2>2. {j \in Jobs : pc[j] \in Holding} = {}
    BY DEF Init, Holding
  <2>3. running = {j \in Jobs : pc[j] \in Registered}
    BY DEF Init, Registered, Holding
  <2>4. sem = 0 /\ MaxJobs \in Nat
    BY RunnerAssumption DEF Init
  <2> QED BY <2>1, <2>2, <2>3, <2>4, FS_EmptySet DEF SlotInv, SlotAccounting
<1>2. SlotInv /\ [Next]_vars => SlotInv'
  <2> SUFFICES ASSUME SlotInv, [Next]_vars PROVE SlotInv'
    OBVIOUS
  <2> USE DEF SlotInv
  <2>h. TypeOK /\ IdleInv /\ SlotAccounting
    OBVIOUS
  <2>m. MaxJobs \in Nat /\ sem \in Nat
    BY <2>h, RunnerAssumption DEF TypeOK
  (* Moves of an executor that neither take nor give back anything.        *)
  <2>k. ASSUME NEW j \in Jobs, NEW p \in Positions,
               pc' = [pc EXCEPT ![j] = p],
               pc[j] \in Holding <=> p \in Holding,
               pc[j] \in Registered <=> p \in Registered,
               UNCHANGED <<sem, running>>
        PROVE  SlotAccounting'
    <3>1. Holders' = Holders
      BY <2>k, HoldersMove
    <3>2. running = {i \in Jobs : pc'[i] \in Registered}
      BY <2>k, <2>h, RegisteredMove DEF SlotAccounting
    <3> QED BY <3>1, <3>2, <2>k, <2>h DEF SlotAccounting, Holders
  (* Steps that move no executor.                                          *)
  <2>s. ASSUME UNCHANGED <<pc, sem, running>> PROVE SlotAccounting'
    BY <2>s, <2>h DEF SlotAccounting
  (* The deferred calls of executeJob.                                     *)
  <2>r. ASSUME NEW j \in Jobs, NEW from \in Registered,
               NEW to \in {"none", "panic"}, ReleaseJob(j, from, to)
        PROVE  SlotAccounting' /\ sem' \in Nat
    <3>0. pc[j] = from /\ pc' = [pc EXCEPT ![j] = to] /\ to \in Positions
      BY <2>r DEF ReleaseJob, Goto, Positions
    <3>1. pc[j] \in Holding /\ to \notin Holding /\ to \notin Registered
      BY <3>0 DEF Registered, Holding
    <3>2. Holders' = Holders \ {j} /\ j \in Holders
      BY <3>0, <3>1, <2>h, HoldersMove DEF Holders
    <3>3. sem >= 1 /\ Cardinality(Holders') = sem - 1
      BY <3>2, HoldersCount
    <3>4. running' = {i \in Jobs : pc'[i] \in Registered}
      <4>1. running' = running \ {j}
        BY <2>r DEF ReleaseJob
      <4>2. pc[j] \in Registered /\ running = {i \in Jobs : pc[i] \in Registered}
        BY <3>0, <2>h DEF SlotAccounting
      <4> QED BY <4>1, <4>2, <3>0, <3>1, <2>h, RegisteredMove
    <3>5. sem' = sem - 1
      BY <2>r DEF ReleaseJob
    <3> QED BY <3>3, <3>4, <3>5, <2>h, <2>m DEF SlotAccounting, Holders
  <2>1. ASSUME NEW j \in Jobs, StartJob(j) PROVE SlotInv'
    <3>1. TypeOK'
      <4>1. [row[j] EXCEPT !.status = "pending"] \in JobRow
        BY <2>h, RowChanges DEF TypeOK, Statuses
      <4>2. row' \in [Jobs -> JobRow]
        BY <4>1, <2>1, <2>h DEF TypeOK, StartJob
      <4> QED BY <4>2, <2>1, <2>h DEF TypeOK, StartJob, Positions, workVars, histVars
    <3>2. IdleInv'
      <4>1. row' = [row EXCEPT ![j] = [row[j] EXCEPT !.status = "pending"]]
        BY <2>1 DEF StartJob
      <4>2. row'[j].status = "pending" /\ \A i \in Jobs \ {j} : row'[i] = row[i]
        BY <4>1, <2>h DEF TypeOK, JobRow
      <4> QED BY <4>2, <2>1, <2>h DEF IdleInv, TypeOK, StartJob, Serving
    <3>3. SlotAccounting'
      <4>1. pc[j] = "none" /\ pc' = [pc EXCEPT ![j] = "wait"] /\ UNCHANGED <<sem, running>>
        BY <2>1, <2>h DEF StartJob, IdleInv
      <4> QED BY <4>1, <2>k DEF Holding, Registered, Positions
    <3> QED BY <3>1, <3>2, <3>3
  <2>2. ASSUME NEW j \in Jobs, AcquireSlot(j) PROVE SlotInv'
    <3>1. TypeOK'
      BY <2>2, <2>h DEF TypeOK, AcquireSlot, Goto, Positions, dbVars, execVars, workVars, histVars
    <3>2. IdleInv'
      BY <2>2, <2>h DEF IdleInv, TypeOK, AcquireSlot, Goto, dbVars
    <3>3. SlotAccounting'
      <4>1. pc[j] = "wait" /\ pc' = [pc EXCEPT ![j] = "slot"] /\ running' = running
              /\ sem < MaxJobs /\ sem' = sem + 1
        BY <2>2 DEF AcquireSlot, Goto
      <4>2. Holders' = Holders \cup {j} /\ j \notin Holders
        BY <4>1, <2>h, HoldersMove DEF Holders, Holding, Positions
      <4>3. Cardinality(Holders') = sem'
        BY <4>1, <4>2, HoldersCount
      <4>4. running = {i \in Jobs : pc'[i] \in Registered}
        BY <4>1, <2>h, RegisteredMove DEF SlotAccounting, Holding, Registered, Positions
      <4> QED BY <4>1, <4>3, <4>4, <2>m DEF SlotAccounting, Holders
    <3> QED BY <3>1, <3>2, <3>3
  <2>3. ASSUME NEW j \in Jobs, RegisterJob(j) PROVE SlotInv'
    <3>1. TypeOK'
      BY <2>3, <2>h DEF TypeOK, RegisterJob, Goto, Positions, dbVars, execVars, workVars, histVars
    <3>2. IdleInv'
      BY <2>3, <2>h DEF IdleInv, TypeOK, RegisterJob, Goto, dbVars
    <3>3. SlotAccounting'
      <4>1. pc[j] = "slot" /\ pc' = [pc EXCEPT ![j] = "load"]
              /\ running' = running \cup {j} /\ sem' = sem
        BY <2>3 DEF RegisterJob, Goto
      <4>2. Holders' = Holders
        BY <4>1, <2>h, HoldersMove DEF Holding, Positions
      <4>3. running' = {i \in Jobs : pc'[i] \in Registered}
        BY <4>1, <2>h, RegisteredMove DEF SlotAccounting, Holding, Registered, Positions
      <4> QED BY <4>1, <4>2, <4>3, <2>h DEF SlotAccounting, Holders
    <3> QED BY <3>1, <3>2, <3>3
  <2>4. ASSUME NEW j \in Jobs, LoadJob(j) PROVE SlotInv'
    <3>1. TypeOK'
      BY <2>4, <2>h DEF TypeOK, LoadJob, Positions, dbVars, execVars, workVars, histVars
    <3>2. IdleInv'
      BY <2>4, <2>h DEF IdleInv, TypeOK, LoadJob, Goto, dbVars
    <3>3. SlotAccounting'
      <4>1. PICK p \in {"exit", "mark"} : pc' = [pc EXCEPT ![j] = p]
        BY <2>4 DEF LoadJob
      <4>2. pc[j] = "load" /\ UNCHANGED <<sem, running>>
        BY <2>4 DEF LoadJob
      <4> QED BY <4>1, <4>2, <2>k DEF Holding, Registered, Positions
    <3> QED BY <3>1, <3>2, <3>3
  <2>5. ASSUME NEW j \in Jobs, MarkRunning(j) PROVE SlotInv'
    <3>1. TypeOK'
      <4>1. [row[j] EXCEPT !.status = "running"] \in JobRow
        BY <2>h, RowChanges DEF TypeOK, Statuses
      <4>2. row' \in [Jobs -> JobRow] /\ dbErrors' \in Nat
        BY <4>1, <2>5, <2>h, DbExecIgnoreType DEF MarkRunning
      <4> QED BY <4>2, <2>5, <2>h DEF TypeOK, MarkRunning, Goto, Positions, dbVars, execVars, workVars, histVars
    <3>2. IdleInv'
      <4>1. \A i \in Jobs : row'[i] = row[i] \/ (i = j /\ row'[i] = [row[j] EXCEPT !.status = "running"])
        BY <2>5, <2>h DEF MarkRunning, DbExecIgnore, TypeOK
      <4>2. \A i \in Jobs : row'[i].status = "absent" => row[i].status = "absent"
        <5>1. [row[j] EXCEPT !.status = "running"].status = "running"
          BY <2>h, RowFields DEF TypeOK, Statuses
        <5> QED BY <4>1, <5>1
      <4> QED BY <4>2, <2>5, <2>h DEF IdleInv, TypeOK, MarkRunning, Goto
    <3>3. SlotAccounting'
      <4>1. pc[j] = "mark" /\ pc' = [pc EXCEPT ![j] = "run"] /\ UNCHANGED <<sem, running>>
        BY <2>5 DEF MarkRunning, Goto
      <4> QED BY <4>1, <2>k DEF Holding, Registered, Positions
    <3> QED BY <3>1, <3>2, <3>3
  <2>6. ASSUME NEW j \in Jobs, BeginDevice(j) PROVE SlotInv'
    <3>1. TypeOK'
      <4>1. next[j] \in Slots
        BY <2>6, <2>h, RunnerAssumption DEF BeginDevice, Devs, Slots, TypeOK
      <4>2. busy' \in [Jobs -> SUBSET Slots] /\ next' \in [Jobs -> Nat]
        BY <4>1, <2>6, <2>h DEF TypeOK, BeginDevice, StartOperation
      <4>3. ops' \in [Jobs -> [Slots -> Nat]]
        BY <4>1, <2>6, <2>h DEF TypeOK, BeginDevice, StartOperation
      <4> QED BY <4>2, <4>3, <2>6, <2>h DEF TypeOK, BeginDevice, dbVars, execVars, workVars, histVars
    <3>2. IdleInv'
      BY <2>6, <2>h DEF IdleInv, BeginDevice, dbVars, execVars, workVars, histVars
    <3>3. SlotAccounting'
      BY <2>6, <2>s DEF BeginDevice, dbVars, execVars, workVars, histVars
    <3> QED BY <3>1, <3>2, <3>3
  <2>7. ASSUME NEW j \in Jobs, BulkDispatch(j) PROVE SlotInv'
    <3>1. TypeOK'
      <4>1. next[j] \in Slots
        BY <2>7, <2>h, RunnerAssumption DEF BulkDispatch, Devs, Slots, TypeOK
      <4>2. busy' \in [Jobs -> SUBSET Slots] /\ next' \in [Jobs -> Nat]
        BY <4>1, <2>7, <2>h DEF TypeOK, BulkDispatch, StartOperation
      <4>3. ops' \in [Jobs -> [Slots -> Nat]]
        BY <4>1, <2>7, <2>h DEF TypeOK, BulkDispatch, StartOperation
      <4> QED BY <4>2, <4>3, <2>7, <2>h DEF TypeOK, BulkDispatch, dbVars, execVars, workVars, histVars
    <3>2. IdleInv'
      BY <2>7, <2>h DEF IdleInv, BulkDispatch, dbVars, execVars, workVars, histVars
    <3>3. SlotAccounting'
      BY <2>7, <2>s DEF BulkDispatch, dbVars, execVars, workVars, histVars
    <3> QED BY <3>1, <3>2, <3>3
  <2>8. ASSUME NEW j \in Jobs, NEW d \in Slots, NEW o \in Outcomes, EndDevice(j, d, o) PROVE SlotInv'
    <3>1. TypeOK'
      <4>1. outcome' \in [Jobs -> [Slots -> Outcomes]] /\ busy' \in [Jobs -> SUBSET Slots]
        BY <2>8, <2>h DEF TypeOK, EndDevice
      <4>2. jobErr' \in [Jobs -> BOOLEAN]
        BY <2>8, <2>h, Zenon DEF TypeOK, EndDevice
      <4>3. Attempted(j, outcome'[j]) \in Nat
        BY AttemptedType
      <4>4. [row[j] EXCEPT !.steps = Attempted(j, outcome'[j])] \in JobRow
        BY <4>3, <2>h, RowChanges DEF TypeOK, Statuses
      <4>5. row' \in [Jobs -> JobRow] /\ dbErrors' \in Nat
        BY <4>4, <2>8, <2>h, DbExecIgnoreType DEF EndDevice, TypeOK, dbVars
      <4> QED BY <4>1, <4>2, <4>5, <2>8, <2>h DEF TypeOK, EndDevice, execVars, histVars
    <3>2. IdleInv'
      <4>1. \A i \in Jobs : row'[i] = row[i] \/ (i = j /\ row'[i] = [row[j] EXCEPT !.steps = Attempted(j, outcome'[j])])
        BY <2>8, <2>h DEF EndDevice, DbExecIgnore, TypeOK, dbVars
      <4>2. \A i \in Jobs : row'[i].status = row[i].status
        <5>1. [row[j] EXCEPT !.steps = Attempted(j, outcome'[j])].status = row[j].status
          BY <2>h, RowFields, AttemptedType DEF TypeOK
        <5> QED BY <4>1, <5>1
      <4> QED BY <4>2, <2>8, <2>h DEF IdleInv, EndDevice, execVars
    <3>3. SlotAccounting'
      BY <2>8, <2>s DEF EndDevice, dbVars, execVars, workVars, histVars
    <3> QED BY <3>1, <3>2, <3>3
  <2>9. ASSUME NEW j \in Jobs, FailSetup(j) PROVE SlotInv'
    <3>1. TypeOK'
      BY <2>9, <2>h DEF TypeOK, FailSetup, Goto, Positions, dbVars, execVars, workVars, histVars
    <3>2. IdleInv'
      BY <2>9, <2>h DEF IdleInv, TypeOK, FailSetup, Goto, dbVars
    <3>3. SlotAccounting'
      <4>1. pc[j] = "run" /\ pc' = [pc EXCEPT ![j] = "finish"] /\ UNCHANGED <<sem, running>>
        BY <2>9 DEF FailSetup, Goto, execVars
      <4> QED BY <4>1, <2>k DEF Holding, Registered, Positions
    <3> QED BY <3>1, <3>2, <3>3
  <2>10. ASSUME NEW j \in Jobs, AbortBody(j) PROVE SlotInv'
    <3>1. TypeOK'
      BY <2>10, <2>h DEF TypeOK, AbortBody, Goto, Positions, dbVars, execVars, workVars, histVars
    <3>2. IdleInv'
      BY <2>10, <2>h DEF IdleInv, TypeOK, AbortBody, Goto, dbVars
    <3>3. SlotAccounting'
      <4>1. pc[j] = "run" /\ pc' = [pc EXCEPT ![j] = "finish"] /\ UNCHANGED <<sem, running>>
        BY <2>10 DEF AbortBody, Goto, execVars
      <4> QED BY <4>1, <2>k DEF Holding, Registered, Positions
    <3> QED BY <3>1, <3>2, <3>3
  <2>11. ASSUME NEW j \in Jobs, EndBody(j) PROVE SlotInv'
    <3>1. TypeOK'
      BY <2>11, <2>h DEF TypeOK, EndBody, Goto, Positions, dbVars, execVars, workVars, histVars
    <3>2. IdleInv'
      BY <2>11, <2>h DEF IdleInv, TypeOK, EndBody, Goto, dbVars
    <3>3. SlotAccounting'
      <4>1. pc[j] = "run" /\ pc' = [pc EXCEPT ![j] = "finish"] /\ UNCHANGED <<sem, running>>
        BY <2>11 DEF EndBody, Goto, execVars
      <4> QED BY <4>1, <2>k DEF Holding, Registered, Positions
    <3> QED BY <3>1, <3>2, <3>3
  <2>12. ASSUME NEW j \in Jobs, FinishJob(j) PROVE SlotInv'
    <3>1. TypeOK'
      <4>1. [row[j] EXCEPT !.status = FinalStatus(j)] \in JobRow
        BY <2>h, RowChanges, FinalStatusType DEF TypeOK, Statuses, Final
      <4>2. row' \in [Jobs -> JobRow] /\ dbErrors' \in Nat
        BY <4>1, <2>12, <2>h, DbExecIgnoreType DEF FinishJob
      <4> QED BY <4>2, <2>12, <2>h DEF TypeOK, FinishJob, Goto, Positions, dbVars, execVars, workVars, histVars
    <3>2. IdleInv'
      <4>1. \A i \in Jobs : row'[i] = row[i] \/ (i = j /\ row'[i] = [row[j] EXCEPT !.status = FinalStatus(j)])
        BY <2>12, <2>h DEF FinishJob, DbExecIgnore, TypeOK
      <4>2. \A i \in Jobs : row'[i].status = "absent" => row[i].status = "absent"
        <5>1. [row[j] EXCEPT !.status = FinalStatus(j)].status = FinalStatus(j)
          BY <2>h, RowFields, FinalStatusType DEF TypeOK, Statuses, Final
        <5> QED BY <4>1, <5>1, FinalStatusType DEF Final
      <4> QED BY <4>2, <2>12, <2>h DEF IdleInv, TypeOK, FinishJob, Goto
    <3>3. SlotAccounting'
      <4>1. pc[j] = "finish" /\ pc' = [pc EXCEPT ![j] = "stamp"] /\ UNCHANGED <<sem, running>>
        BY <2>12 DEF FinishJob, Goto
      <4> QED BY <4>1, <2>k DEF Holding, Registered, Positions
    <3> QED BY <3>1, <3>2, <3>3
  <2>13. ASSUME NEW j \in Jobs, StampCompleted(j) PROVE SlotInv'
    <3>1. TypeOK'
      <4>1. [row[j] EXCEPT !.stamped = TRUE] \in JobRow
        BY <2>h, RowChanges DEF TypeOK, Statuses
      <4>2. row' \in [Jobs -> JobRow] /\ dbErrors' \in Nat
        BY <4>1, <2>13, <2>h, DbExecIgnoreType DEF StampCompleted
      <4> QED BY <4>2, <2>13, <2>h DEF TypeOK, StampCompleted, Goto, Positions, dbVars, execVars, workVars, histVars
    <3>2. IdleInv'
      <4>1. \A i \in Jobs : row'[i] = row[i] \/ (i = j /\ row'[i] = [row[j] EXCEPT !.stamped = TRUE])
        BY <2>13, <2>h DEF StampCompleted, DbExecIgnore, TypeOK
      <4>2. \A i \in Jobs : row'[i].status = "absent" => row[i].status = "absent"
        <5>1. [row[j] EXCEPT !.stamped = TRUE].status = row[j].status
          BY <2>h, RowFields DEF TypeOK, Statuses
        <5> QED BY <4>1, <5>1
      <4> QED BY <4>2, <2>13, <2>h DEF IdleInv, TypeOK, StampCompleted, Goto
    <3>3. SlotAccounting'
      <4>1. pc[j] = "stamp" /\ pc' = [pc EXCEPT ![j] = "exit"] /\ UNCHANGED <<sem, running>>
        BY <2>13 DEF StampCompleted, Goto
      <4> QED BY <4>1, <2>k DEF Holding, Registered, Positions
    <3> QED BY <3>1, <3>2, <3>3
  <2>14. ASSUME NEW j \in Jobs, ExitJob(j) PROVE SlotInv'
    <3>1. TypeOK'
      <4>1. sem' \in Nat
        BY <2>14, <2>r DEF ExitJob, Registered, Holding
      <4> QED BY <4>1, <2>14, <2>h DEF TypeOK, ExitJob, ReleaseJob, Goto, Positions, dbVars, execVars, workVars, histVars
    <3>2. IdleInv'
      BY <2>14, <2>h DEF IdleInv, TypeOK, ExitJob, ReleaseJob, Goto, dbVars
    <3>3. SlotAccounting'
      BY <2>14, <2>r DEF ExitJob, Registered, Holding
    <3> QED BY <3>1, <3>2, <3>3
  <2>15. ASSUME NEW j \in Jobs, PanicJob(j) PROVE SlotInv'
    <3>1. TypeOK'
      <4>1. sem' \in Nat
        BY <2>15, <2>r DEF PanicJob, Registered, Holding
      <4> QED BY <4>1, <2>15, <2>h DEF TypeOK, PanicJob, ReleaseJob, Goto, Positions, dbVars, execVars, workVars, histVars
    <3>2. IdleInv'
      BY <2>15, <2>h DEF IdleInv, TypeOK, PanicJob, ReleaseJob, Goto, dbVars
    <3>3. SlotAccounting'
      BY <2>15, <2>r DEF PanicJob, Registered, Holding
    <3> QED BY <3>1, <3>2, <3>3
  <2>16. ASSUME NEW j \in Jobs, RecoverPanic(j) PROVE SlotInv'
    <3>1. TypeOK'
      <4>1. [row[j] EXCEPT !.status = "failed", !.stamped = TRUE] \in JobRow
        BY <2>h, RowChanges DEF TypeOK, Statuses
      <4>2. row' \in [Jobs -> JobRow] /\ dbErrors' \in Nat
        BY <4>1, <2>16, <2>h, DbExecIgnoreType DEF RecoverPanic
      <4> QED BY <4>2, <2>16, <2>h DEF TypeOK, RecoverPanic, Goto, Positions, dbVars, execVars, workVars, histVars
    <3>2. IdleInv'
      <4>1. \A i \in Jobs : row'[i] = row[i] \/ (i = j /\ row'[i] = [row[j] EXCEPT !.status = "failed", !.stamped = TRUE])
        BY <2>16, <2>h DEF RecoverPanic, DbExecIgnore, TypeOK
      <4>2. \A i \in Jobs : row'[i].status = "absent" => row[i].status = "absent"
        <5>1. [row[j] EXCEPT !.status = "failed", !.stamped = TRUE].status = "failed"
          BY <2>h, RowFields DEF TypeOK, Statuses
        <5> QED BY <4>1, <5>1
      <4> QED BY <4>2, <2>16, <2>h DEF IdleInv, TypeOK, RecoverPanic, Goto
    <3>3. SlotAccounting'
      <4>1. pc[j] = "panic" /\ pc' = [pc EXCEPT ![j] = "none"] /\ UNCHANGED <<sem, running>>
        BY <2>16 DEF RecoverPanic, Goto
      <4> QED BY <4>1, <2>k DEF Holding, Registered, Positions
    <3> QED BY <3>1, <3>2, <3>3
  <2>17. ASSUME NEW j \in Jobs, CancelLookup(j) PROVE SlotInv'
    <3>1. TypeOK'
      <4>1. ctxDone' \subseteq Jobs
        BY <2>17, <2>h DEF TypeOK, CancelLookup
      <4>2. acked' \in [Jobs -> SUBSET {"signalled", "row"}]
        BY <2>17, <2>h DEF TypeOK, CancelLookup
      <4>3. cancelReq' \in [Jobs -> {"idle", "missed"}]
        <5>1. cancelReq' = cancelReq \/ cancelReq' = [cancelReq EXCEPT ![j] = "missed"]
          BY <2>17, Zenon DEF CancelLookup
        <5> QED BY <5>1, <2>h DEF TypeOK
      <4> QED BY <4>1, <4>2, <4>3, <2>17, <2>h DEF TypeOK, CancelLookup, dbVars, workVars
    <3>2. IdleInv'
      BY <2>17, <2>h DEF IdleInv, CancelLookup, dbVars, execVars, workVars, histVars
    <3>3. SlotAccounting'
      BY <2>17, <2>s DEF CancelLookup, dbVars, execVars, workVars, histVars
    <3> QED BY <3>1, <3>2, <3>3
  <2>18. ASSUME NEW j \in Jobs, CancelRow(j) PROVE SlotInv'
    <3>1. TypeOK'
      <4>1. [row[j] EXCEPT !.status = "cancelled", !.stamped = TRUE] \in JobRow
        BY <2>h, RowChanges DEF TypeOK, Statuses
      <4>2. row' \in [Jobs -> JobRow]
        BY <4>1, <2>18, <2>h DEF TypeOK, CancelRow
      <4>3. acked' \in [Jobs -> SUBSET {"signalled", "row"}]
        <5>1. acked' = acked \/ acked' = [acked EXCEPT ![j] = acked[j] \cup {"row"}]
          BY <2>18 DEF CancelRow
        <5>2. acked \in [Jobs -> SUBSET {"signalled", "row"}] /\ acked[j] \cup {"row"} \in SUBSET {"signalled", "row"}
          BY <2>h DEF TypeOK
        <5> QED BY <5>1, <5>2
      <4>4. cancelReq' \in [Jobs -> {"idle", "missed"}]
        BY <2>18, <2>h DEF TypeOK, CancelRow
      <4> QED BY <4>2, <4>3, <4>4, <2>18, <2>h DEF TypeOK, CancelRow, execVars, workVars
    <3>2. IdleInv'
      <4>1. \A i \in Jobs : row'[i] = row[i] \/ (i = j /\ row'[i] = [row[j] EXCEPT !.status = "cancelled", !.stamped = TRUE])
        BY <2>18, <2>h DEF CancelRow, TypeOK
      <4>2. \A i \in Jobs : row'[i].status = "absent" => row[i].status = "absent"
        <5>1. [row[j] EXCEPT !.status = "cancelled", !.stamped = TRUE].status = "cancelled"
          BY <2>h, RowFields DEF TypeOK, Statuses
        <5> QED BY <4>1, <5>1
      <4> QED BY <4>2, <2>18, <2>h DEF IdleInv, CancelRow, execVars
    <3>3. SlotAccounting'
      BY <2>18, <2>s DEF CancelRow, dbVars, execVars, workVars, histVars
    <3> QED BY <3>1, <3>2, <3>3
  <2>19. ASSUME BeginShutdown PROVE SlotInv'
    <3>1. TypeOK'
      BY <2>19, <2>h DEF TypeOK, BeginShutdown, Phases, dbVars, execVars, workVars, histVars
    <3>2. IdleInv'
      BY <2>19, <2>h DEF IdleInv, BeginShutdown, dbVars, execVars, workVars, histVars
    <3>3. SlotAccounting'
      BY <2>19, <2>s DEF BeginShutdown, dbVars, execVars, workVars, histVars
    <3> QED BY <3>1, <3>2, <3>3
  <2>20. ASSUME DrainDone PROVE SlotInv'
    <3>1. TypeOK'
      BY <2>20, <2>h DEF TypeOK, DrainDone, Phases, dbVars, execVars, workVars, histVars
    <3>2. IdleInv'
      BY <2>20, <2>h DEF IdleInv, DrainDone, dbVars, execVars, workVars, histVars
    <3>3. SlotAccounting'
      BY <2>20, <2>s DEF DrainDone, dbVars, execVars, workVars, histVars
    <3> QED BY <3>1, <3>2, <3>3
  <2>21. ASSUME DrainTimeout PROVE SlotInv'
    <3>1. TypeOK'
      BY <2>21, <2>h DEF TypeOK, DrainTimeout, Phases, dbVars, execVars, workVars, histVars
    <3>2. IdleInv'
      BY <2>21, <2>h DEF IdleInv, DrainTimeout, dbVars, execVars, workVars, histVars
    <3>3. SlotAccounting'
      BY <2>21, <2>s DEF DrainTimeout, dbVars, execVars, workVars, histVars
    <3> QED BY <3>1, <3>2, <3>3
  <2>22. ASSUME ProcessExit PROVE SlotInv'
    <3>1. TypeOK'
      BY <2>22, <2>h DEF TypeOK, ProcessExit, Positions, Phases, Outcomes, dbVars, histVars
    <3>2. IdleInv'
      BY <2>22, <2>h DEF IdleInv, ProcessExit, dbVars
    <3>3. SlotAccounting'
      <4>1. Holders' = {}
        BY <2>22 DEF ProcessExit, Holders, Holding
      <4>2. running' = {i \in Jobs : pc'[i] \in Registered}
        BY <2>22 DEF ProcessExit, Registered, Holding
      <4>3. sem' = 0
        BY <2>22 DEF ProcessExit
      <4> QED BY <4>1, <4>2, <4>3, <2>m, FS_EmptySet DEF SlotAccounting, Holders
    <3> QED BY <3>1, <3>2, <3>3
  <2>23. ASSUME Start PROVE SlotInv'
    <3>1. TypeOK'
      <4>1. \A j \in Jobs : [row[j] EXCEPT !.status = "failed"] \in JobRow
        BY <2>h, RowChanges DEF TypeOK, Statuses
      <4>2. row' \in [Jobs -> JobRow] /\ dbErrors' \in Nat
        BY <4>1, <2>23, <2>h DEF TypeOK, Start
      <4> QED BY <4>2, <2>23, <2>h DEF TypeOK, Start, Positions, Phases, workVars, histVars
    <3>2. IdleInv'
      <4>1. \A j \in Jobs : row'[j] = row[j] \/ row'[j] = [row[j] EXCEPT !.status = "failed"]
        BY <2>23, <2>h DEF Start, TypeOK
      <4>2. \A j \in Jobs : row'[j].status = "absent" => row[j].status = "absent"
        BY <4>1, <2>h DEF TypeOK, JobRow
      <4> QED BY <4>2, <2>23, <2>h DEF IdleInv, Start
    <3>3. SlotAccounting'
      <4>1. \A j \in Jobs : pc[j] = "none" /\ pc'[j] \in {"none", "wait"}
        BY <2>23, <2>h DEF Start, IdleInv
      <4>2. Holders' = Holders
        BY <4>1 DEF Holders, Holding
      <4>3. {i \in Jobs : pc[i] \in Registered} = {i \in Jobs : pc'[i] \in Registered}
        BY <4>1 DEF Registered, Holding
      <4> QED BY <4>2, <4>3, <2>23, <2>h DEF SlotAccounting, Holders, Start
    <3> QED BY <3>1, <3>2, <3>3
  <2>24. ASSUME UNCHANGED vars PROVE SlotInv'
    BY <2>24, <2>h, <2>s DEF TypeOK, IdleInv, vars
  <2> QED BY <2>1, <2>2, <2>3, <2>4, <2>5, <2>6, <2>7, <2>8, <2>9, <2>10, <2>11,
             <2>12, <2>13, <2>14, <2>15, <2>16, <2>17, <2>18, <2>19, <2>20, <2>21,
             <2>22, <2>23, <2>24, RunnerAssumption
          DEF Next, ExecStep, OperationEnds
<1> QED BY <1>1, <1>2, PTL DEF Spec

(* Spec keeps its types, and the slots and the map of cancel functions     *)
(* match the executors that hold them (runner.go:263-290).                 *)
THEOREM SlotsAccounted == Spec => [](TypeOK /\ SlotAccounting)
<1>1. SlotInv => TypeOK /\ SlotAccounting
  BY DEF SlotInv
<1> QED BY <1>1, SlotInvariant, PTL

-----------------------------------------------------------------------------
(***************************************************************************)
(* No device is operated on twice.                                         *)
(***************************************************************************)
Unstarted == {"absent", "pending"}

OnceJob(j) ==
  /\ runs[j] > 0 => row[j].status \notin Unstarted
  /\ runs[j] = 0 => \A d \in Slots : ops[j][d] = 0
  /\ pc[j] = "mark" => runs[j] = 0
  /\ pc[j] = "run" => runs[j] > 0
  /\ pc[j] = "run" => \A d \in Slots : d >= next[j] => ops[j][d] = 0
  /\ \A d \in Slots : ops[j][d] <= 1

AtMostOnceInv == dbErrors = 0 => \A j \in Jobs : OnceJob(j)

(* No row becomes absent or pending that was neither.                      *)
NoRevival ==
  \A j \in Jobs : row'[j].status \in Unstarted => row[j].status \in Unstarted

(* Every step but LoadJob, MarkRunning and the start of an operation keeps *)
(* AtMostOnceInv for the same reason: it counts nothing, revives no row    *)
(* and moves no executor to mark or run.                                   *)
LEMMA QuietStep ==
  ASSUME TypeOK, AtMostOnceInv, NoRevival, UNCHANGED <<runs, ops>>,
         dbErrors' = 0 => dbErrors = 0,
         \A j \in Jobs : \/ pc'[j] = pc[j] /\ next'[j] = next[j]
                         \/ pc'[j] \notin {"mark", "run"}
  PROVE  AtMostOnceInv'
<1> SUFFICES ASSUME dbErrors' = 0, NEW j \in Jobs PROVE OnceJob(j)'
  BY DEF AtMostOnceInv
<1>1. OnceJob(j)
  BY DEF AtMostOnceInv
<1>2. row'[j].status \in Unstarted => row[j].status \in Unstarted
  BY DEF NoRevival
<1>3. \/ pc'[j] = pc[j] /\ next'[j] = next[j]
      \/ pc'[j] \notin {"mark", "run"}
  OBVIOUS
<1> QED BY <1>1, <1>2, <1>3 DEF OnceJob

(* What a write through dbExecIgnore does to the statuses.                 *)
LEMMA DbExecIgnoreStatus ==
  ASSUME TypeOK, NEW j \in Jobs, NEW r \in JobRow, DbExecIgnore(j, r),
         r.status \in Unstarted => row[j].status \in Unstarted
  PROVE  NoRevival /\ (dbErrors' = 0 => dbErrors = 0)
<1>1. \A i \in Jobs : row'[i] = row[i] \/ (i = j /\ row'[i] = r)
  BY DEF TypeOK, DbExecIgnore
<1>2. dbErrors' = 0 => dbErrors = 0
  BY DEF TypeOK, DbExecIgnore
<1> QED BY <1>1, <1>2 DEF NoRevival

(* The start of an operation, sequential or bulk, counts it for the device *)
(* at next, which had none, and moves next past it.                        *)
LEMMA StartOperationOnce ==
  ASSUME TypeOK, AtMostOnceInv, NEW j \in Jobs, pc[j] = "run",
         next[j] \in Devs(j), StartOperation(j), UNCHANGED <<row, pc, runs, dbErrors>>
  PROVE  AtMostOnceInv'
<1> SUFFICES ASSUME dbErrors' = 0, NEW i \in Jobs PROVE OnceJob(i)'
  BY DEF AtMostOnceInv
<1>1. OnceJob(i) /\ OnceJob(j)
  BY DEF AtMostOnceInv
<1>2. next[j] \in Slots /\ next[j] \in Nat
  BY RunnerAssumption DEF Devs, Slots, TypeOK
<1>3. ops' = [ops EXCEPT ![j] = [ops[j] EXCEPT ![next[j]] = ops[j][next[j]] + 1]]
      /\ next' = [next EXCEPT ![j] = next[j] + 1]
  BY DEF StartOperation
<1>4. ops[j] \in [Slots -> Nat] /\ ops \in [Jobs -> [Slots -> Nat]] /\ next \in [Jobs -> Nat]
  BY DEF TypeOK
<1>5. CASE i # j
  <2>1. ops'[i] = ops[i] /\ next'[i] = next[i]
    BY <1>3, <1>4, <1>5
  <2> QED BY <2>1, <1>1 DEF OnceJob
<1>6. CASE i = j
  <2>1. ops'[j] = [ops[j] EXCEPT ![next[j]] = ops[j][next[j]] + 1]
    BY <1>3, <1>4
  <2>2. next'[j] = next[j] + 1
    BY <1>3, <1>4
  <2>3. ops[j][next[j]] = 0 /\ runs[j] > 0
    BY <1>1, <1>2 DEF OnceJob
  <2>4. \A d \in Slots : ops'[j][d] = IF d = next[j] THEN 1 ELSE ops[j][d]
    BY <2>1, <2>3, <1>2, <1>4
  <2>5. Slots \subseteq Nat
    BY RunnerAssumption DEF Slots
  <2>6. \A d \in Slots : d >= next[j] + 1 => ops'[j][d] = 0
    BY <2>4, <2>5, <1>1, <1>2 DEF OnceJob
  <2>7. \A d \in Slots : ops'[j][d] <= 1
    BY <2>4, <1>1 DEF OnceJob
  <2>8. runs[j] \in Nat
    BY DEF TypeOK
  <2> QED BY <1>6, <2>2, <2>3, <2>6, <2>7, <2>8, <1>1 DEF OnceJob
<1> QED BY <1>5, <1>6

(* AtMostOnceInv is an invariant, given the types.                         *)
LEMMA OnceInvariant == Spec => []AtMostOnceInv
<1>1. Init => AtMostOnceInv
  BY DEF Init, AtMostOnceInv, OnceJob, Slots
<1>2. TypeOK /\ AtMostOnceInv /\ [Next]_vars => AtMostOnceInv'
  <2> SUFFICES ASSUME TypeOK, AtMostOnceInv, [Next]_vars PROVE AtMostOnceInv'
    OBVIOUS
  <2>r. \A j \in Jobs : row[j] \in JobRow
    BY DEF TypeOK
  <2>u. ASSUME UNCHANGED <<row, dbErrors>> PROVE NoRevival /\ (dbErrors' = 0 => dbErrors = 0)
    BY <2>u DEF NoRevival
  <2>1. ASSUME NEW j \in Jobs, StartJob(j) PROVE AtMostOnceInv'
    <3>1. row' = [row EXCEPT ![j] = [row[j] EXCEPT !.status = "pending"]]
      BY <2>1 DEF StartJob
    <3>2. NoRevival
      BY <3>1, <2>1 DEF NoRevival, StartJob, TypeOK, Unstarted
    <3> QED BY <3>2, <2>1, QuietStep DEF StartJob, TypeOK, workVars, histVars
  <2>2. ASSUME NEW j \in Jobs,
               AcquireSlot(j) \/ RegisterJob(j) \/ AbortBody(j) \/ EndBody(j)
                 \/ FailSetup(j) \/ ExitJob(j) \/ PanicJob(j)
        PROVE  AtMostOnceInv'
    <3>1. UNCHANGED <<row, dbErrors, runs, ops>>
      BY <2>2 DEF AcquireSlot, RegisterJob, AbortBody, EndBody, FailSetup, ExitJob,
                  PanicJob, dbVars, histVars
    <3>2. \E p \in Positions \ {"mark", "run"} : pc' = [pc EXCEPT ![j] = p]
      BY <2>2 DEF AcquireSlot, RegisterJob, AbortBody, EndBody, FailSetup, ExitJob,
                  PanicJob, ReleaseJob, Goto, Positions
    <3>3. next' = next
      BY <2>2 DEF AcquireSlot, RegisterJob, AbortBody, EndBody, FailSetup, ExitJob,
                  PanicJob, workVars
    <3> QED BY <3>1, <3>2, <3>3, <2>u, QuietStep DEF TypeOK
  <2>3. ASSUME NEW j \in Jobs, LoadJob(j) PROVE AtMostOnceInv'
    <3> SUFFICES ASSUME dbErrors' = 0, NEW i \in Jobs PROVE OnceJob(i)'
      BY DEF AtMostOnceInv
    <3>1. UNCHANGED <<row, dbErrors, runs, ops, next>>
      BY <2>3 DEF LoadJob, dbVars, histVars, workVars
    <3>2. OnceJob(i) /\ runs[i] \in Nat
      BY <3>1 DEF AtMostOnceInv, TypeOK
    <3>3. pc'[i] = pc[i] \/ pc'[i] = "exit"
            \/ (pc'[i] = "mark" /\ row[i].status = "pending")
      BY <2>3 DEF LoadJob, TypeOK
    <3> QED BY <3>1, <3>2, <3>3 DEF OnceJob, Unstarted
  <2>4. ASSUME NEW j \in Jobs, MarkRunning(j) PROVE AtMostOnceInv'
    <3> SUFFICES ASSUME dbErrors' = 0, NEW i \in Jobs PROVE OnceJob(i)'
      BY DEF AtMostOnceInv
    <3>1. dbErrors = 0 /\ row' = [row EXCEPT ![j] = [row[j] EXCEPT !.status = "running"]]
      BY <2>4 DEF MarkRunning, DbExecIgnore, TypeOK
    <3>2. OnceJob(i)
      BY <3>1 DEF AtMostOnceInv
    <3>3. pc[j] = "mark" /\ pc' = [pc EXCEPT ![j] = "run"]
          /\ runs' = [runs EXCEPT ![j] = runs[j] + 1] /\ UNCHANGED <<ops, next>>
      BY <2>4 DEF MarkRunning, Goto, workVars
    <3>4. CASE i # j
      <4>1. row'[i] = row[i] /\ pc'[i] = pc[i] /\ runs'[i] = runs[i]
        BY <3>1, <3>3, <3>4 DEF TypeOK
      <4> QED BY <4>1, <3>2, <3>3 DEF OnceJob
    <3>5. CASE i = j
      <4>1. pc'[i] = "run" /\ runs'[i] = runs[i] + 1
        BY <3>3, <3>5 DEF TypeOK
      <4>2. runs[i] = 0 /\ \A d \in Slots : ops[i][d] = 0
        BY <3>2, <3>3, <3>5 DEF OnceJob
      <4>3. row'[i].status = "running"
        BY <3>1, <3>5, RowFields DEF TypeOK, Statuses
      <4> QED BY <4>1, <4>2, <4>3, <3>3 DEF OnceJob, Unstarted
    <3> QED BY <3>4, <3>5
  <2>5. ASSUME NEW j \in Jobs, BeginDevice(j) \/ BulkDispatch(j) PROVE AtMostOnceInv'
    <3>1. /\ pc[j] = "run" /\ next[j] \in Devs(j) /\ StartOperation(j)
          /\ UNCHANGED <<row, pc, runs, dbErrors>>
      BY <2>5 DEF BeginDevice, BulkDispatch, dbVars, execVars
    <3> QED BY <3>1, StartOperationOnce
  <2>6. ASSUME NEW j \in Jobs, NEW d \in Slots, NEW o \in Outcomes, EndDevice(j, d, o)
        PROVE  AtMostOnceInv'
    <3>1. [row[j] EXCEPT !.steps = Attempted(j, outcome'[j])] \in JobRow
          /\ [row[j] EXCEPT !.steps = Attempted(j, outcome'[j])].status = row[j].status
      BY <2>r, AttemptedType, RowChanges, RowFields
    <3>2. NoRevival /\ (dbErrors' = 0 => dbErrors = 0)
      BY <3>1, <2>6, <2>u, DbExecIgnoreStatus DEF EndDevice, dbVars
    <3> QED BY <3>2, <2>6, QuietStep DEF EndDevice, execVars, histVars
  <2>7. ASSUME NEW j \in Jobs, FinishJob(j) PROVE AtMostOnceInv'
    <3>1. FinalStatus(j) \in Statuses \ Unstarted
      BY FinalStatusType DEF Final, Statuses, Unstarted
    <3>2. [row[j] EXCEPT !.status = FinalStatus(j)] \in JobRow
          /\ [row[j] EXCEPT !.status = FinalStatus(j)].status = FinalStatus(j)
      BY <2>r, <3>1, RowChanges, RowFields
    <3>3. NoRevival /\ (dbErrors' = 0 => dbErrors = 0)
      BY <3>1, <3>2, <2>7, DbExecIgnoreStatus DEF FinishJob
    <3> QED BY <3>3, <2>7, QuietStep DEF FinishJob, Goto, TypeOK, workVars, histVars
  <2>8. ASSUME NEW j \in Jobs, StampCompleted(j) PROVE AtMostOnceInv'
    <3>1. [row[j] EXCEPT !.stamped = TRUE] \in JobRow
          /\ [row[j] EXCEPT !.stamped = TRUE].status = row[j].status
      BY <2>r, RowChanges, RowFields
    <3>2. NoRevival /\ (dbErrors' = 0 => dbErrors = 0)
      BY <3>1, <2>8, DbExecIgnoreStatus DEF StampCompleted
    <3> QED BY <3>2, <2>8, QuietStep DEF StampCompleted, Goto, TypeOK, workVars, histVars
  <2>9. ASSUME NEW j \in Jobs, RecoverPanic(j) PROVE AtMostOnceInv'
    <3>1. [row[j] EXCEPT !.status = "failed", !.stamped = TRUE] \in JobRow
          /\ [row[j] EXCEPT !.status = "failed", !.stamped = TRUE].status = "failed"
      BY <2>r, RowChanges, RowFields DEF Statuses
    <3>2. NoRevival /\ (dbErrors' = 0 => dbErrors = 0)
      BY <3>1, <2>9, DbExecIgnoreStatus DEF RecoverPanic, Unstarted
    <3> QED BY <3>2, <2>9, QuietStep DEF RecoverPanic, Goto, TypeOK, workVars, histVars
  <2>10. ASSUME NEW j \in Jobs, CancelLookup(j) PROVE AtMostOnceInv'
    BY <2>10, <2>u, QuietStep DEF CancelLookup, dbVars, workVars
  <2>11. ASSUME NEW j \in Jobs, CancelRow(j) PROVE AtMostOnceInv'
    <3>1. \A i \in Jobs : row'[i] = row[i] \/ (i = j
            /\ row'[i] = [row[j] EXCEPT !.status = "cancelled", !.stamped = TRUE])
      BY <2>11 DEF CancelRow, TypeOK
    <3>2. [row[j] EXCEPT !.status = "cancelled", !.stamped = TRUE].status = "cancelled"
      BY <2>r, RowFields DEF Statuses
    <3>3. NoRevival
      BY <3>1, <3>2 DEF NoRevival, Unstarted
    <3> QED BY <3>3, <2>11, QuietStep DEF CancelRow, execVars, workVars
  <2>12. ASSUME BeginShutdown \/ DrainDone \/ DrainTimeout PROVE AtMostOnceInv'
    BY <2>12, <2>u, QuietStep DEF BeginShutdown, DrainDone, DrainTimeout, dbVars,
       execVars, workVars, histVars
  <2>13. ASSUME ProcessExit PROVE AtMostOnceInv'
    BY <2>13, <2>u, QuietStep DEF ProcessExit, dbVars, histVars
  <2>14. ASSUME Start PROVE AtMostOnceInv'
    <3>1. \A i \in Jobs : row'[i] = row[i]
            \/ row'[i] = [row[i] EXCEPT !.status = "failed"]
      BY <2>14 DEF Start, TypeOK
    <3>2. NoRevival
      <4>1. \A i \in Jobs : [row[i] EXCEPT !.status = "failed"].status = "failed"
        BY <2>r, RowFields DEF Statuses
      <4> QED BY <3>1, <4>1 DEF NoRevival, Unstarted
    <3>3. dbErrors' = 0 => dbErrors = 0
      BY <2>14 DEF Start, TypeOK
    <3> QED BY <3>2, <3>3, <2>14, QuietStep DEF Start, histVars
  <2>15. ASSUME UNCHANGED vars PROVE AtMostOnceInv'
    BY <2>15, <2>u, QuietStep DEF vars
  <2> QED BY <2>1, <2>2, <2>3, <2>4, <2>5, <2>6, <2>7, <2>8, <2>9, <2>10, <2>11,
             <2>12, <2>13, <2>14, <2>15, RunnerAssumption
          DEF Next, ExecStep, OperationEnds
<1> QED BY <1>1, <1>2, SlotsAccounted, PTL DEF Spec

(* AtMostOnce for every instance: no device is operated on twice for one   *)
(* job as long as no write was lost (runner.go:178-209, 293-306).          *)
THEOREM DevicesOperatedOnce == Spec => []AtMostOnce
<1>1. AtMostOnceInv => AtMostOnce
  BY DEF AtMostOnceInv, AtMostOnce, OnceJob
<1> QED BY <1>1, OnceInvariant, PTL

-----------------------------------------------------------------------------
(***************************************************************************)
(* What a successful shutdown leaves behind.                               *)
(***************************************************************************)
(* Operations in flight were started; outside its body a job that visits   *)
(* its devices one by one has none.                                        *)
QuietJob(j) ==
  /\ \A d \in busy[j] : d < next[j]
  /\ JobType[j] \in Sequential /\ pc[j] # "run" => busy[j] = {}

QuietInv == \A j \in Jobs : QuietJob(j)

(* A step of job j that starts no operation keeps QuietInv when it leaves  *)
(* next alone and the body only with nothing in flight.                    *)
LEMMA QuietMove ==
  ASSUME TypeOK, QuietInv, NEW j \in Jobs, NEW p \in Positions,
         pc' = [pc EXCEPT ![j] = p], UNCHANGED <<next, busy>>,
         pc[j] = "run" => JobType[j] \notin Sequential \/ busy[j] = {}
  PROVE  QuietInv'
BY DEF QuietInv, QuietJob, TypeOK

(* QuietInv is an invariant.                                               *)
LEMMA QuietInvariant == Spec => []QuietInv
<1>1. Init => QuietInv
  BY DEF Init, QuietInv, QuietJob
<1>2. SlotInv /\ QuietInv /\ [Next]_vars => QuietInv'
  <2> SUFFICES ASSUME TypeOK, IdleInv, QuietInv, [Next]_vars PROVE QuietInv'
    BY DEF SlotInv
  <2>s. ASSUME UNCHANGED <<pc, next, busy>> PROVE QuietInv'
    BY <2>s DEF QuietInv, QuietJob
  <2>1. ASSUME NEW j \in Jobs,
               StartJob(j) \/ AcquireSlot(j) \/ RegisterJob(j) \/ LoadJob(j)
                 \/ MarkRunning(j) \/ FinishJob(j) \/ StampCompleted(j)
                 \/ ExitJob(j) \/ RecoverPanic(j)
        PROVE  QuietInv'
    <3>1. pc[j] # "run" /\ UNCHANGED <<next, busy>>
      BY <2>1 DEF StartJob, AcquireSlot, RegisterJob, LoadJob, MarkRunning, FinishJob,
        StampCompleted, ExitJob, ReleaseJob, RecoverPanic, Goto, IdleInv, workVars
    <3>2. \E p \in Positions : pc' = [pc EXCEPT ![j] = p]
      BY <2>1 DEF StartJob, AcquireSlot, RegisterJob, LoadJob, MarkRunning, FinishJob,
        StampCompleted, ExitJob, ReleaseJob, RecoverPanic, Goto, Positions
    <3> QED BY <3>1, <3>2, QuietMove
  <2>2. ASSUME NEW j \in Jobs, AbortBody(j) \/ EndBody(j) \/ FailSetup(j) \/ PanicJob(j)
        PROVE  QuietInv'
    <3>1. JobType[j] \notin Sequential \/ busy[j] = {}
      <4>1. CASE AbortBody(j)
        BY <4>1 DEF AbortBody, Sequential
      <4>2. CASE EndBody(j) \/ PanicJob(j)
        BY <4>2 DEF EndBody, PanicJob
      <4>3. CASE FailSetup(j)
        <5>1. next[j] = 1 /\ \A d \in busy[j] : d < 1
          BY <4>3 DEF FailSetup, HasSetup, QuietInv, QuietJob
        <5>2. busy[j] \subseteq 1..MaxDev /\ MaxDev \in Nat
          BY RunnerAssumption DEF TypeOK, Slots
        <5> QED BY <5>1, <5>2
      <4> QED BY <2>2, <4>1, <4>2, <4>3
    <3>2. UNCHANGED <<next, busy>>
      BY <2>2 DEF AbortBody, EndBody, FailSetup, PanicJob, workVars
    <3>3. \E p \in Positions : pc' = [pc EXCEPT ![j] = p]
      BY <2>2 DEF AbortBody, EndBody, FailSetup, PanicJob, ReleaseJob, Goto, Positions
    <3> QED BY <3>1, <3>2, <3>3, QuietMove
  <2>3. ASSUME NEW j \in Jobs, BeginDevice(j) \/ BulkDispatch(j) PROVE QuietInv'
    <3>1. pc[j] = "run" /\ pc' = pc /\ StartOperation(j)
      BY <2>3 DEF BeginDevice, BulkDispatch, execVars
    <3>2. next[j] \in Nat /\ busy[j] \subseteq Nat
      BY RunnerAssumption DEF TypeOK, Slots
    <3>3. /\ busy'[j] = busy[j] \cup {next[j]} /\ next'[j] = next[j] + 1
          /\ \A i \in Jobs \ {j} : busy'[i] = busy[i] /\ next'[i] = next[i]
      BY <3>1 DEF StartOperation, TypeOK
    <3>4. QuietJob(j)'
      <4>1. \A d \in busy[j] : d < next[j]
        BY DEF QuietInv, QuietJob
      <4>2. \A d \in busy'[j] : d < next'[j]
        BY <3>2, <3>3, <4>1
      <4> QED BY <3>1, <4>2 DEF QuietJob
    <3>5. \A i \in Jobs \ {j} : QuietJob(i)'
      BY <3>1, <3>3 DEF QuietInv, QuietJob
    <3> QED BY <3>4, <3>5 DEF QuietInv
  <2>4. ASSUME NEW j \in Jobs, NEW d \in Slots, NEW o \in Outcomes, EndDevice(j, d, o)
        PROVE  QuietInv'
    <3>1. UNCHANGED <<pc, next>> /\ \A i \in Jobs : busy'[i] \subseteq busy[i]
      BY <2>4 DEF EndDevice, execVars, TypeOK
    <3> QED BY <3>1 DEF QuietInv, QuietJob
  <2>5. ASSUME NEW j \in Jobs, CancelLookup(j) \/ CancelRow(j) PROVE QuietInv'
    BY <2>5, <2>s DEF CancelLookup, CancelRow, execVars, workVars
  <2>6. ASSUME BeginShutdown \/ DrainDone \/ DrainTimeout \/ UNCHANGED vars PROVE QuietInv'
    BY <2>6, <2>s DEF BeginShutdown, DrainDone, DrainTimeout, vars, execVars, workVars
  <2>7. ASSUME ProcessExit PROVE QuietInv'
    BY <2>7 DEF ProcessExit, QuietInv, QuietJob
  <2>8. ASSUME Start PROVE QuietInv'
    <3>1. \A j \in Jobs : pc[j] = "none"
      BY <2>8 DEF Start, IdleInv
    <3> QED BY <2>8, <3>1 DEF Start, workVars, QuietInv, QuietJob
  <2> QED BY <2>1, <2>2, <2>3, <2>4, <2>5, <2>6, <2>7, <2>8, RunnerAssumption
          DEF Next, ExecStep, OperationEnds
<1> QED BY <1>1, <1>2, SlotInvariant, PTL DEF Spec

(* DrainedMeansQuiet for every instance: once Shutdown has reported that   *)
(* all jobs completed, no sequential job that has ended has an operation   *)
(* in flight (runner.go:1037-1059).                                        *)
THEOREM ShutdownLeavesNothing == Spec => []DrainedMeansQuiet
<1>1. QuietInv => DrainedMeansQuiet
  BY DEF QuietInv, QuietJob, DrainedMeansQuiet
<1> QED BY <1>1, QuietInvariant, PTL

-----------------------------------------------------------------------------
(***************************************************************************)
(* A completed job is a complete job.                                      *)
(***************************************************************************)
Done   == {"completed", "skipped", "rebooting"}
Queued == {"wait", "slot", "load", "mark"}
InBody == {"run", "finish"}

(* Nothing was done for j yet.                                             *)
Untouched(j) ==
  /\ busy[j] = {} /\ next[j] = 1 /\ ~ jobErr[j] /\ row[j].steps = 0
  /\ \A d \in Slots : outcome[j][d] = "none" /\ ops[j][d] = 0

(* In its body, j has started exactly the devices before next, each is in  *)
(* flight or has an outcome, and unless the job has failed the progress    *)
(* counts the outcomes.                                                    *)
Progress(j) ==
  /\ next[j] \in 1..(NDev[j] + 1)
  /\ \A d \in Devs(j) : d < next[j] =>
       ops[j][d] = 1 /\ (d \in busy[j] \/ outcome[j][d] # "none")
  /\ \A d \in Slots : d >= next[j] => ops[j][d] = 0
  /\ ~ jobErr[j] => row[j].steps = Attempted(j, outcome[j])

Total(j) ==
  /\ busy[j] = {} /\ row[j].steps = NDev[j]
  /\ \A d \in Devs(j) : ops[j][d] = 1

TotalJob(j) ==
  /\ pc[j] \in Queued => row[j].status \in {"pending", "cancelled"}
  /\ pc[j] \in InBody \cup {"panic"} => row[j].status = "running" /\ runs[j] > 0
  /\ pc[j] \in Queued \/ row[j].status \in Unstarted => Untouched(j)
  /\ pc[j] \in InBody => Progress(j)
  /\ pc[j] = "finish" /\ ~ jobErr[j] => busy[j] = {} /\ next[j] = NDev[j] + 1
  /\ row[j].status \in Done => Total(j)

TotalInv == dbErrors = 0 => \A j \in Jobs : TotalJob(j)

(* Nothing that TotalJob(i) speaks of changes.                             *)
SameJob(i) ==
  /\ row'[i].status = row[i].status /\ row'[i].steps = row[i].steps
  /\ pc'[i] = pc[i] /\ next'[i] = next[i] /\ busy'[i] = busy[i]
  /\ outcome'[i] = outcome[i] /\ jobErr'[i] = jobErr[i]
  /\ ops'[i] = ops[i] /\ runs'[i] = runs[i]

(* A step of another job.                                                  *)
LEMMA SameJobTotal ==
  ASSUME NEW i \in Jobs, TotalJob(i), SameJob(i)
  PROVE  TotalJob(i)'
BY DEF TotalJob, SameJob, Untouched, Progress, Total, Attempted

(* A step of job j needs only to be looked at for j.                       *)
LEMMA OneJobTotal ==
  ASSUME TypeOK, TotalInv, dbErrors' = 0 => dbErrors = 0, NEW j \in Jobs,
         \A i \in Jobs \ {j} : SameJob(i),
         dbErrors' = 0 /\ TotalJob(j) => TotalJob(j)'
  PROVE  TotalInv'
BY SameJobTotal DEF TotalInv

(* What a write through dbExecIgnore does while no write is lost.          *)
LEMMA DbExecIgnoreRow ==
  ASSUME TypeOK, NEW j \in Jobs, NEW r \in JobRow, DbExecIgnore(j, r)
  PROVE  /\ dbErrors' = 0 => dbErrors = 0 /\ row'[j] = r
         /\ \A i \in Jobs \ {j} : row'[i] = row[i]
BY DEF TypeOK, DbExecIgnore

(* completed_steps of a job whose devices have all, or none, an outcome.   *)
LEMMA AttemptedEnds ==
  ASSUME NEW j \in Jobs, NEW oc
  PROVE  /\ (\A d \in Devs(j) : oc[d] = "none") => Attempted(j, oc) = 0
         /\ (\A d \in Devs(j) : oc[d] # "none") => Attempted(j, oc) = NDev[j]
<1>1. ASSUME \A d \in Devs(j) : oc[d] = "none" PROVE Attempted(j, oc) = 0
  <2>1. {d \in Devs(j) : oc[d] # "none"} = {}
    BY <1>1
  <2> QED BY <2>1, FS_EmptySet DEF Attempted
<1>2. ASSUME \A d \in Devs(j) : oc[d] # "none" PROVE Attempted(j, oc) = NDev[j]
  <2>1. {d \in Devs(j) : oc[d] # "none"} = 1..NDev[j]
    BY <1>2 DEF Devs
  <2>2. NDev[j] \in Nat
    BY RunnerAssumption
  <2>3. Cardinality(1..NDev[j]) = NDev[j]
    <3>1. 1 \in Int /\ NDev[j] \in Int
      BY <2>2
    <3>2. Cardinality(1..NDev[j]) = IF 1 > NDev[j] THEN 0 ELSE NDev[j] - 1 + 1
      BY <3>1, FS_Interval
    <3> QED BY <3>2, <2>2
  <2> QED BY <2>1, <2>3 DEF Attempted
<1> QED BY <1>1, <1>2

(* FinalStatus reports one of Done only for a job without an error.        *)
LEMMA DoneWithoutError ==
  ASSUME NEW j \in Jobs, FinalStatus(j) \in Done
  PROVE  ~ jobErr[j]
<1> SUFFICES ASSUME jobErr[j] PROVE FALSE
  OBVIOUS
<1>1. CASE j \in ctxDone
  <2>1. FinalStatus(j) = "cancelled"
    BY <1>1 DEF FinalStatus
  <2> QED BY <2>1 DEF Done
<1>2. CASE j \notin ctxDone
  <2>1. FinalStatus(j) = "failed"
    BY <1>2 DEF FinalStatus
  <2> QED BY <2>1 DEF Done
<1> QED BY <1>1, <1>2

(* The start of an operation keeps the account of the devices.             *)
LEMMA StartOperationTotal ==
  ASSUME TypeOK, NEW j \in Jobs, pc[j] = "run", next[j] \in Devs(j), TotalJob(j),
         StartOperation(j), UNCHANGED <<row, pc, outcome, jobErr, runs>>
  PROVE  TotalJob(j)'
<1>1. next[j] \in Slots /\ next[j] \in Nat /\ next[j] \in 1..NDev[j] /\ NDev[j] \in Nat
  BY RunnerAssumption DEF Devs, Slots, TypeOK
<1>2. busy'[j] = busy[j] \cup {next[j]} /\ next'[j] = next[j] + 1
  BY DEF StartOperation, TypeOK
<1>3. /\ ops'[j][next[j]] = ops[j][next[j]] + 1
      /\ \A d \in Slots : d # next[j] => ops'[j][d] = ops[j][d]
  BY <1>1 DEF StartOperation, TypeOK
<1>4. Progress(j) /\ row[j].status = "running" /\ runs[j] > 0
  BY DEF TotalJob, InBody
<1>5. Devs(j) \subseteq Slots /\ Slots \subseteq Nat
  BY RunnerAssumption DEF Devs, Slots
<1>6. ops[j][next[j]] = 0
  BY <1>1, <1>4 DEF Progress
<1>7. Progress(j)'
  <2>1. next'[j] \in 1..(NDev[j] + 1)
    BY <1>1, <1>2
  <2>2. ASSUME NEW d \in Devs(j), d < next'[j]
        PROVE  ops'[j][d] = 1 /\ (d \in busy'[j] \/ outcome'[j][d] # "none")
    <3>0. d \in Nat /\ d \in Slots /\ d < next[j] + 1
      BY <2>2, <1>2, <1>5
    <3>1. d \in Slots /\ (d = next[j] \/ d < next[j])
      BY <3>0, <1>1
    <3> QED BY <3>1, <1>2, <1>3, <1>4, <1>6 DEF Progress
  <2>3. ASSUME NEW d \in Slots, d >= next'[j] PROVE ops'[j][d] = 0
    <3>1. d # next[j] /\ d >= next[j]
      BY <2>3, <1>1, <1>2, <1>5
    <3> QED BY <3>1, <1>3, <1>4 DEF Progress
  <2> QED BY <2>1, <2>2, <2>3, <1>4 DEF Progress, Attempted, Devs
<1> QED BY <1>4, <1>7 DEF TotalJob, InBody, Queued, Unstarted, Done

(* The end of an operation does, too.                                      *)
LEMMA EndDeviceTotal ==
  ASSUME TypeOK, NEW j \in Jobs, NEW d \in Slots, NEW o \in Outcomes \ {"none"},
         EndDevice(j, d, o), TotalJob(j), dbErrors' = 0
  PROVE  TotalJob(j)'
<1>1. /\ UNCHANGED <<pc, next, ops, runs>>
      /\ d \in busy[j] /\ busy'[j] = busy[j] \ {d}
  BY DEF EndDevice, execVars, histVars, TypeOK
<1>2. outcome'[j][d] = o /\ \A e \in Slots : e # d => outcome'[j][e] = outcome[j][e]
  BY DEF EndDevice, TypeOK
<1>3. jobErr'[j] = (jobErr[j] \/ (JobType[j] = "upgrade" /\ o = "failed"))
  BY Zenon DEF EndDevice, TypeOK
<1>r. row[j] \in JobRow /\ Attempted(j, outcome'[j]) \in Nat
  BY AttemptedType DEF TypeOK
<1>4. row'[j].status = row[j].status
      /\ (jobErr'[j] \/ row'[j].steps = Attempted(j, outcome'[j]))
  <2>1. CASE JobType[j] = "upgrade" /\ o = "failed"
    BY <2>1, <1>3 DEF EndDevice, TypeOK, dbVars
  <2>2. CASE ~ (JobType[j] = "upgrade" /\ o = "failed")
    <3>1. DbExecIgnore(j, [row[j] EXCEPT !.steps = Attempted(j, outcome'[j])])
      BY <2>2 DEF EndDevice
    <3>2. [row[j] EXCEPT !.steps = Attempted(j, outcome'[j])] \in JobRow
      BY <1>r, RowChanges
    <3>3. row'[j] = [row[j] EXCEPT !.steps = Attempted(j, outcome'[j])]
      BY <3>1, <3>2, DbExecIgnoreRow
    <3> QED BY <3>3, <1>r, RowFields
  <2> QED BY <2>1, <2>2
<1>5. pc[j] \notin Queued /\ row[j].status \notin Unstarted /\ row[j].status \notin Done
  BY <1>1 DEF TotalJob, Untouched, Total
<1>6. pc[j] = "finish" => jobErr[j]
  BY <1>1 DEF TotalJob
<1>7. ASSUME pc[j] \in InBody PROVE Progress(j)'
  <2>1. Progress(j)
    BY <1>7 DEF TotalJob
  <2>2. Devs(j) \subseteq Slots
    BY RunnerAssumption DEF Devs, Slots
  <2>3. ASSUME NEW e \in Devs(j), e < next'[j]
        PROVE  ops'[j][e] = 1 /\ (e \in busy'[j] \/ outcome'[j][e] # "none")
    BY <2>1, <2>2, <2>3, <1>1, <1>2 DEF Progress
  <2> QED BY <2>1, <2>3, <1>1, <1>4 DEF Progress, Devs, Attempted
<1> QED BY <1>1, <1>3, <1>4, <1>5, <1>6, <1>7 DEF TotalJob

(* FinishJob reports the end of a body that has done everything, unless it *)
(* reports an error.                                                       *)
LEMMA FinishJobTotal ==
  ASSUME TypeOK, NEW j \in Jobs, pc[j] = "finish", TotalJob(j), FinalStatus(j) \in Done
  PROVE  Total(j)
<1>1. ~ jobErr[j]
  BY DoneWithoutError
<1>2. busy[j] = {} /\ next[j] = NDev[j] + 1 /\ Progress(j)
  BY <1>1 DEF TotalJob, InBody
<1>3. NDev[j] \in Nat
  BY RunnerAssumption
<1>4. \A d \in Devs(j) : d < next[j]
  BY <1>2, <1>3 DEF Devs
<1>5. \A d \in Devs(j) : ops[j][d] = 1 /\ outcome[j][d] # "none"
  BY <1>2, <1>4 DEF Progress
<1>6. row[j].steps = NDev[j]
  BY <1>1, <1>2, <1>5, AttemptedEnds DEF Progress
<1> QED BY <1>2, <1>5, <1>6 DEF Total

(* A write that was lost stays lost.                                       *)
LEMMA LossesStay ==
  ASSUME TypeOK, [Next]_vars
  PROVE  dbErrors' = 0 => dbErrors = 0
<1>1. ASSUME NEW j \in Jobs, NEW r, DbExecIgnore(j, r) PROVE dbErrors' = 0 => dbErrors = 0
  BY <1>1 DEF DbExecIgnore, TypeOK
<1>2. ASSUME NEW j \in Jobs, ExecStep(j) \/ StartJob(j) \/ PanicJob(j)
                              \/ CancelLookup(j) \/ CancelRow(j)
      PROVE  dbErrors' = 0 => dbErrors = 0
  BY <1>1, <1>2 DEF StartJob, ExecStep, AcquireSlot, RegisterJob, LoadJob, MarkRunning,
    BeginDevice, BulkDispatch, AbortBody, EndBody, FailSetup, FinishJob, StampCompleted,
    ExitJob, RecoverPanic, PanicJob, CancelLookup, CancelRow, dbVars
<1>3. ASSUME NEW j \in Jobs, OperationEnds(j) PROVE dbErrors' = 0 => dbErrors = 0
  BY <1>1, <1>3 DEF OperationEnds, EndDevice, dbVars
<1>4. ASSUME BeginShutdown \/ DrainDone \/ DrainTimeout \/ ProcessExit \/ Start
             \/ UNCHANGED vars
      PROVE  dbErrors' = 0 => dbErrors = 0
  BY <1>4 DEF BeginShutdown, DrainDone, DrainTimeout, ProcessExit, Start, vars, dbVars, TypeOK
<1> QED BY <1>2, <1>3, <1>4 DEF Next

(* TotalInv is an invariant.                                               *)
LEMMA TotalInvariant == Spec => []TotalInv
<1>1. Init => TotalInv
  BY DEF Init, TotalInv, TotalJob, Untouched, Queued, InBody, Done
<1>2. SlotInv /\ TotalInv /\ [Next]_vars => TotalInv'
  <2> SUFFICES ASSUME TypeOK, IdleInv, TotalInv, [Next]_vars PROVE TotalInv'
    BY DEF SlotInv
  <2>r. \A j \in Jobs : row[j] \in JobRow
    BY DEF TypeOK
  <2>n. dbErrors' = 0 => dbErrors = 0
    BY LossesStay
  <2>s. ASSUME UNCHANGED <<pc, next, busy, outcome, jobErr, ops, runs>>,
               \A i \in Jobs : row'[i].status = row[i].status /\ row'[i].steps = row[i].steps
        PROVE  TotalInv'
    BY <2>s, <2>n, SameJobTotal DEF TotalInv, SameJob
  <2>1. ASSUME NEW j \in Jobs, StartJob(j) PROVE TotalInv'
    <3>1. row' = [row EXCEPT ![j] = [row[j] EXCEPT !.status = "pending"]]
      BY <2>1 DEF StartJob
    <3>2. row'[j].status = "pending" /\ row'[j].steps = row[j].steps
      BY <3>1, <2>r, RowFields DEF Statuses, TypeOK
    <3>3. pc'[j] = "wait" /\ row[j].status = "absent"
          /\ UNCHANGED <<next, busy, outcome, jobErr, ops, runs>>
      BY <2>1 DEF StartJob, TypeOK, workVars, histVars
    <3>4. \A i \in Jobs \ {j} : SameJob(i)
      BY <3>1, <3>3, <2>1 DEF SameJob, StartJob, TypeOK
    <3>5. ASSUME TotalJob(j) PROVE TotalJob(j)'
      BY <3>2, <3>3, <3>5 DEF TotalJob, Untouched, Queued, InBody, Unstarted, Done
    <3> QED BY <3>4, <3>5, <2>n, OneJobTotal
  <2>2. ASSUME NEW j \in Jobs, AcquireSlot(j) \/ RegisterJob(j) \/ LoadJob(j) PROVE TotalInv'
    <3>1. /\ pc[j] \in Queued /\ pc'[j] \in Queued \cup {"exit"}
          /\ \A i \in Jobs \ {j} : pc'[i] = pc[i]
      BY <2>2 DEF AcquireSlot, RegisterJob, LoadJob, Goto, Queued, TypeOK
    <3>2. UNCHANGED <<row, next, busy, outcome, jobErr, ops, runs>>
      BY <2>2 DEF AcquireSlot, RegisterJob, LoadJob, dbVars, workVars, histVars
    <3>3. \A i \in Jobs \ {j} : SameJob(i)
      BY <3>1, <3>2 DEF SameJob
    <3>4. ASSUME TotalJob(j) PROVE TotalJob(j)'
      BY <3>1, <3>2, <3>4 DEF TotalJob, Untouched, Total, Queued, InBody
    <3> QED BY <3>3, <3>4, <2>n, OneJobTotal
  <2>3. ASSUME NEW j \in Jobs, MarkRunning(j) PROVE TotalInv'
    <3>0. [row[j] EXCEPT !.status = "running"] \in JobRow
      BY <2>r, RowChanges DEF Statuses
    <3>1. /\ dbErrors' = 0 => row'[j] = [row[j] EXCEPT !.status = "running"]
          /\ \A i \in Jobs \ {j} : row'[i] = row[i]
      BY <2>3, <3>0, DbExecIgnoreRow DEF MarkRunning
    <3>2. pc[j] = "mark" /\ pc'[j] = "run" /\ runs'[j] > 0
          /\ UNCHANGED <<next, busy, outcome, jobErr, ops>>
      BY <2>3 DEF MarkRunning, Goto, TypeOK, workVars
    <3>3. \A i \in Jobs \ {j} : SameJob(i)
      BY <3>1, <3>2, <2>3 DEF SameJob, MarkRunning, Goto, TypeOK
    <3>4. ASSUME dbErrors' = 0, TotalJob(j) PROVE TotalJob(j)'
      <4>1. row'[j].status = "running" /\ row'[j].steps = row[j].steps
        <5>1. row'[j] = [row[j] EXCEPT !.status = "running"] /\ "running" \in Statuses
          BY <3>1, <3>4 DEF Statuses
        <5> QED BY <5>1, <2>r, RowFields
      <4>2. Untouched(j) /\ NDev[j] \in Nat
        BY <3>2, <3>4, RunnerAssumption DEF TotalJob, Queued
      <4>3. Devs(j) \subseteq Slots /\ \A d \in Devs(j) : d >= 1
        BY RunnerAssumption DEF Devs, Slots
      <4>4. Attempted(j, outcome[j]) = 0
        BY <4>2, <4>3, AttemptedEnds DEF Untouched
      <4>5. next[j] \in 1..(NDev[j] + 1) /\ \A d \in Devs(j) : ~ (d < next[j])
        BY <4>2 DEF Untouched, Devs
      <4>6. Progress(j)'
        BY <4>1, <4>2, <4>4, <4>5, <3>2 DEF Progress, Untouched, Attempted, Devs
      <4> QED BY <4>1, <4>6, <3>2 DEF TotalJob, Queued, InBody, Unstarted, Done
    <3> QED BY <3>3, <3>4, <2>n, OneJobTotal
  <2>4. ASSUME NEW j \in Jobs, BeginDevice(j) \/ BulkDispatch(j) PROVE TotalInv'
    <3>1. /\ pc[j] = "run" /\ next[j] \in Devs(j) /\ StartOperation(j)
          /\ UNCHANGED <<row, pc, outcome, jobErr, runs>>
      BY <2>4 DEF BeginDevice, BulkDispatch, dbVars, execVars
    <3>2. \A i \in Jobs \ {j} : SameJob(i)
      BY <3>1 DEF SameJob, StartOperation, TypeOK
    <3> QED BY <3>1, <3>2, <2>n, StartOperationTotal, OneJobTotal
  <2>5. ASSUME NEW j \in Jobs, NEW d \in Slots, NEW o \in Outcomes \ {"none"},
               EndDevice(j, d, o)
        PROVE  TotalInv'
    <3>0. [row[j] EXCEPT !.steps = Attempted(j, outcome'[j])] \in JobRow
      BY <2>r, AttemptedType, RowChanges
    <3>1. \A i \in Jobs \ {j} : row'[i] = row[i]
      BY <2>5, <3>0, DbExecIgnoreRow DEF EndDevice, dbVars
    <3>2. \A i \in Jobs \ {j} : SameJob(i)
      <4>1. UNCHANGED <<pc, next, ops, runs>>
        BY <2>5 DEF EndDevice, execVars, histVars
      <4>2. \A i \in Jobs \ {j} : busy'[i] = busy[i] /\ outcome'[i] = outcome[i]
        BY <2>5 DEF EndDevice, TypeOK
      <4>3. \A i \in Jobs \ {j} : jobErr'[i] = jobErr[i]
        BY <2>5, Zenon DEF EndDevice, TypeOK
      <4> QED BY <4>1, <4>2, <4>3, <3>1 DEF SameJob
    <3> QED BY <3>2, <2>5, <2>n, EndDeviceTotal, OneJobTotal
  <2>6. ASSUME NEW j \in Jobs, AbortBody(j) \/ FailSetup(j) PROVE TotalInv'
    <3>1. /\ pc[j] = "run" /\ pc'[j] = "finish" /\ jobErr'[j] = TRUE
          /\ \A i \in Jobs \ {j} : pc'[i] = pc[i] /\ jobErr'[i] = jobErr[i]
          /\ UNCHANGED <<row, next, busy, outcome, ops, runs>>
      BY <2>6 DEF AbortBody, FailSetup, Goto, dbVars, histVars, TypeOK
    <3>2. \A i \in Jobs \ {j} : SameJob(i)
      BY <3>1 DEF SameJob
    <3>3. ASSUME TotalJob(j) PROVE TotalJob(j)'
      BY <3>1, <3>3 DEF TotalJob, Untouched, Progress, Total, Queued, InBody, Unstarted, Done
    <3> QED BY <3>2, <3>3, <2>n, OneJobTotal
  <2>7. ASSUME NEW j \in Jobs, EndBody(j) PROVE TotalInv'
    <3>1. /\ pc[j] = "run" /\ pc'[j] = "finish" /\ busy[j] = {}
          /\ \A i \in Jobs \ {j} : pc'[i] = pc[i]
          /\ UNCHANGED <<row, next, busy, outcome, ops, runs>>
      BY <2>7 DEF EndBody, Goto, dbVars, histVars, TypeOK
    <3>2. \A i \in Jobs \ {j} : jobErr'[i] = jobErr[i]
      BY <2>7, Zenon DEF EndBody, TypeOK
    <3>3. jobErr'[j] = (jobErr[j] \/ JobType[j] \notin KnownTypes
            \/ (JobType[j] \in {"upgrade", "fanout_upgrade"} /\ NDev[j] = 0))
      BY <2>7, Zenon DEF EndBody, TypeOK
    <3>4. ~ jobErr'[j] => ~ jobErr[j] /\ next[j] \notin Devs(j)
      BY <2>7, <3>3 DEF EndBody
    <3>5. \A i \in Jobs \ {j} : SameJob(i)
      BY <3>1, <3>2 DEF SameJob
    <3>6. ASSUME TotalJob(j) PROVE TotalJob(j)'
      <4>1. Progress(j) /\ row[j].status = "running" /\ runs[j] > 0
        BY <3>1, <3>6 DEF TotalJob, InBody
      <4>2. NDev[j] \in Nat
        BY RunnerAssumption
      <4>3. next[j] \notin Devs(j) => next[j] = NDev[j] + 1
        BY <4>1, <4>2 DEF Progress, Devs
      <4>4. Progress(j)'
        BY <4>1, <3>1, <3>4 DEF Progress, Attempted, Devs
      <4> QED BY <4>1, <4>3, <4>4, <3>1, <3>4 DEF TotalJob, Queued, InBody, Unstarted, Done
    <3> QED BY <3>5, <3>6, <2>n, OneJobTotal
  <2>8. ASSUME NEW j \in Jobs, FinishJob(j) PROVE TotalInv'
    <3>0. FinalStatus(j) \in Final /\ FinalStatus(j) \in Statuses
      BY FinalStatusType DEF Final, Statuses
    <3>1. /\ dbErrors' = 0 => row'[j] = [row[j] EXCEPT !.status = FinalStatus(j)]
          /\ \A i \in Jobs \ {j} : row'[i] = row[i]
      <4>1. [row[j] EXCEPT !.status = FinalStatus(j)] \in JobRow
        BY <3>0, <2>r, RowChanges
      <4> QED BY <4>1, <2>8, DbExecIgnoreRow DEF FinishJob
    <3>2. /\ pc[j] = "finish" /\ pc'[j] = "stamp"
          /\ \A i \in Jobs \ {j} : pc'[i] = pc[i]
          /\ UNCHANGED <<next, busy, outcome, jobErr, ops, runs>>
      BY <2>8 DEF FinishJob, Goto, TypeOK, workVars, histVars
    <3>3. \A i \in Jobs \ {j} : SameJob(i)
      BY <3>1, <3>2 DEF SameJob
    <3>4. ASSUME dbErrors' = 0, TotalJob(j) PROVE TotalJob(j)'
      <4>1. row'[j].status = FinalStatus(j) /\ row'[j].steps = row[j].steps
        <5>1. row'[j] = [row[j] EXCEPT !.status = FinalStatus(j)] /\ row[j] \in JobRow
          BY <3>1, <3>4, <2>r
        <5> QED BY <5>1, <3>0, RowFields
      <4>2. FinalStatus(j) \in Done => Total(j)
        BY <3>2, <3>4, FinishJobTotal
      <4>3. row'[j].status \in Done => Total(j)'
        BY <4>1, <4>2, <3>2 DEF Total, Devs
      <4> QED BY <4>1, <4>3, <3>0, <3>2 DEF TotalJob, Queued, InBody, Unstarted, Final
    <3> QED BY <3>3, <3>4, <2>n, OneJobTotal
  <2>9. ASSUME NEW j \in Jobs, StampCompleted(j) \/ ExitJob(j) PROVE TotalInv'
    <3>1. [row[j] EXCEPT !.stamped = TRUE] \in JobRow
          /\ [row[j] EXCEPT !.stamped = TRUE].status = row[j].status
          /\ [row[j] EXCEPT !.stamped = TRUE].steps = row[j].steps
      BY <2>r, RowChanges, RowFields
    <3>2. /\ dbErrors' = 0 => row'[j].status = row[j].status /\ row'[j].steps = row[j].steps
          /\ \A i \in Jobs \ {j} : row'[i] = row[i]
      BY <2>9, <3>1, DbExecIgnoreRow DEF StampCompleted, ExitJob, dbVars
    <3>3. /\ pc[j] \in {"stamp", "exit"} /\ pc'[j] \in {"exit", "none"}
          /\ \A i \in Jobs \ {j} : pc'[i] = pc[i]
          /\ UNCHANGED <<next, busy, outcome, jobErr, ops, runs>>
      BY <2>9 DEF StampCompleted, ExitJob, ReleaseJob, Goto, TypeOK, workVars, histVars
    <3>4. \A i \in Jobs \ {j} : SameJob(i)
      BY <3>2, <3>3 DEF SameJob
    <3>5. ASSUME dbErrors' = 0, TotalJob(j) PROVE TotalJob(j)'
      BY <3>2, <3>3, <3>5 DEF TotalJob, Untouched, Total, Queued, InBody
    <3> QED BY <3>4, <3>5, <2>n, OneJobTotal
  <2>10. ASSUME NEW j \in Jobs, PanicJob(j) PROVE TotalInv'
    <3>1. /\ pc[j] = "run" /\ pc'[j] = "panic"
          /\ \A i \in Jobs \ {j} : pc'[i] = pc[i]
          /\ UNCHANGED <<row, next, busy, outcome, jobErr, ops, runs>>
      BY <2>10 DEF PanicJob, ReleaseJob, Goto, TypeOK, dbVars, workVars, histVars
    <3>2. \A i \in Jobs \ {j} : SameJob(i)
      BY <3>1 DEF SameJob
    <3>3. ASSUME TotalJob(j) PROVE TotalJob(j)'
      BY <3>1, <3>3 DEF TotalJob, Queued, InBody, Unstarted, Done
    <3> QED BY <3>2, <3>3, <2>n, OneJobTotal
  <2>11. ASSUME NEW j \in Jobs, RecoverPanic(j) PROVE TotalInv'
    <3>1. [row[j] EXCEPT !.status = "failed", !.stamped = TRUE] \in JobRow
          /\ [row[j] EXCEPT !.status = "failed", !.stamped = TRUE].status = "failed"
      BY <2>r, RowChanges, RowFields DEF Statuses
    <3>2. /\ dbErrors' = 0 => row'[j].status = "failed"
          /\ \A i \in Jobs \ {j} : row'[i] = row[i]
      BY <2>11, <3>1, DbExecIgnoreRow DEF RecoverPanic
    <3>3. /\ pc'[j] = "none" /\ \A i \in Jobs \ {j} : pc'[i] = pc[i]
          /\ UNCHANGED <<next, busy, outcome, jobErr, ops, runs>>
      BY <2>11 DEF RecoverPanic, Goto, TypeOK, workVars, histVars
    <3>4. \A i \in Jobs \ {j} : SameJob(i)
      BY <3>2, <3>3 DEF SameJob
    <3>5. ASSUME dbErrors' = 0 PROVE TotalJob(j)'
      BY <3>2, <3>3, <3>5 DEF TotalJob, Queued, InBody, Unstarted, Done
    <3> QED BY <3>4, <3>5, <2>n, OneJobTotal
  <2>12. ASSUME NEW j \in Jobs, CancelLookup(j) PROVE TotalInv'
    BY <2>12, <2>s DEF CancelLookup, dbVars, workVars
  <2>13. ASSUME NEW j \in Jobs, CancelRow(j) PROVE TotalInv'
    <3>1. UNCHANGED <<pc, next, busy, outcome, jobErr, ops, runs>>
      BY <2>13 DEF CancelRow, execVars, workVars
    <3>2. CASE row[j].status # "pending"
      BY <2>13, <3>1, <3>2, <2>s DEF CancelRow
    <3>3. CASE row[j].status = "pending"
      <4>1. row' = [row EXCEPT ![j] = [row[j] EXCEPT !.status = "cancelled", !.stamped = TRUE]]
        BY <2>13, <3>3 DEF CancelRow, TypeOK
      <4>2. row'[j].status = "cancelled" /\ row'[j].steps = row[j].steps
        BY <4>1, <2>r, RowFields DEF Statuses, TypeOK
      <4>3. \A i \in Jobs \ {j} : SameJob(i)
        BY <4>1, <3>1 DEF SameJob, TypeOK
      <4>4. ASSUME TotalJob(j) PROVE TotalJob(j)'
        BY <4>2, <4>4, <3>1, <3>3 DEF TotalJob, Untouched, Queued, InBody, Unstarted, Done
      <4> QED BY <4>3, <4>4, <2>n, OneJobTotal
    <3> QED BY <3>2, <3>3
  <2>14. ASSUME BeginShutdown \/ DrainDone \/ DrainTimeout \/ UNCHANGED vars PROVE TotalInv'
    BY <2>14, <2>s DEF BeginShutdown, DrainDone, DrainTimeout, vars, dbVars, execVars,
       workVars, histVars
  <2>15. ASSUME ProcessExit PROVE TotalInv'
    <3> SUFFICES ASSUME dbErrors' = 0, NEW j \in Jobs PROVE TotalJob(j)'
      BY DEF TotalInv
    <3>1. TotalJob(j)
      BY <2>n DEF TotalInv
    <3>2. /\ pc'[j] = "none" /\ next'[j] = 1 /\ busy'[j] = {} /\ jobErr'[j] = FALSE
          /\ \A d \in Slots : outcome'[j][d] = "none"
          /\ UNCHANGED <<row, ops, runs>>
      BY <2>15 DEF ProcessExit, dbVars, histVars
    <3> QED BY <3>1, <3>2 DEF TotalJob, Untouched, Total, Queued, InBody
  <2>16. ASSUME Start PROVE TotalInv'
    <3> SUFFICES ASSUME dbErrors' = 0, NEW j \in Jobs PROVE TotalJob(j)'
      BY DEF TotalInv
    <3>1. TotalJob(j)
      BY <2>n DEF TotalInv
    <3>2. pc'[j] = (IF row[j].status = "pending" THEN "wait" ELSE "none")
          /\ UNCHANGED <<next, busy, outcome, jobErr, ops, runs>>
      BY <2>16 DEF Start, workVars, histVars
    <3>3. row'[j] = IF row[j].status = "running"
                    THEN [row[j] EXCEPT !.status = "failed"] ELSE row[j]
      <4>1. dbErrors' # dbErrors + 1
        BY <2>n DEF TypeOK
      <4>2. row' = [i \in Jobs |-> IF row[i].status = "running"
                                  THEN [row[i] EXCEPT !.status = "failed"] ELSE row[i]]
        BY <4>1, <2>16 DEF Start
      <4> QED BY <4>2
    <3>4. row'[j].steps = row[j].steps
          /\ row'[j].status = IF row[j].status = "running" THEN "failed" ELSE row[j].status
      <4>1. /\ [row[j] EXCEPT !.status = "failed"].steps = row[j].steps
            /\ [row[j] EXCEPT !.status = "failed"].status = "failed"
        <5>1. row[j] \in JobRow /\ "failed" \in Statuses
          BY <2>r DEF Statuses
        <5> QED BY <5>1, RowFields
      <4> QED BY <4>1, <3>3
    <3> QED BY <3>1, <3>2, <3>4 DEF TotalJob, Untouched, Total, Queued, InBody, Unstarted, Done
  <2> QED BY <2>1, <2>2, <2>3, <2>4, <2>5, <2>6, <2>7, <2>8, <2>9, <2>10, <2>11,
             <2>12, <2>13, <2>14, <2>15, <2>16, RunnerAssumption
          DEF Next, ExecStep, OperationEnds
<1> QED BY <1>1, <1>2, SlotInvariant, PTL DEF Spec

(* CompletionIsTotal for every instance: as long as no write was lost, a   *)
(* job that reports completed, skipped or rebooting has operated on every  *)
(* one of its devices, shows all of them as its progress and has nothing   *)
(* in flight (runner.go:338-417, 565-566).                                 *)
THEOREM CompletedIsComplete == Spec => []CompletionIsTotal
<1>1. TotalInv => CompletionIsTotal
  BY DEF TotalInv, TotalJob, Total, Done, CompletionIsTotal
<1> QED BY <1>1, TotalInvariant, PTL

-----------------------------------------------------------------------------
(***************************************************************************)
(* The runner implements JobLifecycle.                                     *)
(***************************************************************************)
(* What the position and the row of a job say of each other.               *)
LifeJob(j) ==
  /\ pc[j] = "mark" => row[j].status \in {"pending", "cancelled"} /\ runs[j] = 0
  /\ pc[j] \in InBody \cup {"panic"} => row[j].status = "running" /\ runs[j] > 0
  /\ row[j].status = "pending" => runs[j] = 0
  /\ row[j].status = "absent" => pc[j] = "none"
  /\ runs[j] \in Nat

(* What the refinement needs to know of a job.                             *)
LEMMA LifeFacts ==
  ASSUME SlotInv, AtMostOnceInv, TotalInv, dbErrors = 0, NEW j \in Jobs
  PROVE  LifeJob(j)
<1>1. OnceJob(j) /\ TotalJob(j) /\ runs[j] \in Nat
  BY DEF AtMostOnceInv, TotalInv, SlotInv, TypeOK
<1>2. row[j].status = "absent" => pc[j] = "none"
  BY DEF SlotInv, IdleInv
<1> QED BY <1>1, <1>2 DEF LifeJob, OnceJob, TotalJob, Queued, Unstarted

(* The body of a job, by the position of its executor.                     *)
LEMMA BodyAt ==
  ASSUME NEW j \in Jobs
  PROVE  /\ pc[j] = "mark" => BodyOf[j] = "loaded"
         /\ pc[j] \in InBody => BodyOf[j] = "active"
         /\ pc[j] \notin InBody \cup {"mark"} =>
              BodyOf[j] = IF runs[j] = 0 THEN "none" ELSE "over"
         /\ pc'[j] = "mark" => BodyOf'[j] = "loaded"
         /\ pc'[j] \in InBody => BodyOf'[j] = "active"
         /\ pc'[j] \notin InBody \cup {"mark"} =>
              BodyOf'[j] = IF runs'[j] = 0 THEN "none" ELSE "over"
BY DEF BodyOf, InBody

(* The executor of i stays where it is, or where it counts as the same.    *)
SamePlace(i) ==
  \/ pc'[i] = pc[i]
  \/ pc[i] \in InBody /\ pc'[i] \in InBody
  \/ pc[i] \notin InBody \cup {"mark"} /\ pc'[i] \notin InBody \cup {"mark"}

LifeSame == StatusOf' = StatusOf /\ BodyOf' = BodyOf

(* A step that changes no status, no count of runs and no place that       *)
(* matters is a stutter of the lifecycle.                                  *)
LEMMA LifeStutter ==
  ASSUME \A i \in Jobs : row'[i].status = row[i].status,
         \A i \in Jobs : SamePlace(i),
         runs' = runs
  PROVE  LifeSame
<1>1. StatusOf' = StatusOf
  BY DEF StatusOf
<1>2. \A i \in Jobs : BodyOf'[i] = BodyOf[i]
  BY BodyAt DEF InBody, SamePlace
<1>3. BodyOf' = BodyOf
  BY <1>2 DEF BodyOf
<1> QED BY <1>1, <1>3 DEF LifeSame

(* A step of job j changes both maps at j at most.                         *)
LEMMA LifeOneJob ==
  ASSUME NEW j \in Jobs, NEW s, row'[j].status = s,
         \A i \in Jobs \ {j} : /\ row'[i].status = row[i].status
                              /\ pc'[i] = pc[i] /\ runs'[i] = runs[i]
  PROVE  /\ StatusOf' = [StatusOf EXCEPT ![j] = s]
         /\ BodyOf' = [BodyOf EXCEPT ![j] = BodyOf'[j]]
         /\ \A i \in Jobs \ {j} : BodyOf'[i] = BodyOf[i]
<1>1. StatusOf' = [StatusOf EXCEPT ![j] = s]
  BY DEF StatusOf
<1>2. \A i \in Jobs \ {j} : BodyOf'[i] = BodyOf[i]
  BY DEF BodyOf
<1>3. BodyOf = [i \in Jobs |-> BodyOf[i]] /\ BodyOf' = [i \in Jobs |-> BodyOf'[i]]
  BY DEF BodyOf
<1>4. BodyOf' = [BodyOf EXCEPT ![j] = BodyOf'[j]]
  BY <1>2, <1>3
<1> QED BY <1>1, <1>2, <1>4

(* A step of the runner while no write is lost is a step of the lifecycle  *)
(* or leaves the status and the body of every job alone.                   *)
LEMMA LifeStep ==
  ASSUME SlotInv, SlotInv', AtMostOnceInv, AtMostOnceInv', TotalInv, TotalInv',
         dbErrors = 0, dbErrors' = 0, [Next]_vars
  PROVE  Lifecycle!Next \/ LifeSame
<1>t. TypeOK /\ TypeOK' /\ IdleInv
  BY DEF SlotInv
<1>l. \A j \in Jobs : LifeJob(j)
  BY LifeFacts
<1>r. \A j \in Jobs : row[j] \in JobRow
  BY <1>t DEF TypeOK
<1>b. \A j \in Jobs : StatusOf[j] = row[j].status
  BY DEF StatusOf
<1>1. ASSUME NEW j \in Jobs, StartJob(j) PROVE Lifecycle!Next
  <2>1. row' = [row EXCEPT ![j] = [row[j] EXCEPT !.status = "pending"]]
    BY <1>1 DEF StartJob
  <2>2. row'[j].status = "pending" /\ \A i \in Jobs \ {j} : row'[i] = row[i]
    BY <2>1, <1>t, <1>r, RowFields DEF Statuses, TypeOK
  <2>3. /\ row[j].status = "absent" /\ pc[j] = "none" /\ pc'[j] = "wait" /\ runs' = runs
        /\ \A i \in Jobs \ {j} : pc'[i] = pc[i]
    BY <1>1, <1>t, <1>l DEF StartJob, LifeJob, TypeOK, histVars
  <2>4. StatusOf' = [StatusOf EXCEPT ![j] = "pending"]
        /\ \A i \in Jobs \ {j} : BodyOf'[i] = BodyOf[i]
    BY <2>2, <2>3, LifeOneJob
  <2>5. BodyOf'[j] = BodyOf[j]
    BY <2>3, BodyAt DEF InBody
  <2>6. BodyOf' = BodyOf
    BY <2>4, <2>5 DEF BodyOf
  <2>7. Lifecycle!Create(j)
    BY <2>3, <2>4, <2>6, <1>b DEF Lifecycle!Create
  <2> QED BY <2>7 DEF Lifecycle!Next
<1>2. ASSUME NEW j \in Jobs, LoadJob(j) PROVE Lifecycle!Next \/ LifeSame
  <2>1. /\ row' = row /\ runs' = runs /\ pc[j] = "load"
        /\ \A i \in Jobs \ {j} : pc'[i] = pc[i]
        /\ pc'[j] = "exit" \/ (pc'[j] = "mark" /\ row[j].status = "pending")
    BY <1>2, <1>t DEF LoadJob, dbVars, histVars, TypeOK
  <2>2. CASE pc'[j] = "exit"
    <3>1. \A i \in Jobs : SamePlace(i)
      BY <2>1, <2>2 DEF SamePlace, InBody
    <3> QED BY <2>1, <3>1, LifeStutter
  <2>3. CASE pc'[j] = "mark" /\ row[j].status = "pending"
    <3>1. BodyOf[j] = "none" /\ BodyOf'[j] = "loaded"
      BY <2>1, <2>3, <1>l, BodyAt DEF LifeJob, InBody
    <3>2. BodyOf' = [BodyOf EXCEPT ![j] = "loaded"]
      BY <2>1, <3>1, LifeOneJob
    <3>3. StatusOf' = StatusOf
      BY <2>1 DEF StatusOf
    <3>4. Lifecycle!Load(j)
      BY <2>3, <3>1, <3>2, <3>3, <1>b DEF Lifecycle!Load
    <3> QED BY <3>4 DEF Lifecycle!Next
  <2> QED BY <2>1, <2>2, <2>3
<1>3. ASSUME NEW j \in Jobs, MarkRunning(j) PROVE Lifecycle!Next
  <2>0. "running" \in Statuses /\ [row[j] EXCEPT !.status = "running"] \in JobRow
    BY <1>r, RowChanges DEF Statuses
  <2>1. /\ row'[j] = [row[j] EXCEPT !.status = "running"]
        /\ \A i \in Jobs \ {j} : row'[i] = row[i]
    BY <1>3, <1>t, <2>0, DbExecIgnoreRow DEF MarkRunning
  <2>2. row'[j].status = "running"
    BY <2>0, <2>1, <1>r, RowFields
  <2>3. /\ pc[j] = "mark" /\ pc'[j] = "run"
        /\ \A i \in Jobs \ {j} : pc'[i] = pc[i] /\ runs'[i] = runs[i]
    BY <1>3, <1>t DEF MarkRunning, Goto, TypeOK
  <2>4. BodyOf[j] = "loaded" /\ BodyOf'[j] = "active"
    BY <2>3, BodyAt DEF InBody
  <2>5. /\ StatusOf' = [StatusOf EXCEPT ![j] = "running"]
        /\ BodyOf' = [BodyOf EXCEPT ![j] = "active"]
    BY <2>1, <2>2, <2>3, <2>4, LifeOneJob
  <2>6. row[j].status \in {"pending", "cancelled"}
    BY <2>3, <1>l DEF LifeJob
  <2>7. Lifecycle!Run(j)
    BY <2>4, <2>5, <2>6, <1>b DEF Lifecycle!Run
  <2> QED BY <2>7 DEF Lifecycle!Next
<1>4. ASSUME NEW j \in Jobs, NEW d \in Slots, NEW o \in Outcomes, EndDevice(j, d, o)
      PROVE  LifeSame
  <2>0. [row[j] EXCEPT !.steps = Attempted(j, outcome'[j])] \in JobRow
        /\ [row[j] EXCEPT !.steps = Attempted(j, outcome'[j])].status = row[j].status
    BY <1>r, AttemptedType, RowChanges, RowFields
  <2>1. \A i \in Jobs : row'[i].status = row[i].status
    BY <1>4, <1>t, <2>0, DbExecIgnoreRow DEF EndDevice, dbVars
  <2>2. UNCHANGED <<pc, runs>>
    BY <1>4 DEF EndDevice, execVars, histVars
  <2> QED BY <2>1, <2>2, LifeStutter DEF SamePlace
<1>5. ASSUME NEW j \in Jobs, FinishJob(j) PROVE Lifecycle!Next
  <2>0. FinalStatus(j) \in Final /\ FinalStatus(j) \in Statuses
    BY FinalStatusType DEF Final, Statuses
  <2>1. [row[j] EXCEPT !.status = FinalStatus(j)] \in JobRow
        /\ [row[j] EXCEPT !.status = FinalStatus(j)].status = FinalStatus(j)
    BY <1>r, <2>0, RowChanges, RowFields
  <2>2. row'[j].status = FinalStatus(j) /\ \A i \in Jobs \ {j} : row'[i] = row[i]
    BY <1>5, <1>t, <2>1, DbExecIgnoreRow DEF FinishJob
  <2>3. /\ pc[j] = "finish" /\ pc'[j] = "stamp" /\ runs' = runs
        /\ \A i \in Jobs \ {j} : pc'[i] = pc[i]
    BY <1>5, <1>t DEF FinishJob, Goto, TypeOK, histVars
  <2>4. row[j].status = "running" /\ runs[j] # 0
    BY <2>3, <1>l DEF LifeJob, InBody
  <2>5. BodyOf[j] = "active" /\ BodyOf'[j] = "over"
    BY <2>3, <2>4, BodyAt DEF InBody
  <2>6. /\ StatusOf' = [StatusOf EXCEPT ![j] = FinalStatus(j)]
        /\ BodyOf' = [BodyOf EXCEPT ![j] = "over"]
    BY <2>2, <2>3, <2>5, LifeOneJob
  <2>7. Lifecycle!Finish(j)
    BY <2>0, <2>4, <2>5, <2>6, <1>b DEF Lifecycle!Finish, Lifecycle!Ended, Final
  <2> QED BY <2>7 DEF Lifecycle!Next
<1>6. ASSUME NEW j \in Jobs, PanicJob(j) PROVE Lifecycle!Next
  <2>1. /\ pc[j] = "run" /\ pc'[j] = "panic" /\ UNCHANGED <<row, runs>>
        /\ \A i \in Jobs \ {j} : pc'[i] = pc[i]
    BY <1>6, <1>t DEF PanicJob, ReleaseJob, Goto, TypeOK, dbVars, histVars
  <2>2. runs[j] # 0
    BY <2>1, <1>l DEF LifeJob, InBody
  <2>3. BodyOf[j] = "active" /\ BodyOf'[j] = "over"
    BY <2>1, <2>2, BodyAt DEF InBody
  <2>4. BodyOf' = [BodyOf EXCEPT ![j] = "over"] /\ StatusOf' = StatusOf
    BY <2>1, <2>3, LifeOneJob DEF StatusOf
  <2>5. Lifecycle!CutOff(j)
    BY <2>3, <2>4 DEF Lifecycle!CutOff
  <2> QED BY <2>5 DEF Lifecycle!Next
<1>7. ASSUME NEW j \in Jobs, RecoverPanic(j) PROVE Lifecycle!Next
  <2>1. [row[j] EXCEPT !.status = "failed", !.stamped = TRUE] \in JobRow
        /\ [row[j] EXCEPT !.status = "failed", !.stamped = TRUE].status = "failed"
    BY <1>r, RowChanges, RowFields DEF Statuses
  <2>2. row'[j].status = "failed" /\ \A i \in Jobs \ {j} : row'[i] = row[i]
    BY <1>7, <1>t, <2>1, DbExecIgnoreRow DEF RecoverPanic
  <2>3. /\ pc[j] = "panic" /\ pc'[j] = "none" /\ runs' = runs
        /\ \A i \in Jobs \ {j} : pc'[i] = pc[i]
    BY <1>7, <1>t DEF RecoverPanic, Goto, TypeOK, histVars
  <2>4. row[j].status = "running" /\ runs[j] # 0
    BY <2>3, <1>l DEF LifeJob
  <2>5. BodyOf[j] = "over" /\ BodyOf'[j] = "over"
    BY <2>3, <2>4, BodyAt DEF InBody
  <2>6. /\ StatusOf' = [StatusOf EXCEPT ![j] = "failed"]
        /\ \A i \in Jobs \ {j} : BodyOf'[i] = BodyOf[i]
    BY <2>2, <2>3, LifeOneJob
  <2>7. BodyOf' = BodyOf
    BY <2>5, <2>6 DEF BodyOf
  <2>8. Lifecycle!Fail(j)
    BY <2>4, <2>5, <2>6, <2>7, <1>b DEF Lifecycle!Fail
  <2> QED BY <2>8 DEF Lifecycle!Next
<1>8. ASSUME NEW j \in Jobs,
             AcquireSlot(j) \/ RegisterJob(j) \/ BeginDevice(j) \/ BulkDispatch(j)
               \/ AbortBody(j) \/ EndBody(j) \/ FailSetup(j) \/ ExitJob(j) \/ CancelLookup(j)
      PROVE  LifeSame
  <2>1. UNCHANGED <<row, runs>>
    BY <1>8 DEF AcquireSlot, RegisterJob, BeginDevice, BulkDispatch, AbortBody, EndBody,
      FailSetup, ExitJob, CancelLookup, dbVars, histVars
  <2>2. \/ pc' = pc
        \/ pc[j] = "wait" /\ pc' = [pc EXCEPT ![j] = "slot"]
        \/ pc[j] = "slot" /\ pc' = [pc EXCEPT ![j] = "load"]
        \/ pc[j] = "run" /\ pc' = [pc EXCEPT ![j] = "finish"]
        \/ pc[j] = "exit" /\ pc' = [pc EXCEPT ![j] = "none"]
    BY <1>8 DEF AcquireSlot, RegisterJob, BeginDevice, BulkDispatch, AbortBody, EndBody,
      FailSetup, ExitJob, ReleaseJob, CancelLookup, Goto, execVars
  <2>3. \A i \in Jobs : SamePlace(i)
    BY <2>2, <1>t DEF SamePlace, InBody, TypeOK
  <2> QED BY <2>1, <2>3, LifeStutter
<1>9. ASSUME NEW j \in Jobs, StampCompleted(j) PROVE LifeSame
  <2>1. [row[j] EXCEPT !.stamped = TRUE] \in JobRow
        /\ [row[j] EXCEPT !.stamped = TRUE].status = row[j].status
    BY <1>r, RowChanges, RowFields
  <2>2. \A i \in Jobs : row'[i].status = row[i].status
    BY <1>9, <1>t, <2>1, DbExecIgnoreRow DEF StampCompleted
  <2>3. \A i \in Jobs : pc'[i] = pc[i] \/ (pc[i] = "stamp" /\ pc'[i] = "exit")
    BY <1>9, <1>t DEF StampCompleted, Goto, TypeOK
  <2>4. runs' = runs
    BY <1>9 DEF StampCompleted, histVars
  <2>5. \A i \in Jobs : SamePlace(i)
    BY <2>3 DEF SamePlace, InBody
  <2> QED BY <2>2, <2>4, <2>5, LifeStutter
<1>10. ASSUME NEW j \in Jobs, CancelRow(j)
       PROVE  Lifecycle!Next \/ LifeSame
  <2>1. UNCHANGED <<pc, runs>>
    BY <1>10 DEF CancelRow, execVars
  <2>2. CASE row[j].status # "pending"
    BY <1>10, <2>1, <2>2, LifeStutter DEF CancelRow, SamePlace
  <2>3. CASE row[j].status = "pending"
    <3>1. row' = [row EXCEPT ![j] = [row[j] EXCEPT !.status = "cancelled", !.stamped = TRUE]]
      <4>1. row' = [row EXCEPT ![j].status = "cancelled", ![j].stamped = TRUE]
        BY <1>10, <2>3 DEF CancelRow
      <4> QED BY <4>1, <1>t DEF TypeOK
    <3>2. row'[j].status = "cancelled" /\ \A i \in Jobs \ {j} : row'[i] = row[i]
      BY <3>1, <1>t, <1>r, RowFields DEF Statuses, TypeOK
    <3>3. StatusOf' = [StatusOf EXCEPT ![j] = "cancelled"]
      BY <3>2, <2>1, LifeOneJob
    <3>4. BodyOf' = BodyOf
      BY <2>1 DEF BodyOf
    <3>5. Lifecycle!Cancel(j)
      BY <2>3, <3>3, <3>4, <1>b DEF Lifecycle!Cancel
    <3> QED BY <3>5 DEF Lifecycle!Next
  <2> QED BY <2>2, <2>3
<1>11. ASSUME BeginShutdown \/ DrainDone \/ DrainTimeout \/ UNCHANGED vars
       PROVE  LifeSame
  <2>1. UNCHANGED <<row, pc, runs>>
    BY <1>11 DEF BeginShutdown, DrainDone, DrainTimeout, vars, dbVars, execVars, histVars
  <2> QED BY <2>1, LifeStutter DEF SamePlace
<1>12. ASSUME ProcessExit PROVE Lifecycle!Next
  <2>1. UNCHANGED <<row, runs>> /\ \A i \in Jobs : pc'[i] = "none"
    BY <1>12 DEF ProcessExit, dbVars, histVars
  <2>2. \A i \in Jobs : BodyOf'[i] = CASE BodyOf[i] = "loaded" -> "none"
                                       [] BodyOf[i] = "active" -> "over"
                                       [] OTHER -> BodyOf[i]
    <3> SUFFICES ASSUME NEW i \in Jobs
                 PROVE  BodyOf'[i] = CASE BodyOf[i] = "loaded" -> "none"
                                       [] BodyOf[i] = "active" -> "over"
                                       [] OTHER -> BodyOf[i]
      OBVIOUS
    <3>1. BodyOf'[i] = IF runs[i] = 0 THEN "none" ELSE "over"
      BY <2>1, BodyAt DEF InBody
    <3>2. CASE pc[i] = "mark"
      BY <3>1, <3>2, <1>l, BodyAt DEF LifeJob
    <3>3. CASE pc[i] \in InBody
      BY <3>1, <3>3, <1>l, BodyAt DEF LifeJob
    <3>4. CASE pc[i] \notin InBody \cup {"mark"}
      BY <3>1, <3>4, BodyAt
    <3> QED BY <3>2, <3>3, <3>4
  <2>3. BodyOf' = [i \in Jobs |-> BodyOf'[i]] /\ StatusOf' = StatusOf
    BY <2>1 DEF BodyOf, StatusOf
  <2>4. Lifecycle!Crash
    BY <2>2, <2>3 DEF Lifecycle!Crash
  <2> QED BY <2>4 DEF Lifecycle!Next
<1>13. ASSUME Start PROVE Lifecycle!Next
  <2>1. \A i \in Jobs : pc[i] = "none" /\ pc'[i] \in {"wait", "none"} /\ runs'[i] = runs[i]
    BY <1>13, <1>t DEF Start, IdleInv, histVars
  <2>2. dbErrors' # dbErrors + 1
    OBVIOUS
  <2>3. row' = [i \in Jobs |-> IF row[i].status = "running"
                              THEN [row[i] EXCEPT !.status = "failed"] ELSE row[i]]
    BY <2>2, <1>13 DEF Start
  <2>4. ASSUME NEW i \in Jobs
        PROVE  row'[i].status = IF row[i].status = "running" THEN "failed" ELSE row[i].status
    <3>1. [row[i] EXCEPT !.status = "failed"].status = "failed"
      <4>1. row[i] \in JobRow /\ "failed" \in Statuses
        BY <1>r DEF Statuses
      <4> QED BY <4>1, RowFields
    <3> QED BY <2>3, <3>1
  <2>5. StatusOf' = [i \in Jobs |-> IF StatusOf[i] = "running" THEN "failed" ELSE StatusOf[i]]
    BY <2>4 DEF StatusOf
  <2>6. \A i \in Jobs : BodyOf[i] \in {"none", "over"} /\ BodyOf'[i] = BodyOf[i]
    BY <2>1, BodyAt DEF InBody
  <2>7. BodyOf' = BodyOf
    BY <2>6 DEF BodyOf
  <2>8. Lifecycle!Recover
    BY <2>5, <2>6, <2>7 DEF Lifecycle!Recover
  <2> QED BY <2>8 DEF Lifecycle!Next
<1> QED BY <1>1, <1>2, <1>3, <1>4, <1>5, <1>6, <1>7, <1>8, <1>9, <1>10, <1>11,
           <1>12, <1>13, RunnerAssumption
        DEF Next, ExecStep, OperationEnds

(* The refinement, for every instance: until a write is lost every         *)
(* behaviour of the runner is one of JobLifecycle (runner.go:249-429).     *)
THEOREM RunnerImplementsLifecycle == Spec => ImplementsLifecycle
<1>1. Init => Lifecycle!Init
  <2> SUFFICES ASSUME Init PROVE Lifecycle!Init
    OBVIOUS
  <2>1. StatusOf = [j \in Jobs |-> "absent"]
    BY DEF Init, StatusOf
  <2>2. \A j \in Jobs : BodyOf[j] = "none"
    BY BodyAt DEF Init, InBody
  <2>3. BodyOf = [j \in Jobs |-> "none"]
    BY <2>2 DEF BodyOf
  <2> QED BY <2>1, <2>3 DEF Lifecycle!Init
<1>2. /\ SlotInv /\ AtMostOnceInv /\ TotalInv
      /\ SlotInv' /\ AtMostOnceInv' /\ TotalInv' /\ [Next]_vars
      => [Lifecycle!Next \/ (dbErrors > 0)']_<<StatusOf, BodyOf>>
  <2> SUFFICES ASSUME SlotInv, AtMostOnceInv, TotalInv, SlotInv', AtMostOnceInv', TotalInv',
                      [Next]_vars
               PROVE  \/ Lifecycle!Next \/ (dbErrors > 0)'
                      \/ UNCHANGED <<StatusOf, BodyOf>>
    OBVIOUS
  <2>1. dbErrors \in Nat /\ dbErrors' \in Nat
    BY DEF SlotInv, TypeOK
  <2>2. CASE dbErrors' # 0
    BY <2>1, <2>2
  <2>3. CASE dbErrors' = 0
    <3>1. dbErrors = 0
      BY <2>3, LossesStay DEF SlotInv
    <3> QED BY <2>3, <3>1, LifeStep DEF LifeSame
  <2> QED BY <2>2, <2>3
<1> QED BY <1>1, <1>2, SlotInvariant, OnceInvariant, TotalInvariant, PTL
        DEF Spec, ImplementsLifecycle, Lifecycle!Spec, Lifecycle!absVars

=============================================================================
