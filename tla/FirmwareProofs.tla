--------------------------- MODULE FirmwareProofs ---------------------------
(***************************************************************************)
(* Proofs about upgrades, changes of password and the bulk controller, for *)
(* any radios, requests, orders and jobs and any number of losses: the     *)
(* credential that is stored for a radio is one it accepts, an access      *)
(* point waits for its stations, and the semaphores keep their limits; and *)
(* about the directory of files: the file a request gets is the one meant. *)
(*                                                                         *)
(* AccessKept alone is not inductive.  Between the step in which a request *)
(* learns or changes what a radio accepts and the step in which it stores  *)
(* that, others run; the invariant says what such a request knows of the   *)
(* radio at each place, and that no second one that stores is on it (or    *)
(* the radio is among those nothing is claimed for).                       *)
(***************************************************************************)
EXTENDS MCFirmware, FiniteSetTheorems, SequenceTheorems, NaturalsInduction, WellFoundedInduction, TLAPS

UpgradeSpec == (\E old, owned : UpgradeInit(old, owned)) /\ [][UpgradeNext]_fwVars

(* The fields of the records; what they hold is typed only where a claim   *)
(* depends on it.                                                          *)
TaskFields == {"pc", "file", "pair", "res"}
RadioFields == {"runs", "image", "holds", "accepts"}
RowFields == {"firmware", "own"}

Fields ==
    /\ DOMAIN task = Requests
    /\ \A r \in Requests : DOMAIN task[r] = Radios /\ \A d \in Radios : DOMAIN task[r][d] = TaskFields
    /\ DOMAIN jobRow = Requests /\ \A r \in Requests : DOMAIN jobRow[r] = Radios
    /\ DOMAIN order = Requests /\ DOMAIN batches = Requests
    /\ DOMAIN radio = Radios /\ \A d \in Radios : DOMAIN radio[d] = RadioFields
    /\ DOMAIN row = Radios /\ \A d \in Radios : DOMAIN row[d] = RowFields
    /\ \A d \in Radios : radio[d].accepts \in {"p1", NewPair}

(* What the program would log in with.                                     *)
Used(d) == IF row[d].own # NoPair THEN row[d].own ELSE "p1"

(* A request that may still store a credential of a radio.                 *)
MayStore(r, d) == Stores(order[r]) /\ d \in order[r].ids /\ (Active(r, d) \/ batches[r] # <<>>)

(* A retry that has logged in, and goes on to store what was typed.        *)
LoggedIn(r, d) ==
    /\ order[r].kind = "retry"
    /\ \/ task[r][d].pc \in {"upload", "wait", "act", "store"}
       \/ task[r][d].pc = "record" /\ task[r][d].res = "success"

Ordered(r) ==
    /\ order[r] = NoOrder => batches[r] = <<>> /\ \A d \in Radios : task[r][d].pc = "none"
    /\ Stores(order[r]) => /\ batches[r] \in {<<>>, <<order[r].ids>>}
                           /\ \A d \in Radios : Active(r, d) => d \in order[r].ids
    /\ \A d \in Radios : /\ task[r][d].pc \in {"patch", "persist"} => order[r].kind = "config"
                         /\ task[r][d].pc = "store" => order[r].kind = "retry"

Access(d) ==
    /\ \A q, r \in Requests : MayStore(q, d) /\ MayStore(r, d) => q = r
    /\ (\A r \in Requests : task[r][d].pc # "persist") => radio[d].accepts = Used(d)
    /\ \A r \in Requests : task[r][d].pc = "persist" => radio[d].accepts = NewPair
    /\ \A r \in Requests : LoggedIn(r, d) => radio[d].accepts = order[r].typed

FwInv ==
    /\ Fields
    /\ \A r \in Requests : Ordered(r)
    /\ \A d \in Radios \ troubled : Access(d)

-----------------------------------------------------------------------------
(* No request has begun, and all radios accept what is used.               *)
LEMMA FwStarts == ASSUME NEW old, NEW owned, UpgradeInit(old, owned) PROVE FwInv
<1>1. Fields
  BY DEF UpgradeInit, Fields, TaskFields, RadioFields, RowFields, NoTask
<1>2. \A r \in Requests : order[r] = NoOrder /\ batches[r] = <<>> /\ \A d \in Radios : task[r][d].pc = "none"
  BY DEF UpgradeInit, NoTask
<1>3. \A r \in Requests : order[r].kind = "none"
  BY <1>2 DEF NoOrder
<1>4. \A r \in Requests : Ordered(r)
  BY <1>2, <1>3 DEF Ordered, Stores
<1>5. \A d \in Radios : radio[d].accepts = Used(d)
  BY DEF UpgradeInit, Used, NoPair
<1>6. \A d \in Radios : Access(d)
  BY <1>2, <1>3, <1>5 DEF Access, MayStore, LoggedIn, Stores
<1> QED BY <1>1, <1>4, <1>6 DEF FwInv

(* A step of one task leaves the others alone.                             *)
OthersKept(r, d) ==
    /\ DOMAIN task' = Requests
    /\ \A q \in Requests : DOMAIN task'[q] = Radios /\ \A e \in Radios : DOMAIN task'[q][e] = TaskFields
    /\ \A q \in Requests, e \in Radios : q # r \/ e # d => task'[q][e] = task[q][e]

(* One task is replaced.                                                   *)
LEMMA TaskReplaced ==
    ASSUME Fields, NEW r \in Requests, NEW d \in Radios, NEW t, DOMAIN t = TaskFields,
           task' = [task EXCEPT ![r] = [task[r] EXCEPT ![d] = t]]
    PROVE  OthersKept(r, d) /\ task'[r][d] = t
BY DEF Fields, OthersKept

(* Goto is a step of one task.                                             *)
LEMMA GotoMoves ==
    ASSUME Fields, NEW r \in Requests, NEW d \in Radios, NEW pc, Goto(r, d, pc)
    PROVE  OthersKept(r, d) /\ task'[r][d].pc = pc /\ task'[r][d].res = task[r][d].res
<1> DEFINE t == [task[r][d] EXCEPT !.pc = pc]
<1>1. DOMAIN t = TaskFields /\ t.pc = pc /\ t.res = task[r][d].res
  BY DEF Fields, TaskFields
<1>2. task' = [task EXCEPT ![r] = [task[r] EXCEPT ![d] = t]]
  BY DEF Goto, Fields
<1> HIDE DEF t
<1> QED BY <1>1, <1>2, TaskReplaced

(* Ends is a step of one task.                                             *)
LEMMA EndsMoves ==
    ASSUME Fields, NEW r \in Requests, NEW d \in Radios, NEW res, Ends(r, d, res)
    PROVE  OthersKept(r, d) /\ task'[r][d].pc \in {"record", "done"} /\ task'[r][d].res = res
<1> DEFINE pc == IF jobRow[r][d] = "uploading" THEN "record" ELSE "done"
           t == [task[r][d] EXCEPT !.res = res, !.pc = pc]
<1>1. DOMAIN t = TaskFields /\ t.pc = pc /\ t.res = res
  BY DEF Fields, TaskFields
<1>2. task' = [task EXCEPT ![r] = [task[r] EXCEPT ![d] = t]]
  BY DEF Ends, Fields
<1>3. pc \in {"record", "done"}
  OBVIOUS
<1> HIDE DEF t, pc
<1>4. OthersKept(r, d) /\ task'[r][d] = t
  BY <1>1, <1>2, TaskReplaced
<1> QED BY <1>1, <1>3, <1>4

(* So is the choice of a file and a credential.                            *)
Prepared(r, d, f, p) ==
    task' = [task EXCEPT ![r][d] = [@ EXCEPT !.pc = "login", !.file = f, !.pair = p]]

(* It moves the task to the login.                                         *)
LEMMA PreparedMoves ==
    ASSUME Fields, NEW r \in Requests, NEW d \in Radios, NEW f, NEW p, Prepared(r, d, f, p)
    PROVE  OthersKept(r, d) /\ task'[r][d].pc = "login"
<1> DEFINE t == [task[r][d] EXCEPT !.pc = "login", !.file = f, !.pair = p]
<1>1. DOMAIN t = TaskFields /\ t.pc = "login"
  BY DEF Fields, TaskFields
<1>2. task' = [task EXCEPT ![r] = [task[r] EXCEPT ![d] = t]]
  BY DEF Fields, Prepared
<1> HIDE DEF t
<1>3. OthersKept(r, d) /\ task'[r][d] = t
  BY <1>1, <1>2, TaskReplaced
<1> QED BY <1>1, <1>3

(* What radios accept, and what is stored for them, is as before.          *)
RadiosKept ==
    /\ DOMAIN radio' = Radios /\ \A e \in Radios : DOMAIN radio'[e] = RadioFields /\ radio'[e].accepts = radio[e].accepts
RowsKept ==
    /\ DOMAIN row' = Radios /\ \A e \in Radios : DOMAIN row'[e] = RowFields /\ row'[e].own = row[e].own

(* A step of a task that touches no credential.                            *)
LEMMA TaskStepKeeps ==
    ASSUME FwInv, NEW r \in Requests, NEW d \in Radios, OthersKept(r, d), RadiosKept, RowsKept,
           UNCHANGED <<order, batches>>, DOMAIN jobRow' = Requests, \A q \in Requests : DOMAIN jobRow'[q] = Radios,
           troubled \subseteq troubled', Active(r, d),
           task'[r][d].pc \notin {"none", "persist"},
           task[r][d].pc = "persist" => d \in troubled',
           task'[r][d].pc = "patch" => order[r].kind = "config",
           task'[r][d].pc = "store" => order[r].kind = "retry",
           LoggedIn(r, d)' /\ d \notin troubled' => radio[d].accepts = order[r].typed
    PROVE  FwInv'
<1>1. Fields'
  BY DEF FwInv, Fields, OthersKept, RadiosKept, RowsKept
<1>2. ASSUME NEW q \in Requests PROVE Ordered(q)'
  <2>1. Ordered(q)
    BY DEF FwInv
  <2>2. \A e \in Radios : Active(q, e)' => Active(q, e)
    BY DEF Active, OthersKept
  <2>3. order[q] = NoOrder => q # r
    BY <2>1 DEF Ordered, Active
  <2> QED BY <2>1, <2>2, <2>3 DEF Ordered, OthersKept
<1>3. ASSUME NEW e \in Radios \ troubled' PROVE Access(e)'
  <2>1. Access(e)
    BY DEF FwInv
  <2>2. \A q \in Requests : MayStore(q, e)' => MayStore(q, e)
    BY DEF MayStore, Active, OthersKept
  <2>3. radio'[e].accepts = radio[e].accepts /\ Used(e)' = Used(e)
    BY DEF RadiosKept, RowsKept, Used
  <2>4. \A q \in Requests : task'[q][e].pc = "persist" <=> task[q][e].pc = "persist"
    BY DEF OthersKept
  <2>5. \A q \in Requests : LoggedIn(q, e)' => LoggedIn(q, e) \/ (q = r /\ e = d)
    BY DEF LoggedIn, OthersKept
  <2> QED BY <2>1, <2>2, <2>3, <2>4, <2>5 DEF Access
<1> QED BY <1>1, <1>2, <1>3 DEF FwInv

(* One radio changes, and accepts what it did.                             *)
LEMMA RadioReplaced ==
    ASSUME Fields, NEW d \in Radios, NEW t, DOMAIN t = RadioFields, t.accepts = radio[d].accepts,
           radio' = [radio EXCEPT ![d] = t]
    PROVE  RadiosKept
BY DEF Fields, RadiosKept

(* No radio changes.                                                       *)
LEMMA RadioUntouched == Fields /\ UNCHANGED radio => RadiosKept
BY DEF Fields, RadiosKept

(* No row changes.                                                         *)
LEMMA RowUntouched == Fields /\ UNCHANGED row => RowsKept
BY DEF Fields, RowsKept

(* A restart changes no credential.                                        *)
LEMMA RadioRestarts ==
    ASSUME Fields, NEW d \in Radios, NEW flash, radio' = [radio EXCEPT ![d] = Restarted(d, flash)]
    PROVE  RadiosKept
<1>1. DOMAIN Restarted(d, flash) = RadioFields /\ Restarted(d, flash).accepts = radio[d].accepts
  BY DEF Fields, Restarted, RadioFields
<1> QED BY <1>1, RadioReplaced

(* An upload changes no credential.                                        *)
LEMMA RadioTakesImage ==
    ASSUME Fields, NEW d \in Radios, NEW x, NEW y, radio' = [radio EXCEPT ![d].image = x, ![d].holds = y]
    PROVE  RadiosKept
<1> DEFINE t == [radio[d] EXCEPT !.image = x, !.holds = y]
<1>1. DOMAIN t = RadioFields /\ t.accepts = radio[d].accepts
  BY DEF Fields, RadioFields
<1>2. radio' = [radio EXCEPT ![d] = t]
  BY DEF Fields
<1> HIDE DEF t
<1> QED BY <1>1, <1>2, RadioReplaced

-----------------------------------------------------------------------------
(* The steps of a task.                                                    *)

(* Prepare reads the rows and writes none.                                 *)
LEMMA PrepareStep == ASSUME FwInv, NEW r \in Requests, NEW d \in Radios, Prepare(r, d) PROVE FwInv'
<1>1. /\ Fields /\ Active(r, d) /\ task[r][d].pc = "ready"
      /\ RadiosKept /\ RowsKept /\ UNCHANGED <<order, batches, troubled>>
  BY RadioUntouched, RowUntouched DEF FwInv, Prepare, Active
<1>2. DOMAIN jobRow' = Requests /\ \A q \in Requests : DOMAIN jobRow'[q] = Radios
  BY <1>1 DEF Prepare, Fields
<1>3. CASE Ends(r, d, "skipped") \/ Ends(r, d, "failed")
  <2>1. OthersKept(r, d) /\ task'[r][d].pc \in {"record", "done"} /\ task'[r][d].res # "success"
    BY <1>1, <1>3, EndsMoves
  <2>2. ~LoggedIn(r, d)'
    BY <2>1 DEF LoggedIn
  <2> QED BY <1>1, <1>2, <2>1, <2>2, TaskStepKeeps
<1>4. ASSUME NEW f, NEW p, task' = [task EXCEPT ![r][d] = [@ EXCEPT !.pc = "login", !.file = f, !.pair = p]]
      PROVE  FwInv'
  <2>3. OthersKept(r, d) /\ task'[r][d].pc = "login"
    BY <1>1, <1>4, PreparedMoves DEF Prepared
  <2>4. ~LoggedIn(r, d)'
    BY <2>3 DEF LoggedIn
  <2> QED BY <1>1, <1>2, <2>3, <2>4, TaskStepKeeps
<1> QED BY <1>3, <1>4, Zenon DEF Prepare

(* A retry that gets in has typed what the radio accepts, or spoils it.    *)
LEMMA LoginStep == ASSUME FwInv, NEW r \in Requests, NEW d \in Radios, Login(r, d) PROVE FwInv'
<1>1. /\ Fields /\ Active(r, d) /\ task[r][d].pc = "login"
      /\ RadiosKept /\ RowsKept /\ UNCHANGED <<order, batches, jobRow>> /\ troubled \subseteq troubled'
  BY RadioUntouched, RowUntouched DEF FwInv, Login, Active
<1>2. DOMAIN jobRow' = Requests /\ \A q \in Requests : DOMAIN jobRow'[q] = Radios
  BY <1>1 DEF Fields
<1>3. CASE Ends(r, d, "auth_failed")
  <2>1. OthersKept(r, d) /\ task'[r][d].pc \in {"record", "done"} /\ task'[r][d].res # "success"
    BY <1>1, <1>3, EndsMoves
  <2>2. ~LoggedIn(r, d)'
    BY <2>1 DEF LoggedIn
  <2> QED BY <1>1, <1>2, <2>1, <2>2, TaskStepKeeps
<1>4. CASE /\ task' = [task EXCEPT ![r][d] = [@ EXCEPT !.pc = "upload", !.pair = radio[d].accepts]]
           /\ troubled' = troubled \cup
                IF order[r].kind = "retry" /\ order[r].typed # radio[d].accepts THEN {d} ELSE {}
  <2> DEFINE t == [task[r][d] EXCEPT !.pc = "upload", !.pair = radio[d].accepts]
  <2>1. DOMAIN t = TaskFields /\ t.pc = "upload"
    BY <1>1 DEF Fields, TaskFields
  <2>2. task' = [task EXCEPT ![r] = [task[r] EXCEPT ![d] = t]]
    BY <1>1, <1>4 DEF Fields
  <2> HIDE DEF t
  <2>3. OthersKept(r, d) /\ task'[r][d].pc = "upload"
    BY <1>1, <2>1, <2>2, TaskReplaced
  <2>4. LoggedIn(r, d)' /\ d \notin troubled' => radio[d].accepts = order[r].typed
    BY <1>1, <1>4 DEF LoggedIn
  <2> QED BY <1>1, <1>2, <2>3, <2>4, TaskStepKeeps
<1> QED BY <1>3, <1>4, Zenon DEF Login

(* A task that is past its login, and goes on or ends.                     *)
LEMMA PastLogin ==
    ASSUME FwInv, NEW r \in Requests, NEW d \in Radios, task[r][d].pc \in {"upload", "wait", "act"},
           RadiosKept, UNCHANGED <<row, order, batches, jobRow, troubled>>,
           \/ \E pc \in {"wait", "act"} : Goto(r, d, pc)
           \/ \E res \in {"success", "failed"} : Ends(r, d, res)
    PROVE  FwInv'
<1>1. Fields /\ Active(r, d) /\ RowsKept
  BY RowUntouched DEF FwInv, Active
<1>2. DOMAIN jobRow' = Requests /\ \A q \in Requests : DOMAIN jobRow'[q] = Radios
  BY <1>1 DEF Fields
<1>3. OthersKept(r, d) /\ task'[r][d].pc \in {"wait", "act", "record", "done"}
  BY <1>1, GotoMoves, EndsMoves
<1>4. LoggedIn(r, d)' /\ d \notin troubled => radio[d].accepts = order[r].typed
  <2>1. LoggedIn(r, d)' => LoggedIn(r, d)
    BY DEF LoggedIn
  <2> QED BY <2>1 DEF FwInv, Access
<1> QED BY <1>1, <1>2, <1>3, <1>4, TaskStepKeeps

(* An upload over the Wave interface.                                      *)
LEMMA UploadStep == ASSUME FwInv, NEW r \in Requests, NEW d \in Radios, Upload(r, d) PROVE FwInv'
<1>1. Fields /\ task[r][d].pc = "upload" /\ UNCHANGED <<row, order, batches, jobRow, troubled>>
  BY DEF FwInv, Upload
<1>2. CASE Ends(r, d, "failed") /\ UNCHANGED radio
  BY <1>1, <1>2, RadioUntouched, PastLogin
<1>3. CASE /\ radio' = [radio EXCEPT ![d].image = "checking", ![d].holds = task[r][d].file.version]
           /\ Goto(r, d, "wait")
  BY <1>1, <1>3, RadioTakesImage, PastLogin
<1> QED BY <1>2, <1>3 DEF Upload

(* An upload over the airMAX interface.                                    *)
LEMMA UpgradeFirmwareStep == ASSUME FwInv, NEW r \in Requests, NEW d \in Radios, UpgradeFirmware(r, d) PROVE FwInv'
<1>1. Fields /\ task[r][d].pc = "upload" /\ UNCHANGED <<row, order, batches, jobRow, troubled>>
  BY DEF FwInv, UpgradeFirmware
<1>2. CASE Ends(r, d, "failed") /\ UNCHANGED radio
  BY <1>1, <1>2, RadioUntouched, PastLogin
<1>3. CASE /\ radio' = [radio EXCEPT ![d].image = "verified", ![d].holds = task[r][d].file.version]
           /\ Goto(r, d, "act")
  BY <1>1, <1>3, RadioTakesImage, PastLogin
<1> QED BY <1>2, <1>3 DEF UpgradeFirmware

(* The end of the wait, with or without an image.                          *)
LEMMA WaitStep ==
    ASSUME FwInv, NEW r \in Requests, NEW d \in Radios, waitForUpgrade(r, d) \/ GiveUp(r, d) PROVE FwInv'
<1>1. Fields /\ task[r][d].pc = "wait" /\ RadiosKept /\ UNCHANGED <<row, order, batches, jobRow, troubled>>
  BY RadioUntouched DEF FwInv, waitForUpgrade, GiveUp
<1>2. Goto(r, d, "act") \/ Ends(r, d, "success") \/ Ends(r, d, "failed")
  BY DEF waitForUpgrade, GiveUp
<1> QED BY <1>1, <1>2, PastLogin

(* The restart or the flash.                                               *)
LEMMA ActStep == ASSUME FwInv, NEW r \in Requests, NEW d \in Radios, Act(r, d) PROVE FwInv'
<1>1. Fields /\ task[r][d].pc = "act" /\ UNCHANGED <<row, order, batches, jobRow, troubled>>
  BY DEF FwInv, Act
<1>2. UNCHANGED radio \/ radio' = [radio EXCEPT ![d] = Restarted(d, TRUE)]
  BY DEF Act, TriggerFlash
<1>3. Ends(r, d, "success") \/ Ends(r, d, "failed")
  BY DEF Act, TriggerFlash
<1> QED BY <1>1, <1>2, <1>3, RadioUntouched, RadioRestarts, PastLogin

(* The job row is written; a retry that succeeded goes on to store.        *)
LEMMA RecordStep == ASSUME FwInv, NEW r \in Requests, NEW d \in Radios, Record(r, d) PROVE FwInv'
<1>1. /\ Fields /\ Active(r, d) /\ task[r][d].pc = "record"
      /\ RadiosKept /\ RowsKept /\ UNCHANGED <<order, batches, troubled>>
  BY RadioUntouched, RowUntouched DEF FwInv, Record, Active
<1>2. DOMAIN jobRow' = Requests /\ \A q \in Requests : DOMAIN jobRow'[q] = Radios
  BY <1>1 DEF Record, Fields
<1> DEFINE store == order[r].kind = "retry" /\ task[r][d].res = "success"
<1>3. Goto(r, d, IF store THEN "store" ELSE "done")
  BY DEF Record
<1>4. OthersKept(r, d) /\ task'[r][d].pc = IF store THEN "store" ELSE "done"
  BY <1>1, <1>3, GotoMoves
<1>5. LoggedIn(r, d)' /\ d \notin troubled => radio[d].accepts = order[r].typed
  <2>1. LoggedIn(r, d)' => LoggedIn(r, d)
    BY <1>1, <1>4 DEF LoggedIn
  <2> QED BY <2>1 DEF FwInv, Access
<1> QED BY <1>1, <1>2, <1>4, <1>5, TaskStepKeeps

(* A lost answer or a lost write spoils the radio: nothing is claimed.     *)
LEMMA LosesWriteStep == ASSUME FwInv, NEW r \in Requests, NEW d \in Radios, LosesWrite(r, d) PROVE FwInv'
<1>1. /\ Fields /\ Active(r, d) /\ RadiosKept /\ RowsKept
      /\ UNCHANGED <<order, batches, jobRow>> /\ troubled' = troubled \cup {d}
  BY RadioUntouched, RowUntouched DEF FwInv, LosesWrite, Active
<1>2. DOMAIN jobRow' = Requests /\ \A q \in Requests : DOMAIN jobRow'[q] = Radios
  BY <1>1 DEF Fields
<1>3. OthersKept(r, d) /\ task'[r][d].pc = "done"
  BY <1>1, GotoMoves DEF LosesWrite
<1> QED BY <1>1, <1>2, <1>3, TaskStepKeeps

(* A step of a task that changes the credential of its radio, on one side  *)
(* or on the other.                                                        *)
LEMMA CredentialStep ==
    ASSUME FwInv, NEW r \in Requests, NEW d \in Radios, OthersKept(r, d),
           UNCHANGED <<order, batches, jobRow>>, troubled \subseteq troubled', Active(r, d),
           DOMAIN radio' = Radios, \A e \in Radios : DOMAIN radio'[e] = RadioFields,
           \A e \in Radios \ {d} : radio'[e].accepts = radio[e].accepts,
           radio'[d].accepts \in {radio[d].accepts, NewPair},
           DOMAIN row' = Radios, \A e \in Radios : DOMAIN row'[e] = RowFields,
           \A e \in Radios \ {d} : row'[e].own = row[e].own,
           task'[r][d].pc # "none",
           task'[r][d].pc \in {"patch", "persist"} => order[r].kind = "config",
           task'[r][d].pc = "store" => order[r].kind = "retry",
           d \notin troubled' =>
               /\ (\A q \in Requests : task'[q][d].pc # "persist") => radio'[d].accepts = Used(d)'
               /\ \A q \in Requests : task'[q][d].pc = "persist" => radio'[d].accepts = NewPair
               /\ \A q \in Requests : LoggedIn(q, d)' => radio'[d].accepts = order[q].typed
    PROVE  FwInv'
<1>1. Fields'
  BY DEF FwInv, Fields, OthersKept
<1>2. ASSUME NEW q \in Requests PROVE Ordered(q)'
  <2>1. Ordered(q)
    BY DEF FwInv
  <2>2. \A e \in Radios : Active(q, e)' => Active(q, e)
    BY DEF Active, OthersKept
  <2>3. order[q] = NoOrder => q # r
    BY <2>1 DEF Ordered, Active
  <2> QED BY <2>1, <2>2, <2>3 DEF Ordered, OthersKept
<1>3. ASSUME NEW e \in Radios \ troubled' PROVE Access(e)'
  <2>1. Access(e)
    BY DEF FwInv
  <2>2. \A q \in Requests : MayStore(q, e)' => MayStore(q, e)
    BY DEF MayStore, Active, OthersKept
  <2>3. CASE e = d
    BY <2>1, <2>2, <2>3 DEF Access
  <2>4. CASE e # d
    <3>1. radio'[e].accepts = radio[e].accepts /\ Used(e)' = Used(e)
      BY <2>4 DEF Used
    <3>2. \A q \in Requests : task'[q][e] = task[q][e] /\ (LoggedIn(q, e)' <=> LoggedIn(q, e))
      BY <2>4 DEF OthersKept, LoggedIn
    <3> QED BY <2>1, <2>2, <3>1, <3>2 DEF Access
  <2> QED BY <2>3, <2>4
<1> QED BY <1>1, <1>2, <1>3 DEF FwInv

(* A radio takes the new password.                                         *)
LEMMA RadioAccepts ==
    ASSUME Fields, NEW d \in Radios, radio' = [radio EXCEPT ![d].accepts = NewPair]
    PROVE  /\ DOMAIN radio' = Radios /\ \A e \in Radios : DOMAIN radio'[e] = RadioFields
           /\ \A e \in Radios \ {d} : radio'[e].accepts = radio[e].accepts
           /\ radio'[d].accepts = NewPair
BY DEF Fields, RadioFields

(* A row takes a credential.                                               *)
LEMMA RowStores ==
    ASSUME Fields, NEW d \in Radios, NEW p, row' = [row EXCEPT ![d].own = p]
    PROVE  /\ DOMAIN row' = Radios /\ \A e \in Radios : DOMAIN row'[e] = RowFields
           /\ \A e \in Radios \ {d} : row'[e].own = row[e].own
           /\ row'[d].own = p
BY DEF Fields, RowFields

(* A radio no fault spoilt has no second request that stores.              *)
LEMMA OnlyOne ==
    ASSUME FwInv, NEW r \in Requests, NEW d \in Radios \ troubled, Active(r, d), Stores(order[r])
    PROVE  \A q \in Requests \ {r} : ~LoggedIn(q, d) /\ task[q][d].pc # "persist"
<1>1. Access(d) /\ \A q \in Requests : Ordered(q)
  BY DEF FwInv
<1>2. MayStore(r, d)
  BY <1>1 DEF Ordered, MayStore
<1> TAKE q \in Requests \ {r}
<1>3. ~MayStore(q, d)
  BY <1>1, <1>2 DEF Access
<1>4. ~(Stores(order[q]) /\ Active(q, d))
  BY <1>1, <1>3 DEF Ordered, MayStore
<1> QED BY <1>1, <1>4 DEF Ordered, Stores, LoggedIn, Active

(* A lost answer spoils the radio: nothing more is claimed.                *)
LEMMA LosesStep == ASSUME FwInv, NEW r \in Requests, NEW d \in Radios, Loses(r, d) PROVE FwInv'
<1>1. /\ Fields /\ Active(r, d) /\ UNCHANGED <<row, order, batches, jobRow>>
      /\ troubled' = troubled \cup {d}
  BY DEF FwInv, Loses, Active
<1>2. PICK res : Ends(r, d, res)
  BY DEF Loses
<1>3. OthersKept(r, d) /\ task'[r][d].pc \in {"record", "done"}
  BY <1>1, <1>2, EndsMoves
<1>4. \/ UNCHANGED radio
      \/ radio' = [radio EXCEPT ![d].image = "checking", ![d].holds = task[r][d].file.version]
      \/ radio' = [radio EXCEPT ![d] = Restarted(d, TRUE)]
      \/ radio' = [radio EXCEPT ![d].accepts = NewPair]
  BY DEF Loses
<1>5. /\ DOMAIN radio' = Radios /\ \A e \in Radios : DOMAIN radio'[e] = RadioFields
      /\ \A e \in Radios \ {d} : radio'[e].accepts = radio[e].accepts
      /\ radio'[d].accepts \in {radio[d].accepts, NewPair}
  <2>1. CASE radio' = [radio EXCEPT ![d].accepts = NewPair]
    BY <1>1, <2>1, RadioAccepts
  <2>2. CASE RadiosKept
    BY <2>2 DEF RadiosKept
  <2>3. CASE UNCHANGED radio
    BY <1>1, <2>2, <2>3, RadioUntouched
  <2>4. CASE radio' = [radio EXCEPT ![d].image = "checking", ![d].holds = task[r][d].file.version]
    <3>1. RadiosKept
      BY <1>1, <2>4, RadioTakesImage
    <3> QED BY <2>2, <3>1
  <2>5. CASE radio' = [radio EXCEPT ![d] = Restarted(d, TRUE)]
    <3>1. RadiosKept
      BY <1>1, <2>5, RadioRestarts
    <3> QED BY <2>2, <3>1
  <2> QED BY <1>4, <2>1, <2>3, <2>4, <2>5
<1>6. DOMAIN row' = Radios /\ \A e \in Radios : DOMAIN row'[e] = RowFields
  BY <1>1 DEF Fields
<1> QED BY <1>1, <1>3, <1>5, <1>6, CredentialStep

(* A change of password begins.                                            *)
LEMMA ConfigLoginStep == ASSUME FwInv, NEW r \in Requests, NEW d \in Radios, ConfigLogin(r, d) PROVE FwInv'
<1>1. /\ Fields /\ Active(r, d) /\ task[r][d].pc = "ready" /\ order[r].kind = "config"
      /\ RadiosKept /\ RowsKept /\ UNCHANGED <<order, batches, jobRow, troubled>>
  BY RadioUntouched, RowUntouched DEF FwInv, ConfigLogin, Active
<1>2. DOMAIN jobRow' = Requests /\ \A q \in Requests : DOMAIN jobRow'[q] = Radios
  BY <1>1 DEF Fields
<1>3. OthersKept(r, d) /\ task'[r][d].pc \in {"patch", "record", "done"}
  BY <1>1, GotoMoves, EndsMoves DEF ConfigLogin
<1>4. ~LoggedIn(r, d)'
  BY <1>1 DEF LoggedIn
<1> QED BY <1>1, <1>2, <1>3, <1>4, TaskStepKeeps

(* The radio changes its password: no retry is past its login.             *)
LEMMA ConfigPatchStep == ASSUME FwInv, NEW r \in Requests, NEW d \in Radios, ConfigPatch(r, d) PROVE FwInv'
<1>1. /\ Fields /\ Active(r, d) /\ task[r][d].pc = "patch" /\ order[r].kind = "config"
      /\ RowsKept /\ UNCHANGED <<row, order, batches, jobRow, troubled>>
  BY RowUntouched DEF FwInv, ConfigPatch, Active, Ordered
<1>2. ~LoggedIn(r, d)'
  BY <1>1 DEF LoggedIn
<1>3. CASE Ends(r, d, "failed") /\ UNCHANGED radio
  <2>1. DOMAIN jobRow' = Requests /\ \A q \in Requests : DOMAIN jobRow'[q] = Radios
    BY <1>1 DEF Fields
  <2>2. OthersKept(r, d) /\ task'[r][d].pc \in {"record", "done"} /\ RadiosKept
    BY <1>1, <1>3, EndsMoves, RadioUntouched
  <2> QED BY <1>1, <1>2, <2>1, <2>2, TaskStepKeeps
<1>4. CASE radio' = [radio EXCEPT ![d].accepts = NewPair] /\ Goto(r, d, "persist")
  <2>1. OthersKept(r, d) /\ task'[r][d].pc = "persist"
    BY <1>1, <1>4, GotoMoves
  <2>2. /\ DOMAIN radio' = Radios /\ \A e \in Radios : DOMAIN radio'[e] = RadioFields
        /\ \A e \in Radios \ {d} : radio'[e].accepts = radio[e].accepts
        /\ radio'[d].accepts = NewPair
    BY <1>1, <1>4, RadioAccepts
  <2>3. DOMAIN row' = Radios /\ \A e \in Radios : DOMAIN row'[e] = RowFields
    BY <1>1 DEF Fields
  <2>4. d \notin troubled => \A q \in Requests : ~LoggedIn(q, d)'
    <3>1. d \notin troubled => \A q \in Requests \ {r} : ~LoggedIn(q, d)
      BY <1>1, OnlyOne DEF Stores
    <3> QED BY <1>1, <1>2, <2>1, <3>1 DEF LoggedIn, OthersKept
  <2> QED BY <1>1, <2>1, <2>2, <2>3, <2>4, CredentialStep
<1> QED BY <1>3, <1>4 DEF ConfigPatch

(* The new password is stored, whether the caller is there or not.         *)
LEMMA ConfigPersistStep == ASSUME FwInv, NEW r \in Requests, NEW d \in Radios, ConfigPersist(r, d) PROVE FwInv'
<1>1. /\ Fields /\ Active(r, d) /\ task[r][d].pc = "persist" /\ order[r].kind = "config"
      /\ UNCHANGED <<radio, order, batches, jobRow, troubled>>
      /\ row' = [row EXCEPT ![d].own = NewPair] /\ Ends(r, d, "success")
  BY DEF FwInv, ConfigPersist, Active, Ordered
<1>2. OthersKept(r, d) /\ task'[r][d].pc \in {"record", "done"}
  BY <1>1, EndsMoves
<1>3. /\ DOMAIN row' = Radios /\ \A e \in Radios : DOMAIN row'[e] = RowFields
      /\ \A e \in Radios \ {d} : row'[e].own = row[e].own
      /\ row'[d].own = NewPair
  BY <1>1, RowStores
<1>4. DOMAIN radio' = Radios /\ \A e \in Radios : DOMAIN radio'[e] = RadioFields
  BY <1>1 DEF Fields
<1>5. Used(d)' = NewPair
  BY <1>3 DEF Used, NewPair, NoPair
<1>6. d \notin troubled => radio[d].accepts = NewPair /\ \A q \in Requests : ~LoggedIn(q, d)'
  <2>1. d \notin troubled => radio[d].accepts = NewPair /\ \A q \in Requests \ {r} : ~LoggedIn(q, d)
    BY <1>1, OnlyOne DEF Stores, FwInv, Access
  <2> QED BY <1>1, <1>2, <2>1 DEF LoggedIn, OthersKept
<1> QED BY <1>1, <1>2, <1>3, <1>4, <1>5, <1>6, CredentialStep

(* A retry stores what it has logged in with.                              *)
LEMMA StoreTypedStep == ASSUME FwInv, NEW r \in Requests, NEW d \in Radios, StoreTyped(r, d) PROVE FwInv'
<1>1. /\ Fields /\ Active(r, d) /\ task[r][d].pc = "store" /\ order[r].kind = "retry"
      /\ UNCHANGED <<radio, order, batches, jobRow, troubled>>
      /\ row' = [row EXCEPT ![d].own = order[r].typed] /\ Goto(r, d, "done")
  BY DEF FwInv, StoreTyped, Active, Ordered
<1>2. OthersKept(r, d) /\ task'[r][d].pc = "done"
  BY <1>1, GotoMoves
<1>3. /\ DOMAIN row' = Radios /\ \A e \in Radios : DOMAIN row'[e] = RowFields
      /\ \A e \in Radios \ {d} : row'[e].own = row[e].own
      /\ row'[d].own = order[r].typed
  BY <1>1, RowStores
<1>4. DOMAIN radio' = Radios /\ \A e \in Radios : DOMAIN radio'[e] = RadioFields
  BY <1>1 DEF Fields
<1>5. ASSUME d \notin troubled
      PROVE  /\ radio[d].accepts = Used(d)'
             /\ \A q \in Requests : ~LoggedIn(q, d)' /\ task'[q][d].pc # "persist"
  <2>1. LoggedIn(r, d)
    BY <1>1 DEF LoggedIn
  <2>2. radio[d].accepts = order[r].typed /\ radio[d].accepts \in {"p1", NewPair}
    BY <1>1, <1>5, <2>1 DEF FwInv, Access, Fields
  <2>3. \A q \in Requests \ {r} : ~LoggedIn(q, d) /\ task[q][d].pc # "persist"
    BY <1>1, <1>5, OnlyOne DEF Stores
  <2>4. radio[d].accepts = Used(d)'
    BY <1>3, <2>2 DEF Used, NewPair, NoPair
  <2> QED BY <1>1, <1>2, <2>3, <2>4 DEF LoggedIn, OthersKept
<1> QED BY <1>1, <1>2, <1>3, <1>4, <1>5, CredentialStep

-----------------------------------------------------------------------------
(* The steps that are no task's.                                           *)

(* A step that touches no task and no credential.                          *)
LEMMA WorldStep ==
    ASSUME FwInv, RadiosKept, RowsKept, UNCHANGED <<order, batches, task, jobRow, troubled>>
    PROVE  FwInv'
<1>1. Fields'
  BY DEF FwInv, Fields, RadiosKept, RowsKept
<1>2. \A r \in Requests : Ordered(r)'
  BY DEF FwInv, Ordered, Active
<1>3. ASSUME NEW d \in Radios \ troubled PROVE Access(d)'
  <2>1. Access(d) /\ radio'[d].accepts = radio[d].accepts /\ Used(d)' = Used(d)
    BY DEF FwInv, RadiosKept, RowsKept, Used
  <2>2. \A r \in Requests : (MayStore(r, d)' <=> MayStore(r, d)) /\ (LoggedIn(r, d)' <=> LoggedIn(r, d))
    BY DEF MayStore, LoggedIn, Active
  <2> QED BY <2>1, <2>2 DEF Access
<1> QED BY <1>1, <1>2, <1>3 DEF FwInv

(* A second request that stores is seen when it comes in.                  *)
LEMMA BeginStep == ASSUME FwInv, NEW r \in Requests, Begin(r) PROVE FwInv'
<1>1. PICK o \in Orders[r] :
        /\ order' = [order EXCEPT ![r] = o]
        /\ batches' = [batches EXCEPT ![r] = BatchesOf(o)]
        /\ troubled' = troubled \cup
             IF Stores(o) THEN {d \in o.ids : \E q \in Requests : order[q] # NoOrder /\ Stores(order[q])
                                                                   /\ (Active(q, d) \/ batches[q] # <<>>)}
             ELSE {}
  BY DEF Begin
<1>2. Fields /\ order[r] = NoOrder /\ UNCHANGED <<radio, row, task, jobRow>> /\ Ordered(r)
  BY DEF Begin, FwInv
<1>3. /\ DOMAIN order' = Requests /\ DOMAIN batches' = Requests
      /\ order'[r] = o /\ batches'[r] = BatchesOf(o)
      /\ \A q \in Requests \ {r} : order'[q] = order[q] /\ batches'[q] = batches[q]
  BY <1>1, <1>2 DEF Fields
<1>4. Fields'
  BY <1>2, <1>3 DEF Fields
<1>5. \A d \in Radios : task[r][d].pc = "none"
  BY <1>2 DEF Ordered
<1>6. o # NoOrder
  BY OrdersAssumption DEF NoOrder
<1>7. Stores(o) => BatchesOf(o) = <<o.ids>>
  BY DEF Stores, BatchesOf
<1>8. ASSUME NEW q \in Requests PROVE Ordered(q)'
  <2>1. CASE q = r
    BY <1>2, <1>3, <1>5, <1>6, <1>7, <2>1 DEF Ordered, Active
  <2>2. CASE q # r
    BY <1>2, <1>3, <2>2 DEF FwInv, Ordered, Active
  <2> QED BY <2>1, <2>2
<1>9. ASSUME NEW d \in Radios \ troubled' PROVE Access(d)'
  <2>1. Access(d)
    BY <1>1 DEF FwInv
  <2>2. \A q \in Requests \ {r} : MayStore(q, d)' <=> MayStore(q, d)
    BY <1>2, <1>3 DEF MayStore, Active
  <2>3. MayStore(r, d)' => \A q \in Requests \ {r} : ~MayStore(q, d)
    <3> SUFFICES ASSUME MayStore(r, d)', NEW q \in Requests \ {r}, MayStore(q, d) PROVE FALSE
      OBVIOUS
    <3>1. Stores(o) /\ d \in o.ids
      BY <1>3 DEF MayStore
    <3>2. Stores(order[q]) /\ (Active(q, d) \/ batches[q] # <<>>)
      BY DEF MayStore
    <3>3. order[q] # NoOrder
      BY <3>2 DEF Stores, NoOrder
    <3> QED BY <1>1, <3>1, <3>2, <3>3
  <2>4. \A q \in Requests : LoggedIn(q, d)' => q # r /\ LoggedIn(q, d) /\ order'[q] = order[q]
    BY <1>2, <1>3, <1>5 DEF LoggedIn
  <2>5. Used(d)' = Used(d)
    BY <1>2 DEF Used
  <2> QED BY <1>2, <2>1, <2>2, <2>3, <2>4, <2>5 DEF Access
<1> QED BY <1>4, <1>8, <1>9 DEF FwInv

(* Tasks start with nothing known of their radios.                         *)
LEMMA NextBatchStep == ASSUME FwInv, NEW r \in Requests, NextBatch(r) PROVE FwInv'
<1> DEFINE ready == [NoTask EXCEPT !.pc = "ready"]
<1>1. /\ Fields /\ Ordered(r) /\ batches[r] # <<>> /\ \A d \in Radios : ~Active(r, d)
      /\ batches' = [batches EXCEPT ![r] = Tail(batches[r])]
      /\ UNCHANGED <<radio, row, order, jobRow, troubled>>
  BY DEF FwInv, NextBatch, Fields
<1>2. task' = [task EXCEPT ![r] = [d \in Radios |-> IF d \in Head(batches[r]) THEN ready ELSE task[r][d]]]
  BY <1>1 DEF NextBatch, Fields
<1>3. DOMAIN ready = TaskFields /\ ready.pc = "ready"
  BY DEF NoTask, TaskFields
<1> HIDE DEF ready
<1>4. /\ \A q \in Requests \ {r} : task'[q] = task[q] /\ batches'[q] = batches[q]
      /\ \A d \in Radios : task'[r][d] = IF d \in Head(batches[r]) THEN ready ELSE task[r][d]
      /\ batches'[r] = Tail(batches[r])
      /\ DOMAIN task' = Requests /\ DOMAIN batches' = Requests /\ DOMAIN task'[r] = Radios
  BY <1>1, <1>2 DEF Fields
<1>5. Fields'
  <2>1. ASSUME NEW q \in Requests PROVE DOMAIN task'[q] = Radios /\ \A d \in Radios : DOMAIN task'[q][d] = TaskFields
    <3>1. CASE q # r
      BY <1>1, <1>4, <3>1 DEF Fields
    <3>2. \A d \in Radios : DOMAIN task[r][d] = TaskFields
      BY <1>1 DEF Fields
    <3>3. \A d \in Radios : DOMAIN task'[r][d] = TaskFields
      BY <1>3, <1>4, <3>2
    <3> QED BY <1>4, <3>1, <3>3
  <2> QED BY <1>1, <1>4, <2>1 DEF Fields
<1>6. Stores(order[r]) => Head(batches[r]) = order[r].ids /\ Tail(batches[r]) = <<>>
  <2>1. Stores(order[r]) => batches[r] = <<order[r].ids>>
    BY <1>1 DEF Ordered
  <2>2. \A x : Head(<<x>>) = x /\ Tail(<<x>>) = <<>>
    OBVIOUS
  <2> QED BY <2>1, <2>2, Zenon
<1>7. ASSUME NEW q \in Requests PROVE Ordered(q)'
  <2>1. CASE q = r
    <3>1. \A d \in Radios : Active(r, d)' => d \in Head(batches[r])
      BY <1>1, <1>4 DEF Active
    <3>2. order[r] # NoOrder
      BY <1>1 DEF Ordered
    <3> QED BY <1>1, <1>3, <1>4, <1>6, <2>1, <3>1, <3>2 DEF Ordered
  <2>2. CASE q # r
    BY <1>1, <1>4, <2>2 DEF FwInv, Ordered, Active
  <2> QED BY <2>1, <2>2
<1>8. ASSUME NEW d \in Radios \ troubled' PROVE Access(d)'
  <2>1. Access(d)
    BY <1>1 DEF FwInv
  <2>2. \A q \in Requests : MayStore(q, d)' => MayStore(q, d)
    BY <1>1, <1>4 DEF MayStore, Active
  <2>3. \A q \in Requests : LoggedIn(q, d)' => LoggedIn(q, d)
    BY <1>1, <1>3, <1>4 DEF LoggedIn
  <2>4. \A q \in Requests : task'[q][d].pc = "persist" <=> task[q][d].pc = "persist"
    BY <1>1, <1>3, <1>4 DEF Active
  <2>5. Used(d)' = Used(d)
    BY <1>1 DEF Used
  <2> QED BY <1>1, <2>1, <2>2, <2>3, <2>4, <2>5 DEF Access
<1> QED BY <1>5, <1>7, <1>8 DEF FwInv

(* Every step keeps the invariant.                                         *)
LEMMA UpgradeStepInv == FwInv /\ [UpgradeNext]_fwVars => FwInv'
<1> SUFFICES ASSUME FwInv, [UpgradeNext]_fwVars PROVE FwInv'
  OBVIOUS
<1>0. Fields
  BY DEF FwInv
<1>1. ASSUME NEW r \in Requests, NEW d \in Radios, TaskStep(r, d) PROVE FwInv'
  BY <1>1, PrepareStep, LoginStep, UploadStep, UpgradeFirmwareStep, WaitStep, ActStep, RecordStep,
     StoreTypedStep, ConfigLoginStep, ConfigPatchStep, ConfigPersistStep DEF TaskStep
<1>2. ASSUME NEW r \in Requests, Cancel(r) PROVE FwInv'
  BY <1>0, <1>2, RadioUntouched, RowUntouched, WorldStep DEF Cancel
<1>3. ASSUME NEW d \in Radios, Verify(d) PROVE FwInv'
  <2>1. PICK v : radio' = [radio EXCEPT ![d].image = v]
    BY <1>3 DEF Verify
  <2> DEFINE t == [radio[d] EXCEPT !.image = v]
  <2>2. DOMAIN t = RadioFields /\ t.accepts = radio[d].accepts
    BY <1>0 DEF Fields, RadioFields
  <2>3. radio' = [radio EXCEPT ![d] = t]
    BY <1>0, <2>1 DEF Fields
  <2> HIDE DEF t
  <2>4. RadiosKept
    BY <1>0, <2>2, <2>3, RadioReplaced
  <2> QED BY <1>0, <1>3, <2>4, RowUntouched, WorldStep DEF Verify
<1>4. ASSUME NEW d \in Radios, AutoReboot(d) \/ RebootDevice(d) PROVE FwInv'
  <2>1. RadiosKept
    BY <1>0, <1>4, RadioRestarts DEF AutoReboot, RebootDevice
  <2> QED BY <1>0, <1>4, <2>1, RowUntouched, WorldStep DEF AutoReboot, RebootDevice
<1>5. ASSUME NEW d \in Radios, PollRow(d) PROVE FwInv'
  <2>1. RowsKept
    BY <1>0, <1>5 DEF PollRow, Fields, RowFields, RowsKept
  <2> QED BY <1>0, <1>5, <2>1, RadioUntouched, WorldStep DEF PollRow
<1>6. ASSUME NEW f, DeleteFile(f) PROVE FwInv'
  BY <1>0, <1>6, RadioUntouched, RowUntouched, WorldStep DEF DeleteFile
<1>7. CASE UNCHANGED fwVars
  BY <1>0, <1>7, RadioUntouched, RowUntouched, WorldStep DEF fwVars
<1> QED
  BY <1>1, <1>2, <1>3, <1>4, <1>5, <1>6, <1>7, BeginStep, NextBatchStep, WaitStep, LosesStep, LosesWriteStep
  DEF UpgradeNext

\* Whatever requests come and whenever their callers go away, the credential
\* the program would use for a radio is one the radio accepts: a change of the
\* password is stored even when the caller is gone (ApplyConfigContext), and a
\* retry stores only what it has logged in with (UpgradeDeviceWithCreds).
THEOREM CredentialsKept == UpgradeSpec => []AccessKept
<1>1. FwInv => AccessKept
  BY DEF FwInv, AccessKept, Access, Used, Configured
<1>2. (\E old, owned : UpgradeInit(old, owned)) => FwInv
  BY FwStarts
<1> QED BY <1>1, <1>2, UpgradeStepInv, PTL DEF UpgradeSpec

-----------------------------------------------------------------------------
(***************************************************************************)
(* The order of the batches: the stations of a radio are in no batch that  *)
(* starts with it or after it.                                             *)
(***************************************************************************)
(* No batch holds a station of a radio of it or of an earlier one.         *)
WellOrdered(b) ==
    \A i, j \in DOMAIN b : i <= j => \A d \in b[i] \cap Radios : \A s \in Children(d) : s \notin b[j]

OrderInv ==
    /\ ApAfterStations
    /\ \A r \in Requests : Len(batches[r]) \in Nat /\ batches[r] \in Seq(SUBSET Radios) /\ WellOrdered(batches[r])

(* SetToSeq lists the elements of a finite set, none of them twice.        *)
LEMMA ListsOnce ==
    ASSUME NEW S, IsFiniteSet(S)
    PROVE  /\ Cardinality(S) \in Nat
           /\ SetToSeq(S) \in [1..Cardinality(S) -> S]
           /\ \A i, j \in 1..Cardinality(S) : SetToSeq(S)[i] = SetToSeq(S)[j] => i = j
<1>1. Cardinality(S) \in Nat /\ ExistsBijection(1..Cardinality(S), S)
  BY FS_CardinalityType
<1>2. \E f \in [1..Cardinality(S) -> S] : IsInjective(f)
  BY <1>1 DEF ExistsBijection, Bijection, Injection, IsInjective
<1>3. SetToSeq(S) \in [1..Cardinality(S) -> S] /\ IsInjective(SetToSeq(S))
  BY <1>2 DEF SetToSeq
<1> QED BY <1>1, <1>3 DEF IsInjective

(* A station has no stations.                                              *)
LEMMA TwoLevels ==
    ASSUME NEW d \in Radios, NEW s \in Children(d)
    PROVE  /\ s \in Radios /\ Parent[s] = d /\ Parent[d] = NoRadio /\ d # NoRadio
           /\ s # d /\ Parent[s] # NoRadio
BY ParentsAssumption DEF Children

(* Places of the stations and of the access points in a list of batches.   *)
LEMMA Places ==
    ASSUME NEW n \in Nat, NEW i \in 1..(2 * n + 1), i # 2 * n + 1
    PROVE  /\ i % 2 = 1 => (i + 1) \div 2 \in 1..n /\ i = 2 * ((i + 1) \div 2) - 1
           /\ i % 2 # 1 => i % 2 = 0 /\ i \div 2 \in 1..n /\ i = 2 * (i \div 2)
OBVIOUS

(* A bulk upgrade: stations, their access point, and so on; the orphans.   *)
LEMMA BulkOrdered ==
    ASSUME NEW ids, ids \subseteq Radios, IsFiniteSet(ids)
    PROVE  BulkBatches(ids) \in Seq(SUBSET Radios) /\ WellOrdered(BulkBatches(ids))
<1> DEFINE aps == {d \in ids : Parent[d] = NoRadio}
           ap == SetToSeq(aps)
           n == Cardinality(aps)
           orphans == {d \in ids \ aps : Parent[d] \notin aps}
           b == BulkBatches(ids)
           stas(k) == Children(ap[k]) \cap ids
<1>1. IsFiniteSet(aps)
  BY FS_Subset
<1>2. n \in Nat /\ ap \in [1..n -> aps] /\ \A i, j \in 1..n : ap[i] = ap[j] => i = j
  BY <1>1, ListsOnce
<1>3. /\ b = [i \in 1..(2 * n + 1) |-> CASE i = 2 * n + 1 -> orphans
                                         [] i # 2 * n + 1 /\ i % 2 = 1 -> Children(ap[(i + 1) \div 2]) \cap ids
                                         [] i # 2 * n + 1 /\ i % 2 = 0 -> {ap[i \div 2]}]
  BY DEF BulkBatches
<1>4. /\ DOMAIN b = 1..(2 * n + 1) /\ b[2 * n + 1] = orphans
      /\ \A i \in DOMAIN b : i # 2 * n + 1 =>
           \E k \in 1..n : (i = 2 * k - 1 /\ b[i] = stas(k)) \/ (i = 2 * k /\ b[i] = {ap[k]})
  <2>1. DOMAIN b = 1..(2 * n + 1) /\ b[2 * n + 1] = orphans
    <3>1. 2 * n + 1 \in 1..(2 * n + 1)
      BY <1>2
    <3> HIDE DEF n, ap, orphans, b
    <3> QED BY <1>3, <3>1
  <2>2. ASSUME NEW i \in 1..(2 * n + 1), i # 2 * n + 1
        PROVE  \E k \in 1..n : (i = 2 * k - 1 /\ b[i] = stas(k)) \/ (i = 2 * k /\ b[i] = {ap[k]})
    <3>1. CASE i % 2 = 1
      <4>1. b[i] = stas((i + 1) \div 2)
        <5> HIDE DEF n, ap, orphans, b
        <5> QED BY <1>3, <2>2, <3>1
      <4>2. (i + 1) \div 2 \in 1..n /\ i = 2 * ((i + 1) \div 2) - 1
        <5> HIDE DEF n
        <5> QED BY <1>2, <2>2, <3>1, Places
      <4> HIDE DEF n, ap, b, stas
      <4> QED BY <4>1, <4>2
    <3>2. CASE i % 2 # 1
      <4>1. i % 2 = 0 /\ i \div 2 \in 1..n /\ i = 2 * (i \div 2)
        <5> HIDE DEF n
        <5> QED BY <1>2, <2>2, <3>2, Places
      <4>2. b[i] = {ap[i \div 2]}
        <5> HIDE DEF n, ap, orphans, b
        <5> QED BY <1>3, <2>2, <3>2, <4>1
      <4> HIDE DEF n, ap, b, stas
      <4> QED BY <4>1, <4>2
    <3> QED BY <3>1, <3>2
  <2> QED BY <2>1, <2>2
<1>5. /\ orphans \subseteq Radios /\ \A k \in 1..n : stas(k) \subseteq Radios /\ ap[k] \in aps /\ ap[k] \in Radios
      /\ \A d \in orphans : Parent[d] # NoRadio /\ Parent[d] \notin aps
      /\ \A k \in 1..n : \A d \in stas(k) : Parent[d] = ap[k]
      /\ \A k \in 1..n : Parent[ap[k]] = NoRadio
  BY <1>2 DEF Children
<1>6. b \in Seq(SUBSET Radios)
  <2> HIDE DEF n, ap, orphans, b, stas, aps
  <2>1. ASSUME NEW i \in DOMAIN b PROVE b[i] \in SUBSET Radios
    BY <1>4, <1>5
  <2> DEFINE place(i) == CASE i = 2 * n + 1 -> orphans
                           [] i # 2 * n + 1 /\ i % 2 = 1 -> Children(ap[(i + 1) \div 2]) \cap ids
                           [] i # 2 * n + 1 /\ i % 2 = 0 -> {ap[i \div 2]}
  <2>2. b = [i \in 1..(2 * n + 1) |-> place(i)]
    BY <1>3, Zenon
  <2> HIDE DEF place
  <2>3. 2 * n + 1 \in Nat /\ \A i \in 1..(2 * n + 1) : place(i) \in SUBSET Radios
    BY <1>2, <2>1, <2>2
  <2> DEFINE m == 2 * n + 1
  <2> HIDE DEF m
  <2>4. m \in Nat /\ (\A i \in 1..m : place(i) \in SUBSET Radios) /\ b = [i \in 1..m |-> place(i)]
    BY <2>2, <2>3 DEF m
  <2> QED BY <2>4
<1>7. WellOrdered(b)
  <2> HIDE DEF n, ap, orphans, b, stas, aps
  <2> SUFFICES ASSUME NEW i \in DOMAIN b, NEW j \in DOMAIN b, i <= j, NEW d \in b[i] \cap Radios, NEW s \in Children(d)
               PROVE  s \notin b[j]
    BY DEF WellOrdered
  <2>1. Parent[d] = NoRadio /\ d # NoRadio /\ Parent[s] = d /\ Parent[s] # NoRadio
    BY TwoLevels
  <2>2. PICK k \in 1..n : i = 2 * k /\ d = ap[k]
    <3>1. i # 2 * n + 1
      BY <1>4, <1>5, <2>1
    <3>2. PICK k \in 1..n : (i = 2 * k - 1 /\ b[i] = stas(k)) \/ (i = 2 * k /\ b[i] = {ap[k]})
      BY <1>4, <3>1
    <3>3. ~(d \in stas(k))
      BY <1>5, <2>1, ParentsAssumption
    <3> QED BY <3>2, <3>3
  <2>3. CASE j = 2 * n + 1
    BY <1>4, <1>5, <2>1, <2>2, <2>3
  <2>4. CASE j # 2 * n + 1
    <3>1. PICK m \in 1..n : (j = 2 * m - 1 /\ b[j] = stas(m)) \/ (j = 2 * m /\ b[j] = {ap[m]})
      BY <1>4, <2>4
    <3>2. CASE j = 2 * m - 1 /\ b[j] = stas(m)
      <4>1. m # k
        BY <1>2, <2>2, <3>2
      <4>2. ap[m] # ap[k]
        BY <1>2, <4>1
      <4> QED BY <1>5, <2>1, <2>2, <3>2, <4>2
    <3>3. CASE j = 2 * m /\ b[j] = {ap[m]}
      BY <1>5, <2>1, <3>3
    <3> QED BY <3>1, <3>2, <3>3
  <2> QED BY <2>3, <2>4
<1> QED BY <1>6, <1>7

(* Every order has its batches in order.                                   *)
LEMMA EveryOrder ==
    ASSUME NEW r \in Requests, NEW o \in Orders[r]
    PROVE  BatchesOf(o) \in Seq(SUBSET Radios) /\ WellOrdered(BatchesOf(o))
<1>1. CASE o.kind = "bulk"
  <2>1. BatchesOf(o) = BulkBatches(o.ids)
    BY <1>1 DEF BatchesOf
  <2> QED BY <2>1, BulkOrdered, OrdersAssumption
<1>2. CASE o.kind # "bulk"
  <2>1. PICK ap \in Radios : o.ids = {ap}
    BY <1>2, OrdersAssumption
  <2>2. CASE o.kind = "fanout"
    <3>1. BatchesOf(o) = <<Children(ap), {ap}>>
      BY <2>1, <2>2 DEF BatchesOf, FanoutBatches
    <3>2. <<Children(ap), {ap}>> \in Seq(SUBSET Radios)
      BY DEF Children
    <3>3. WellOrdered(<<Children(ap), {ap}>>)
      <4> SUFFICES ASSUME NEW i \in {1, 2}, NEW j \in {1, 2}, i <= j,
                          NEW d \in <<Children(ap), {ap}>>[i] \cap Radios, NEW s \in Children(d)
                   PROVE  s \notin <<Children(ap), {ap}>>[j]
        BY DEF WellOrdered
      <4>1. CASE i = 1
        BY <4>1, TwoLevels DEF Children
      <4>2. CASE i = 2
        BY <4>2, TwoLevels
      <4> QED BY <4>1, <4>2
    <3> QED BY <3>1, <3>2, <3>3
  <2>3. CASE o.kind # "fanout"
    <3>1. BatchesOf(o) = <<{ap}>>
      BY <1>2, <2>1, <2>3 DEF BatchesOf
    <3>2. <<{ap}>> \in Seq(SUBSET Radios)
      OBVIOUS
    <3>3. WellOrdered(<<{ap}>>)
      BY TwoLevels DEF WellOrdered
    <3> QED BY <3>1, <3>2, <3>3
  <2> QED BY <2>2, <2>3
<1> QED BY <1>1, <1>2

(* A step that starts no task: a task changes only while it is active.     *)
StartsNothing ==
    \A q \in Requests, e \in Radios : task'[q][e] = task[q][e] \/ (Active(q, e) /\ task'[q][e].pc # "none")

(* Such a step leaves the access points waiting.                           *)
LEMMA OrderKept == ASSUME OrderInv, StartsNothing, UNCHANGED batches PROVE OrderInv'
<1>1. \A q \in Requests, e \in Radios : (Active(q, e)' => Active(q, e)) /\ (task'[q][e].pc # "none" => task[q][e].pc # "none")
  BY DEF StartsNothing, Active
<1>2. ApAfterStations'
  <2>1. ApAfterStations
    BY DEF OrderInv
  <2>2. \A d : Children(d) \subseteq Radios
    BY DEF Children
  <2> QED BY <1>1, <2>1, <2>2 DEF ApAfterStations
<1> QED BY <1>2 DEF OrderInv

(* A step of one task starts nothing.                                      *)
LEMMA MovesOne ==
    ASSUME NEW r \in Requests, NEW d \in Radios, Active(r, d), OthersKept(r, d), task'[r][d].pc # "none"
    PROVE  StartsNothing
BY DEF OthersKept, StartsNothing

(* A login that works is a step of one task.                               *)
GotIn(r, d, p) == task' = [task EXCEPT ![r][d] = [@ EXCEPT !.pc = "upload", !.pair = p]]

(* It moves the task to the upload.                                        *)
LEMMA LoginMoves ==
    ASSUME Fields, NEW r \in Requests, NEW d \in Radios, NEW p, GotIn(r, d, p)
    PROVE  OthersKept(r, d) /\ task'[r][d].pc = "upload"
<1> DEFINE t == [task[r][d] EXCEPT !.pc = "upload", !.pair = p]
<1>1. DOMAIN t = TaskFields /\ t.pc = "upload"
  BY DEF Fields, TaskFields
<1>2. task' = [task EXCEPT ![r] = [task[r] EXCEPT ![d] = t]]
  BY DEF Fields, GotIn
<1> HIDE DEF t
<1>3. OthersKept(r, d) /\ task'[r][d] = t
  BY <1>1, <1>2, TaskReplaced
<1> QED BY <1>1, <1>3

(* The steps of a task start nothing.                                      *)
LEMMA TaskStartsNothing ==
    ASSUME Fields, NEW r \in Requests, NEW d \in Radios,
           TaskStep(r, d) \/ GiveUp(r, d) \/ Loses(r, d) \/ LosesWrite(r, d)
    PROVE  StartsNothing /\ UNCHANGED batches
<1>g. ASSUME NEW pc, pc # "none", Active(r, d), Goto(r, d, pc) PROVE StartsNothing
  BY <1>g, GotoMoves, MovesOne
<1>e. ASSUME NEW res, Active(r, d), Ends(r, d, res) PROVE StartsNothing
  <2>1. OthersKept(r, d) /\ task'[r][d].pc \in {"record", "done"}
    BY <1>e, EndsMoves
  <2> QED BY <1>e, <2>1, MovesOne
<1>1. CASE Prepare(r, d)
  <2>1. Active(r, d) /\ UNCHANGED batches
    BY <1>1 DEF Prepare, Active
  <2>2. (\E res : Ends(r, d, res)) \/ \E f, p : Prepared(r, d, f, p)
    BY <1>1 DEF Prepare, Prepared
  <2>3. ASSUME NEW f, NEW p, Prepared(r, d, f, p) PROVE StartsNothing
    BY <2>1, <2>3, PreparedMoves, MovesOne
  <2> QED BY <1>e, <2>1, <2>2, <2>3
<1>2. CASE Login(r, d)
  <2>1. Active(r, d) /\ UNCHANGED batches
    BY <1>2 DEF Login, Active
  <2>2. CASE \E res : Ends(r, d, res)
    BY <1>e, <2>1, <2>2
  <2>3. CASE GotIn(r, d, radio[d].accepts)
    <3>1. OthersKept(r, d) /\ task'[r][d].pc = "upload"
      BY <2>3, LoginMoves
    <3> QED BY <2>1, <3>1, MovesOne
  <2> QED BY <1>2, <2>2, <2>3 DEF Login, GotIn
<1>3. CASE Upload(r, d) \/ UpgradeFirmware(r, d)
  <2>1. Active(r, d) /\ UNCHANGED batches
    BY <1>3 DEF Upload, UpgradeFirmware, Active
  <2>2. (\E res : Ends(r, d, res)) \/ Goto(r, d, "wait") \/ Goto(r, d, "act")
    BY <1>3 DEF Upload, UpgradeFirmware
  <2> QED BY <1>g, <1>e, <2>1, <2>2
<1>4. CASE waitForUpgrade(r, d) \/ GiveUp(r, d)
  <2>1. Active(r, d) /\ UNCHANGED batches
    BY <1>4 DEF waitForUpgrade, GiveUp, Active
  <2>2. (\E res : Ends(r, d, res)) \/ Goto(r, d, "act")
    BY <1>4 DEF waitForUpgrade, GiveUp
  <2> QED BY <1>g, <1>e, <2>1, <2>2
<1>5. CASE Act(r, d)
  <2>1. Active(r, d) /\ UNCHANGED batches
    BY <1>5 DEF Act, Active
  <2>2. \E res : Ends(r, d, res)
    BY <1>5 DEF Act, TriggerFlash
  <2> QED BY <1>e, <2>1, <2>2
<1>6. CASE Record(r, d)
  <2>1. Active(r, d) /\ UNCHANGED batches
    BY <1>6 DEF Record, Active
  <2>2. Goto(r, d, "store") \/ Goto(r, d, "done")
    BY <1>6 DEF Record
  <2> QED BY <1>g, <2>1, <2>2
<1>7. CASE StoreTyped(r, d) \/ LosesWrite(r, d)
  <2>1. Active(r, d) /\ UNCHANGED batches
    BY <1>7 DEF StoreTyped, LosesWrite, Active
  <2>2. Goto(r, d, "done")
    BY <1>7 DEF StoreTyped, LosesWrite
  <2> QED BY <1>g, <2>1, <2>2
<1>8. CASE ConfigLogin(r, d) \/ ConfigPatch(r, d) \/ ConfigPersist(r, d)
  <2>1. Active(r, d) /\ UNCHANGED batches
    BY <1>8 DEF ConfigLogin, ConfigPatch, ConfigPersist, Active
  <2>2. (\E res : Ends(r, d, res)) \/ Goto(r, d, "patch") \/ Goto(r, d, "persist")
    BY <1>8 DEF ConfigLogin, ConfigPatch, ConfigPersist
  <2> QED BY <1>g, <1>e, <2>1, <2>2
<1>9. CASE Loses(r, d)
  <2>1. Active(r, d) /\ UNCHANGED batches
    BY <1>9 DEF Loses, Active
  <2>2. \E res : Ends(r, d, res)
    BY <1>9 DEF Loses
  <2> QED BY <1>e, <2>1, <2>2
<1> QED BY <1>1, <1>2, <1>3, <1>4, <1>5, <1>6, <1>7, <1>8, <1>9 DEF TaskStep

(* A request comes in with its batches in order, and no task.              *)
LEMMA BeginOrdered == ASSUME FwInv, OrderInv, NEW r \in Requests, Begin(r) PROVE OrderInv'
<1>1. PICK o \in Orders[r] : batches' = [batches EXCEPT ![r] = BatchesOf(o)]
  BY DEF Begin
<1>2. DOMAIN batches = Requests /\ UNCHANGED task /\ \A d \in Radios : task[r][d].pc = "none"
  BY DEF Begin, FwInv, Fields, Ordered
<1>3. batches'[r] = BatchesOf(o) /\ \A q \in Requests \ {r} : batches'[q] = batches[q]
  BY <1>1, <1>2
<1>4. BatchesOf(o) \in Seq(SUBSET Radios) /\ WellOrdered(BatchesOf(o))
  BY EveryOrder
<1>5. Len(BatchesOf(o)) \in Nat
  BY <1>4
<1>6. \A q \in Requests : Len(batches'[q]) \in Nat /\ batches'[q] \in Seq(SUBSET Radios) /\ WellOrdered(batches'[q])
  BY <1>3, <1>4, <1>5 DEF OrderInv
<1>7. ApAfterStations'
  <2>1. ApAfterStations
    BY DEF OrderInv
  <2> QED BY <1>2, <1>3, <2>1 DEF ApAfterStations, Active
<1> QED BY <1>6, <1>7 DEF OrderInv, WellOrdered

(* The rest of batches in order is in order.                               *)
LEMMA RestOrdered ==
    ASSUME NEW b \in Seq(SUBSET Radios), b # <<>>, WellOrdered(b)
    PROVE  /\ Tail(b) \in Seq(SUBSET Radios) /\ WellOrdered(Tail(b)) /\ Len(Tail(b)) \in Nat
           /\ Head(b) \subseteq Radios
           /\ \A i \in DOMAIN Tail(b) : i + 1 \in DOMAIN b /\ Tail(b)[i] = b[i + 1]
           /\ \A d \in Head(b) : \A s \in Children(d) :
                s \notin Head(b) /\ \A i \in DOMAIN Tail(b) : s \notin Tail(b)[i]
<1>1. 1 \in DOMAIN b /\ Head(b) = b[1] /\ Head(b) \subseteq Radios
  OBVIOUS
<1>2. Tail(b) \in Seq(SUBSET Radios) /\ Len(Tail(b)) \in Nat
  OBVIOUS
<1>3. \A i \in DOMAIN Tail(b) : i \in Nat /\ 1 <= i + 1 /\ i + 1 \in DOMAIN b /\ Tail(b)[i] = b[i + 1]
  OBVIOUS
<1>4. WellOrdered(Tail(b))
  <2> SUFFICES ASSUME NEW i \in DOMAIN Tail(b), NEW j \in DOMAIN Tail(b), i <= j
               PROVE  \A d \in Tail(b)[i] \cap Radios : \A s \in Children(d) : s \notin Tail(b)[j]
    BY DEF WellOrdered
  <2>1. i + 1 \in DOMAIN b /\ j + 1 \in DOMAIN b /\ i + 1 <= j + 1
    BY <1>3
  <2> QED BY <1>3, <2>1 DEF WellOrdered
<1>5. ASSUME NEW d \in Head(b), NEW s \in Children(d) PROVE s \notin Head(b) /\ \A i \in DOMAIN Tail(b) : s \notin Tail(b)[i]
  BY <1>1, <1>3, <1>5 DEF WellOrdered
<1> QED BY <1>1, <1>2, <1>3, <1>4, <1>5

(* A batch starts: the stations of its radios are in none that follows.    *)
LEMMA NextBatchOrdered == ASSUME FwInv, OrderInv, NEW r \in Requests, NextBatch(r) PROVE OrderInv'
<1> DEFINE head == Head(batches[r])
           rest == Tail(batches[r])
<1>1. /\ DOMAIN batches = Requests /\ DOMAIN task = Requests /\ ApAfterStations
      /\ batches[r] \in Seq(SUBSET Radios) /\ batches[r] # <<>> /\ WellOrdered(batches[r])
      /\ \A d \in Radios : ~Active(r, d)
  BY DEF NextBatch, OrderInv, FwInv, Fields
<1>2. /\ batches'[r] = rest /\ \A q \in Requests \ {r} : batches'[q] = batches[q] /\ task'[q] = task[q]
      /\ \A d \in Radios \ head : task'[r][d] = task[r][d]
  BY <1>1 DEF NextBatch
<1>3. /\ rest \in Seq(SUBSET Radios) /\ WellOrdered(rest) /\ Len(rest) \in Nat
      /\ \A i \in DOMAIN rest : i + 1 \in DOMAIN batches[r] /\ rest[i] = batches[r][i + 1]
      /\ \A d \in head : \A s \in Children(d) : s \notin head /\ \A i \in DOMAIN rest : s \notin rest[i]
  BY <1>1, RestOrdered
<1>4. 1 \in DOMAIN batches[r] /\ head = batches[r][1]
  BY <1>1
<1> HIDE DEF head, rest
<1>5. ASSUME NEW d \in Radios, task'[r][d].pc # "none", NEW s \in Children(d)
      PROVE  s \in Radios /\ s \notin head /\ \A i \in DOMAIN rest : s \notin rest[i]
  <2>0. s \in Radios
    BY DEF Children
  <2>1. CASE d \in head
    BY <1>3, <2>0, <2>1
  <2>2. CASE d \notin head
    <3>1. \A i \in DOMAIN batches[r] : s \notin batches[r][i]
      BY <1>1, <1>2, <1>5, <2>2 DEF ApAfterStations
    <3> QED BY <1>3, <1>4, <2>0, <3>1
  <2> QED BY <2>1, <2>2
<1>6. ApAfterStations'
  <2> SUFFICES ASSUME NEW q \in Requests, NEW d \in Radios, task'[q][d].pc # "none", NEW s \in Children(d)
               PROVE  ~Active(q, s)' /\ \A i \in DOMAIN batches'[q] : s \notin batches'[q][i]
    BY DEF ApAfterStations, Children
  <2>1. CASE q = r
    <3>1. s \in Radios /\ s \notin head /\ \A i \in DOMAIN rest : s \notin rest[i]
      BY <1>5, <2>1
    <3> QED BY <1>1, <1>2, <2>1, <3>1 DEF Active
  <2>2. CASE q # r
    BY <1>1, <1>2, <2>2 DEF ApAfterStations, Active
  <2> QED BY <2>1, <2>2
<1>7. \A q \in Requests : Len(batches'[q]) \in Nat /\ batches'[q] \in Seq(SUBSET Radios) /\ WellOrdered(batches'[q])
  BY <1>2, <1>3 DEF OrderInv
<1> QED BY <1>6, <1>7 DEF OrderInv, WellOrdered

(* Every step keeps the order.                                             *)
LEMMA OrderStep == FwInv /\ OrderInv /\ [UpgradeNext]_fwVars => OrderInv'
<1> SUFFICES ASSUME FwInv, OrderInv, [UpgradeNext]_fwVars PROVE OrderInv'
  OBVIOUS
<1>1. ASSUME UNCHANGED <<task, batches>> PROVE OrderInv'
  BY <1>1, OrderKept DEF StartsNothing
<1>2. ASSUME NEW r \in Requests, NEW d \in Radios, TaskStep(r, d) \/ GiveUp(r, d) \/ Loses(r, d) \/ LosesWrite(r, d)
      PROVE  OrderInv'
  <2>1. Fields
    BY DEF FwInv
  <2> QED BY <1>2, <2>1, TaskStartsNothing, OrderKept
<1>3. ASSUME NEW r \in Requests, Cancel(r) PROVE OrderInv'
  BY <1>1, <1>3 DEF Cancel
<1>4. ASSUME NEW d \in Radios, Verify(d) \/ AutoReboot(d) \/ RebootDevice(d) \/ PollRow(d) PROVE OrderInv'
  BY <1>1, <1>4 DEF Verify, AutoReboot, RebootDevice, PollRow
<1>5. ASSUME NEW f, DeleteFile(f) PROVE OrderInv'
  BY <1>1, <1>5 DEF DeleteFile
<1>6. CASE UNCHANGED fwVars
  BY <1>1, <1>6 DEF fwVars
<1> QED BY <1>2, <1>3, <1>4, <1>5, <1>6, BeginOrdered, NextBatchOrdered DEF UpgradeNext

-----------------------------------------------------------------------------
(***************************************************************************)
(* The bulk controller.  The tokens in the channel count the operations that *)
(* hold one until the channel is replaced; the inner semaphore is counted by *)
(* its holders; and the access point begins when its stations are over.    *)
(***************************************************************************)
OpType == [pc : {"idle", "inner", "global", "op", "backoff", "release", "done"},
           chan : Nat, tries : Nat, res : {"none", "success", "failed", "skipped"}]

BulkTypes ==
    /\ bjob \in [BulkJobs -> {"new", "open", "waiting", "ap", "ended"}]
    /\ DOMAIN launched = BulkJobs
    /\ DOMAIN bop = BulkJobs /\ \A j \in BulkJobs : bop[j] \in [Devices(j) -> OpType]
    /\ tokens \in Seq(Nat) /\ Len(tokens) \in Nat \ {0}

(* An operation waits for a channel that exists.                           *)
OnChannel ==
    \A j \in BulkJobs : \A d \in Devices(j) : Pc(j, d) = "global" => bop[j][d].chan \in DOMAIN tokens

(* As long as there is one channel its tokens count their holders.         *)
GlobalInv == Len(tokens) = 1 => tokens[1] <= GlobalCap /\ tokens[1] = Cardinality(TokenHolders)

(* The operation on the access point begins when those on its stations are *)
(* over, and they stay over.                                               *)
JobInv(j) ==
    /\ Cardinality(Holding(j)) <= InnerCap
    /\ Ap[j] # NoAp /\ Pc(j, Ap[j]) # "idle" => bjob[j] \in {"ap", "ended"} /\ Over(j)
    /\ bjob[j] = "ap" => Ap[j] # NoAp /\ Over(j) /\ EnoughStations(j)
    /\ \A d \in Ops[j] \ launched[j] : Pc(j, d) = "idle"

BulkInv == BulkTypes /\ OnChannel /\ GlobalInv /\ \A j \in BulkJobs : JobInv(j)

Pairs == UNION {{<<j, d>> : d \in Devices(j)} : j \in BulkJobs}
HoldsToken == {"op", "backoff", "release"}
HoldsInner == {"global", "op", "backoff", "release"}

(* The operations are finitely many.                                       *)
LEMMA FiniteOps ==
  /\ \A j \in BulkJobs : IsFiniteSet(Ops[j]) /\ IsFiniteSet(Devices(j)) /\ IsFiniteSet(Holding(j))
  /\ IsFiniteSet(TokenHolders)
<1>1. ASSUME NEW j \in BulkJobs
      PROVE  IsFiniteSet(Ops[j]) /\ IsFiniteSet(Devices(j)) /\ IsFiniteSet(Holding(j))
  <2>1. IsFiniteSet(Ops[j])
    BY BulkAssumption
  <2>2. IsFiniteSet({Ap[j]} \ {NoAp})
    BY FS_Singleton, FS_Subset
  <2>3. IsFiniteSet(Devices(j))
    BY <2>1, <2>2, FS_Union DEF Devices
  <2> QED BY <2>1, <2>3, FS_Subset DEF Holding
<1> DEFINE Sets == {Devices(j) : j \in BulkJobs}
           All == UNION Sets
           f == [j \in BulkJobs |-> Devices(j)]
<1>2. IsFiniteSet(All)
  <2>1. f \in Surjection(BulkJobs, Sets)
    BY DEF Surjection
  <2>2. IsFiniteSet(Sets)
    BY <2>1, BulkAssumption, FS_Surjection
  <2> QED BY <1>1, <2>2, FS_UNION
<1>3. IsFiniteSet(BulkJobs \X All)
  BY <1>2, BulkAssumption, FS_Product
<1>4. TokenHolders \subseteq BulkJobs \X All
  BY DEF TokenHolders
<1> QED BY <1>1, <1>3, <1>4, FS_Subset

(* One operation changes.                                                  *)
OneOp(j, d, new) ==
    /\ bop'[j][d] = new
    /\ \A i \in BulkJobs : \A e \in Devices(i) : <<i, e>> # <<j, d>> => bop'[i][e] = bop[i][e]

(* One operation of one job is replaced.                                   *)
LEMMA OpReplaced ==
  ASSUME BulkTypes, NEW j \in BulkJobs, NEW d \in Devices(j), NEW new \in OpType,
         bop' = [bop EXCEPT ![j][d] = new]
  PROVE  /\ OneOp(j, d, new)
         /\ DOMAIN bop' = BulkJobs
         /\ \A i \in BulkJobs : bop'[i] \in [Devices(i) -> OpType]
BY DEF BulkTypes, OneOp

(* How a step of one operation moves it into and out of the two sets.      *)
LEMMA OpMoves ==
  ASSUME BulkTypes, NEW j \in BulkJobs, NEW d \in Devices(j), NEW new \in OpType, OneOp(j, d, new)
  PROVE  /\ new.pc \in HoldsToken => TokenHolders' = TokenHolders \cup {<<j, d>>}
         /\ new.pc \notin HoldsToken => TokenHolders' = TokenHolders \ {<<j, d>>}
         /\ Pc(j, d) \in HoldsToken <=> <<j, d>> \in TokenHolders
         /\ d \in Ops[j] /\ new.pc \in HoldsInner => Holding(j)' = Holding(j) \cup {d}
         /\ d \notin Ops[j] \/ new.pc \notin HoldsInner => Holding(j)' = Holding(j) \ {d}
         /\ \A i \in BulkJobs \ {j} : Holding(i)' = Holding(i)
<1>1. \A x \in Pairs : \E i \in BulkJobs : \E e \in Devices(i) : x = <<i, e>>
  BY DEF Pairs
<1>2. \A i \in BulkJobs : \A e \in Devices(i) : <<i, e>> \in Pairs
  BY DEF Pairs
<1>3. ASSUME NEW x \in Pairs, x # <<j, d>> PROVE bop'[x[1]][x[2]] = bop[x[1]][x[2]]
  BY <1>1, <1>3 DEF OneOp
<1>4. TokenHolders = {x \in Pairs : bop[x[1]][x[2]].pc \in HoldsToken}
  BY DEF TokenHolders, Pairs, HoldsToken, Pc
<1>5. TokenHolders' = {x \in Pairs : bop'[x[1]][x[2]].pc \in HoldsToken}
  BY DEF TokenHolders, Pairs, HoldsToken, Pc, Devices
<1>6. bop'[j][d].pc = new.pc /\ <<j, d>> \in Pairs /\ <<j, d>>[1] = j /\ <<j, d>>[2] = d
  BY <1>2 DEF OneOp
<1>7. new.pc \in HoldsToken => TokenHolders' = TokenHolders \cup {<<j, d>>}
  BY <1>3, <1>4, <1>5, <1>6
<1>8. new.pc \notin HoldsToken => TokenHolders' = TokenHolders \ {<<j, d>>}
  BY <1>3, <1>4, <1>5, <1>6
<1>9. Pc(j, d) \in HoldsToken <=> <<j, d>> \in TokenHolders
  BY <1>4, <1>6 DEF Pc
<1>10. \A i \in BulkJobs : Holding(i) = {e \in Ops[i] : bop[i][e].pc \in HoldsInner}
  BY DEF Holding, HoldsInner, Pc
<1>11. \A i \in BulkJobs : Holding(i)' = {e \in Ops[i] : bop'[i][e].pc \in HoldsInner}
  BY DEF Holding, HoldsInner, Pc
<1>12. \A i \in BulkJobs : \A e \in Ops[i] : e \in Devices(i) /\ (<<i, e>> = <<j, d>> \/ bop'[i][e] = bop[i][e])
  BY DEF OneOp, Devices
<1>13. ASSUME NEW i \in BulkJobs \ {j} PROVE Holding(i)' = Holding(i)
  <2>1. \A e \in Ops[i] : bop'[i][e] = bop[i][e]
    BY <1>12
  <2>2. Holding(i) = {e \in Ops[i] : bop[i][e].pc \in HoldsInner}
    BY <1>10
  <2>3. Holding(i)' = {e \in Ops[i] : bop'[i][e].pc \in HoldsInner}
    BY <1>11
  <2> QED BY <2>1, <2>2, <2>3
<1>14. \A e \in Ops[j] : e # d => bop'[j][e] = bop[j][e]
  BY <1>12
<1>15. d \in Ops[j] /\ new.pc \in HoldsInner => Holding(j)' = Holding(j) \cup {d}
  BY <1>6, <1>10, <1>11, <1>14
<1>16. d \notin Ops[j] \/ new.pc \notin HoldsInner => Holding(j)' = Holding(j) \ {d}
  BY <1>6, <1>10, <1>11, <1>14
<1> QED BY <1>7, <1>8, <1>9, <1>13, <1>15, <1>16

(* The operations of a job that takes no step.                             *)
LEMMA OtherJob ==
  ASSUME NEW i \in BulkJobs, \A e \in Devices(i) : bop'[i][e] = bop[i][e], bjob'[i] = bjob[i],
         launched'[i] = launched[i], JobInv(i)
  PROVE  JobInv(i)'
<1>1. \A e \in Ops[i] : bop'[i][e] = bop[i][e]
  BY DEF Devices
<1>2. Ap[i] # NoAp => bop'[i][Ap[i]] = bop[i][Ap[i]]
  BY DEF Devices
<1>3. Holding(i)' = Holding(i) /\ Succeeded(i)' = Succeeded(i) /\ (Over(i)' <=> Over(i))
  BY <1>1 DEF Holding, Succeeded, Over, Pc
<1>4. (Ap[i] # NoAp /\ Pc(i, Ap[i]) # "idle")' => Ap[i] # NoAp /\ Pc(i, Ap[i]) # "idle"
  BY <1>2 DEF Pc
<1> QED BY <1>1, <1>3, <1>4 DEF JobInv, EnoughStations, Pc

(* What a step of an operation does to its own job: it is under way, and   *)
(* has not entered the inner semaphore unless there was room.              *)
LEMMA OwnJob ==
  ASSUME BulkInv, NEW j \in BulkJobs, NEW d \in Devices(j), NEW new \in OpType, OneOp(j, d, new),
         Pc(j, d) \notin {"idle", "done"}, bjob' = bjob, launched' = launched,
         d \in Ops[j] /\ new.pc \in HoldsInner
           => Pc(j, d) \in HoldsInner \/ Cardinality(Holding(j)) < InnerCap
  PROVE  \A i \in BulkJobs : JobInv(i)'
<1>0. BulkTypes /\ \A i \in BulkJobs : JobInv(i)
  BY DEF BulkInv
<1>1. ASSUME NEW i \in BulkJobs \ {j} PROVE JobInv(i)'
  <2>1. \A e \in Devices(i) : bop'[i][e] = bop[i][e]
    BY DEF OneOp
  <2> QED BY <1>0, <2>1, OtherJob
<1>2. Cardinality(Holding(j)') <= InnerCap
  <2>0. Cardinality(Holding(j)) \in Nat /\ IsFiniteSet(Holding(j)) /\ Cardinality(Holding(j)) <= InnerCap
    BY <1>0, FiniteOps, FS_CardinalityType DEF JobInv
  <2>1. CASE d \in Ops[j] /\ new.pc \in HoldsInner
    <3>1. Holding(j)' = Holding(j) \cup {d}
      BY <1>0, <2>1, OpMoves
    <3>2. CASE d \in Holding(j)
      BY <2>0, <3>1, <3>2
    <3>3. CASE d \notin Holding(j)
      <4>1. Cardinality(Holding(j)) < InnerCap
        BY <2>1, <3>3 DEF Holding, HoldsInner
      <4>2. Cardinality(Holding(j) \cup {d}) = Cardinality(Holding(j)) + 1
        BY <2>0, <3>3, FS_AddElement
      <4> QED BY <2>0, <3>1, <4>1, <4>2, BulkAssumption
    <3> QED BY <3>2, <3>3
  <2>2. CASE ~(d \in Ops[j] /\ new.pc \in HoldsInner)
    <3>1. Holding(j)' = Holding(j) \ {d}
      BY <1>0, <2>2, OpMoves
    <3>2. Cardinality(Holding(j) \ {d}) <= Cardinality(Holding(j)) /\ Cardinality(Holding(j) \ {d}) \in Nat
      BY <2>0, FS_Subset, FS_CardinalityType
    <3> QED BY <2>0, <3>1, <3>2, BulkAssumption
  <2> QED BY <2>1, <2>2
<1>3. Ap[j] # NoAp => Ap[j] \in Devices(j) /\ Ap[j] \notin Ops[j]
  BY BulkAssumption DEF Devices
<1>a. \A e \in Ops[j] \ launched[j] : bop'[j][e].pc = "idle"
  <2>1. \A e \in Ops[j] \ launched[j] : e # d /\ e \in Devices(j) /\ Pc(j, e) = "idle"
    BY <1>0 DEF JobInv, Devices
  <2> QED BY <2>1 DEF OneOp, Pc
<1>4. CASE d \in Ops[j]
  <2>1. ~Over(j) /\ bjob[j] # "ap"
    BY <1>0, <1>4 DEF Over, JobInv
  <2>2. Ap[j] # NoAp => bop'[j][Ap[j]] = bop[j][Ap[j]] /\ Pc(j, Ap[j]) = "idle"
    BY <1>0, <1>3, <1>4, <2>1 DEF OneOp, JobInv
  <2>3. JobInv(j)'
    BY <1>2, <1>a, <2>1, <2>2 DEF JobInv, Pc
  <2> QED BY <1>1, <2>3
<1>5. CASE d \notin Ops[j]
  <2>1. d = Ap[j] /\ Ap[j] # NoAp
    BY <1>5 DEF Devices
  <2>2. \A e \in Ops[j] : bop'[j][e] = bop[j][e]
    BY <1>5 DEF OneOp, Devices
  <2>3. Succeeded(j)' = Succeeded(j) /\ (Over(j)' <=> Over(j))
    BY <2>2 DEF Succeeded, Over, Pc
  <2>4. bjob[j] \in {"ap", "ended"} /\ Over(j)
    BY <1>0, <2>1 DEF JobInv
  <2>5. JobInv(j)'
    BY <1>0, <1>2, <1>a, <2>1, <2>3, <2>4 DEF JobInv, EnoughStations, Pc
  <2> QED BY <1>1, <2>5
<1> QED BY <1>4, <1>5

(* An operation that neither takes nor gives back a token.                 *)
LEMMA TokensStay ==
  ASSUME BulkInv, NEW j \in BulkJobs, NEW d \in Devices(j), NEW new \in OpType,
         bop' = [bop EXCEPT ![j][d] = new], tokens' = tokens, DOMAIN launched' = BulkJobs,
         bjob' \in [BulkJobs -> {"new", "open", "waiting", "ap", "ended"}],
         new.pc \in HoldsToken <=> Pc(j, d) \in HoldsToken,
         new.pc = "global" => new.chan \in DOMAIN tokens,
         \A i \in BulkJobs : JobInv(i)'
  PROVE  BulkInv'
<1>1. /\ OneOp(j, d, new) /\ DOMAIN bop' = BulkJobs
      /\ \A i \in BulkJobs : bop'[i] \in [Devices(i) -> OpType]
  BY OpReplaced DEF BulkInv
<1>2. BulkTypes'
  <2>1. \A i \in BulkJobs : bop'[i] \in [Devices(i)' -> OpType']
    BY <1>1 DEF Devices, OpType
  <2> QED BY <1>1, <2>1 DEF BulkInv, BulkTypes
<1>3. TokenHolders' = TokenHolders
  <2>0. BulkTypes
    BY DEF BulkInv
  <2>a. /\ new.pc \in HoldsToken => TokenHolders' = TokenHolders \cup {<<j, d>>}
        /\ new.pc \notin HoldsToken => TokenHolders' = TokenHolders \ {<<j, d>>}
        /\ new.pc \in HoldsToken <=> <<j, d>> \in TokenHolders
    BY <1>1, <2>0, OpMoves
  <2>1. CASE new.pc \in HoldsToken
    BY <2>a, <2>1
  <2>2. CASE new.pc \notin HoldsToken
    BY <2>a, <2>2
  <2> QED BY <2>1, <2>2
<1>4. OnChannel'
  <2> SUFFICES ASSUME NEW i \in BulkJobs, NEW e \in Devices(i), bop'[i][e].pc = "global"
               PROVE  bop'[i][e].chan \in DOMAIN tokens
    BY DEF OnChannel, Pc, Devices
  <2>1. CASE <<i, e>> = <<j, d>>
    BY <1>1, <2>1 DEF OneOp
  <2>2. CASE <<i, e>> # <<j, d>>
    BY <1>1, <2>2 DEF OneOp, BulkInv, OnChannel, Pc
  <2> QED BY <2>1, <2>2
<1> QED BY <1>2, <1>3, <1>4 DEF BulkInv, GlobalInv

(* An operation that takes a token of its channel, or gives one back to    *)
(* the current one.                                                        *)
LEMMA TokensMove ==
  ASSUME BulkInv, NEW j \in BulkJobs, NEW d \in Devices(j), NEW new \in OpType,
         bop' = [bop EXCEPT ![j][d] = new], UNCHANGED <<bjob, launched>>,
         new.pc # "global",
         \/ /\ new.pc = "op" /\ Pc(j, d) = "global" /\ tokens[bop[j][d].chan] < GlobalCap
            /\ tokens' = [tokens EXCEPT ![bop[j][d].chan] = @ + 1]
         \/ /\ new.pc = "done" /\ Pc(j, d) = "release" /\ tokens[Len(tokens)] > 0
            /\ tokens' = [tokens EXCEPT ![Len(tokens)] = @ - 1]
  PROVE  BulkInv'
<1>0. /\ BulkTypes /\ OnChannel /\ GlobalInv
      /\ Len(tokens) \in Nat \ {0} /\ DOMAIN tokens = 1..Len(tokens)
      /\ \A c \in DOMAIN tokens : tokens[c] \in Nat
  BY DEF BulkInv, BulkTypes
<1>1. /\ OneOp(j, d, new) /\ DOMAIN bop' = BulkJobs
      /\ \A i \in BulkJobs : bop'[i] \in [Devices(i) -> OpType]
  BY <1>0, OpReplaced
<1>2. PICK c \in DOMAIN tokens, t \in Nat : tokens' = [tokens EXCEPT ![c] = t]
  <2>1. CASE new.pc = "op"
    <3>1. bop[j][d].chan \in DOMAIN tokens /\ tokens[bop[j][d].chan] + 1 \in Nat
      BY <1>0, <2>1 DEF OnChannel
    <3>2. tokens' = [tokens EXCEPT ![bop[j][d].chan] = tokens[bop[j][d].chan] + 1]
      BY <2>1
    <3> QED BY <3>1, <3>2
  <2>2. CASE new.pc = "done"
    BY <1>0, <2>2
  <2> QED BY <2>1, <2>2
<1>3. tokens' \in Seq(Nat) /\ Len(tokens') = Len(tokens) /\ DOMAIN tokens' = DOMAIN tokens
  BY <1>0, <1>2 DEF BulkTypes
<1>4. BulkTypes'
  <2>1. \A i \in BulkJobs : bop'[i] \in [Devices(i)' -> OpType']
    BY <1>1 DEF Devices, OpType
  <2> QED BY <1>0, <1>1, <1>3, <2>1 DEF BulkTypes
<1>5. OnChannel'
  <2> SUFFICES ASSUME NEW i \in BulkJobs, NEW e \in Devices(i), bop'[i][e].pc = "global"
               PROVE  bop'[i][e].chan \in DOMAIN tokens
    BY <1>3 DEF OnChannel, Pc, Devices
  <2>1. <<i, e>> # <<j, d>>
    BY <1>1 DEF OneOp
  <2> QED BY <1>0, <1>1, <2>1 DEF OneOp, OnChannel, Pc
<1>6. \A i \in BulkJobs : JobInv(i)'
  BY <1>1, OwnJob DEF HoldsInner
<1>7. GlobalInv'
  <2> SUFFICES ASSUME Len(tokens) = 1
               PROVE  tokens'[1] <= GlobalCap /\ tokens'[1] = Cardinality(TokenHolders')
    BY <1>3 DEF GlobalInv
  <2>1. tokens[1] \in Nat /\ tokens[1] = Cardinality(TokenHolders) /\ tokens[1] <= GlobalCap
    BY <1>0 DEF GlobalInv
  <2>2. IsFiniteSet(TokenHolders)
    BY FiniteOps
  <2>3. CASE new.pc = "op"
    <3>1. bop[j][d].chan = 1 /\ tokens[1] < GlobalCap
      BY <1>0, <2>3 DEF OnChannel
    <3>2. tokens'[1] = tokens[1] + 1
      BY <1>0, <2>3, <3>1
    <3>3. TokenHolders' = TokenHolders \cup {<<j, d>>} /\ <<j, d>> \notin TokenHolders
      BY <1>0, <1>1, <2>3, OpMoves DEF HoldsToken
    <3>4. Cardinality(TokenHolders') = Cardinality(TokenHolders) + 1
      BY <2>2, <3>3, FS_AddElement
    <3> QED BY <2>1, <3>1, <3>2, <3>4, BulkAssumption
  <2>4. CASE new.pc = "done"
    <3>1. tokens'[1] = tokens[1] - 1
      BY <1>0, <2>4
    <3>2. TokenHolders' = TokenHolders \ {<<j, d>>} /\ <<j, d>> \in TokenHolders
      BY <1>0, <1>1, <2>4, OpMoves DEF HoldsToken
    <3>3. Cardinality(TokenHolders') = Cardinality(TokenHolders) - 1
      BY <2>2, <3>2, FS_RemoveElement
    <3> QED BY <2>1, <3>1, <3>3, BulkAssumption
  <2> QED BY <2>3, <2>4
<1> QED BY <1>4, <1>5, <1>6, <1>7 DEF BulkInv

(* What WaitGlobal makes of an operation.                                  *)
LEMMA GlobalWait ==
  ASSUME BulkTypes, NEW j \in BulkJobs, NEW d \in Devices(j), WaitGlobal(j, d)
  PROVE  \E new \in OpType : /\ new.pc = "global" /\ new.chan \in DOMAIN tokens
                             /\ bop' = [bop EXCEPT ![j][d] = new]
<1> DEFINE new == [bop[j][d] EXCEPT !.pc = "global", !.chan = Current]
<1>0. bop[j][d] \in OpType /\ Len(tokens) \in Nat \ {0} /\ DOMAIN tokens = 1..Len(tokens)
  BY DEF BulkTypes
<1>1. new \in OpType /\ new.pc = "global" /\ new.chan = Len(tokens)
  BY <1>0 DEF OpType, Current
<1>2. bop' = [bop EXCEPT ![j][d] = new]
  BY DEF WaitGlobal
<1>3. new.chan \in DOMAIN tokens
  BY <1>0, <1>1
<1> HIDE DEF new
<1> QED BY <1>1, <1>2, <1>3

(* A step of one operation of a job.                                       *)
LEMMA OperationStep ==
  ASSUME BulkInv, NEW j \in BulkJobs, NEW d \in Devices(j),
         \/ AcquireInner(j, d) \/ AcquireGlobal(j, d) \/ Attempt(j, d)
         \/ Backoff(j, d) \/ Release(j, d)
  PROVE  BulkInv'
<1>0. /\ BulkTypes /\ bop[j][d] \in OpType /\ Len(tokens) \in Nat \ {0}
      /\ bjob \in [BulkJobs -> {"new", "open", "waiting", "ap", "ended"}]
      /\ DOMAIN launched = BulkJobs
  BY DEF BulkInv, BulkTypes
<1> DEFINE With(pc) == [bop[j][d] EXCEPT !.pc = pc]
<1>1. ASSUME NEW pc \in {"op", "release", "done"}, To(j, d, pc)
      PROVE  With(pc) \in OpType /\ With(pc).pc = pc /\ bop' = [bop EXCEPT ![j][d] = With(pc)]
  BY <1>0, <1>1 DEF OpType, To, BulkTypes
<1>2. ASSUME NEW new \in OpType, bop' = [bop EXCEPT ![j][d] = new],
             UNCHANGED <<bjob, launched, tokens>>, Pc(j, d) \notin {"idle", "done"},
             new.pc \in HoldsToken <=> Pc(j, d) \in HoldsToken,
             new.pc = "global" => new.chan \in DOMAIN tokens,
             d \in Ops[j] /\ new.pc \in HoldsInner
               => Pc(j, d) \in HoldsInner \/ Cardinality(Holding(j)) < InnerCap
      PROVE  BulkInv'
  <2>1. OneOp(j, d, new)
    BY <1>0, <1>2, OpReplaced
  <2>2. \A i \in BulkJobs : JobInv(i)'
    BY <1>2, <2>1, OwnJob
  <2> QED BY <1>0, <1>2, <2>2, TokensStay
<1>3. CASE AcquireInner(j, d)
  <2>1. ASSUME Cardinality(Holding(j)) < InnerCap, WaitGlobal(j, d) PROVE BulkInv'
    <3>1. PICK new \in OpType : /\ new.pc = "global" /\ new.chan \in DOMAIN tokens
                                /\ bop' = [bop EXCEPT ![j][d] = new]
      BY <1>0, <2>1, GlobalWait
    <3> QED BY <1>2, <1>3, <2>1, <3>1 DEF AcquireInner, HoldsToken
  <2>2. ASSUME To(j, d, "done") PROVE BulkInv'
    BY <1>1, <1>2, <1>3, <2>2 DEF AcquireInner, HoldsToken, HoldsInner
  <2> QED BY <1>3, <2>1, <2>2 DEF AcquireInner
<1>4. CASE AcquireGlobal(j, d)
  <2>1. CASE UNCHANGED tokens /\ To(j, d, "done")
    BY <1>1, <1>2, <1>4, <2>1 DEF AcquireGlobal, HoldsToken, HoldsInner
  <2>2. CASE tokens[bop[j][d].chan] < GlobalCap /\ To(j, d, "op")
             /\ tokens' = [tokens EXCEPT ![bop[j][d].chan] = @ + 1]
    BY <1>1, <1>4, <2>2, TokensMove DEF AcquireGlobal
  <2> QED BY <1>4, <2>1, <2>2 DEF AcquireGlobal
<1>5. CASE Attempt(j, d)
  <2>1. PICK pc \in {"release", "backoff"}, res \in {"none", "success", "failed", "skipped"} :
             bop' = [bop EXCEPT ![j][d] = [@ EXCEPT !.pc = pc, !.res = res, !.tries = bop[j][d].tries + 1]]
    <3>1. ASSUME NEW r, NEW n
          PROVE  /\ AfterAttempt(j, r, n).pc \in {"release", "backoff"}
                 /\ AfterAttempt(j, r, n).res \in {"none", "success", "failed", "skipped"}
      <4>1. AfterAttempt(j, r, n) \in {[pc |-> "release", res |-> "success"], [pc |-> "release", res |-> "skipped"],
                                       [pc |-> "backoff", res |-> "none"], [pc |-> "release", res |-> "failed"]}
        BY DEF AfterAttempt
      <4>2. CASE AfterAttempt(j, r, n) = [pc |-> "release", res |-> "success"]
        BY <4>2
      <4>3. CASE AfterAttempt(j, r, n) = [pc |-> "release", res |-> "skipped"]
        BY <4>3
      <4>4. CASE AfterAttempt(j, r, n) = [pc |-> "backoff", res |-> "none"]
        BY <4>4
      <4>5. CASE AfterAttempt(j, r, n) = [pc |-> "release", res |-> "failed"]
        BY <4>5
      <4> QED BY <4>1, <4>2, <4>3, <4>4, <4>5
    <3>2. PICK r \in {"success", "network", "refused"} :
            bop' = [bop EXCEPT ![j][d] = [@ EXCEPT !.pc = AfterAttempt(j, r, bop[j][d].tries + 1).pc,
                                                   !.res = AfterAttempt(j, r, bop[j][d].tries + 1).res,
                                                   !.tries = bop[j][d].tries + 1]]
      BY <1>5 DEF Attempt
    <3> DEFINE a == AfterAttempt(j, r, bop[j][d].tries + 1)
    <3>3. a.pc \in {"release", "backoff"} /\ a.res \in {"none", "success", "failed", "skipped"}
      BY <3>1
    <3>4. bop' = [bop EXCEPT ![j][d] = [@ EXCEPT !.pc = a.pc, !.res = a.res, !.tries = bop[j][d].tries + 1]]
      BY <3>2
    <3> HIDE DEF a
    <3> QED BY <3>3, <3>4
  <2> DEFINE new == [bop[j][d] EXCEPT !.pc = pc, !.res = res, !.tries = bop[j][d].tries + 1]
  <2>2. new \in OpType /\ new.pc = pc
    <3>1. bop[j][d].tries + 1 \in Nat
      BY <1>0 DEF OpType
    <3> QED BY <1>0, <3>1 DEF OpType
  <2>3. bop' = [bop EXCEPT ![j][d] = new]
    BY <2>1
  <2> HIDE DEF new
  <2> QED BY <1>2, <1>5, <2>2, <2>3 DEF Attempt, HoldsToken, HoldsInner
<1>6. CASE Backoff(j, d)
  <2>1. ASSUME To(j, d, "op") PROVE BulkInv'
    BY <1>1, <1>2, <1>6, <2>1 DEF Backoff, HoldsToken, HoldsInner
  <2>2. ASSUME bop' = [bop EXCEPT ![j][d] = [@ EXCEPT !.pc = "release", !.res = "skipped"]]
        PROVE  BulkInv'
    <3> DEFINE new == [bop[j][d] EXCEPT !.pc = "release", !.res = "skipped"]
    <3>1. new \in OpType /\ new.pc = "release"
      BY <1>0 DEF OpType
    <3>2. bop' = [bop EXCEPT ![j][d] = new]
      BY <2>2
    <3> HIDE DEF new
    <3> QED BY <1>2, <1>6, <3>1, <3>2 DEF Backoff, HoldsToken, HoldsInner
  <2> QED BY <1>6, <2>1, <2>2 DEF Backoff
<1>7. CASE Release(j, d)
  BY <1>1, <1>7, TokensMove DEF Release, Current
<1> QED BY <1>3, <1>4, <1>5, <1>6, <1>7

(* A job that moves on, with no operation of it moving.                    *)
LEMMA JobMoves ==
  ASSUME BulkInv, UNCHANGED <<bop, launched, tokens>>,
         bjob' \in [BulkJobs -> {"new", "open", "waiting", "ap", "ended"}],
         \A i \in BulkJobs : /\ bjob'[i] = "ap" => bjob[i] = "ap"
                             /\ bjob[i] \in {"ap", "ended"} => bjob'[i] \in {"ap", "ended"}
  PROVE  BulkInv'
<1>1. BulkTypes' /\ OnChannel' /\ GlobalInv'
  BY DEF BulkInv, BulkTypes, OnChannel, GlobalInv, TokenHolders, Devices, Pc, OpType
<1>2. ASSUME NEW i \in BulkJobs PROVE JobInv(i)'
  <2>1. JobInv(i)
    BY DEF BulkInv
  <2>2. Holding(i)' = Holding(i) /\ Over(i)' = Over(i) /\ Succeeded(i)' = Succeeded(i)
    BY DEF Holding, Over, Succeeded, Pc
  <2> QED BY <2>1, <2>2 DEF JobInv, EnoughStations, Pc
<1> QED BY <1>1, <1>2 DEF BulkInv

(* The goroutine of a station starts.                                      *)
LEMMA LaunchStep ==
  ASSUME BulkInv, NEW j \in BulkJobs, NEW d \in Ops[j] \ launched[j], bjob[j] = "open",
         launched' = [launched EXCEPT ![j] = @ \cup {d}], To(j, d, "inner"), UNCHANGED <<bjob, tokens>>
  PROVE  BulkInv'
<1>0. BulkTypes /\ (\A i \in BulkJobs : JobInv(i)) /\ d \in Devices(j) /\ bop[j][d] \in OpType
  BY DEF BulkInv, BulkTypes, Devices
<1> DEFINE new == [bop[j][d] EXCEPT !.pc = "inner"]
<1>1. new \in OpType /\ new.pc = "inner" /\ bop' = [bop EXCEPT ![j][d] = new]
  BY <1>0 DEF OpType, To, BulkTypes
<1> HIDE DEF new
<1>2. OneOp(j, d, new)
  BY <1>0, <1>1, OpReplaced
<1>3. ASSUME NEW i \in BulkJobs \ {j} PROVE JobInv(i)'
  <2>1. (\A e \in Devices(i) : bop'[i][e] = bop[i][e]) /\ launched'[i] = launched[i]
    BY <1>0, <1>2 DEF OneOp, BulkTypes
  <2> QED BY <1>0, <2>1, OtherJob
<1>4. JobInv(j)'
  <2>1. Pc(j, d) = "idle" /\ launched'[j] = launched[j] \cup {d}
    BY <1>0 DEF JobInv, BulkTypes
  <2>2. Holding(j)' = Holding(j)
    <3>1. Holding(j)' = Holding(j) \ {d}
      BY <1>0, <1>1, <1>2, OpMoves DEF HoldsInner
    <3> QED BY <2>1, <3>1 DEF Holding
  <2>3. Ap[j] # NoAp => bop'[j][Ap[j]] = bop[j][Ap[j]] /\ Pc(j, Ap[j]) = "idle"
    BY <1>0, <1>2, BulkAssumption DEF OneOp, Devices, JobInv
  <2>4. \A e \in Ops[j] \ launched'[j] : bop'[j][e].pc = "idle"
    <3>1. \A e \in Ops[j] \ launched'[j] : e # d /\ e \in Devices(j) /\ Pc(j, e) = "idle"
      BY <1>0, <2>1 DEF JobInv, Devices
    <3> QED BY <1>2, <3>1 DEF OneOp, Pc
  <2> QED BY <1>0, <2>2, <2>3, <2>4 DEF JobInv, Pc
<1>5. \A i \in BulkJobs : JobInv(i)'
  BY <1>3, <1>4
<1>6. Pc(j, d) = "idle"
  BY <1>0 DEF JobInv
<1> QED BY <1>0, <1>1, <1>5, <1>6, TokensStay DEF BulkTypes, HoldsToken

(* The access point comes when all its stations are over.                  *)
LEMMA ApStep ==
  ASSUME BulkInv, NEW j \in BulkJobs, bjob[j] = "waiting", Over(j), Ap[j] # NoAp, EnoughStations(j),
         bjob' = [bjob EXCEPT ![j] = "ap"], UNCHANGED <<launched, tokens>>,
         WaitGlobal(j, Ap[j])
  PROVE  BulkInv'
<1> DEFINE d == Ap[j]
<1>0. BulkTypes /\ (\A i \in BulkJobs : JobInv(i)) /\ d \in Devices(j) /\ d \notin Ops[j]
  BY BulkAssumption DEF BulkInv, Devices
<1>1. PICK new \in OpType : /\ new.pc = "global" /\ new.chan \in DOMAIN tokens
                            /\ bop' = [bop EXCEPT ![j][d] = new]
  BY <1>0, GlobalWait
<1>2. OneOp(j, d, new)
  BY <1>0, <1>1, OpReplaced
<1>3. ASSUME NEW i \in BulkJobs \ {j} PROVE JobInv(i)'
  <2>1. (\A e \in Devices(i) : bop'[i][e] = bop[i][e]) /\ bjob'[i] = bjob[i]
    BY <1>0, <1>2 DEF OneOp, BulkTypes
  <2> QED BY <1>0, <2>1, OtherJob
<1>4. \A e \in Ops[j] : bop'[j][e] = bop[j][e]
  BY <1>0, <1>2 DEF OneOp, Devices
<1>5. Holding(j)' = Holding(j) /\ Succeeded(j)' = Succeeded(j) /\ (Over(j)' <=> Over(j))
  BY <1>4 DEF Holding, Succeeded, Over, Pc
<1>6. bjob'[j] = "ap"
  BY <1>0 DEF BulkTypes
<1>7. JobInv(j)'
  BY <1>0, <1>4, <1>5, <1>6 DEF JobInv, EnoughStations, Pc
<1>8. \A i \in BulkJobs : JobInv(i)'
  BY <1>3, <1>7
<1>9. Pc(j, d) = "idle"
  BY <1>0 DEF JobInv
<1>10. bjob' \in [BulkJobs -> {"new", "open", "waiting", "ap", "ended"}] /\ DOMAIN launched' = BulkJobs
  BY <1>0 DEF BulkTypes
<1> HIDE DEF d
<1> QED BY <1>0, <1>1, <1>8, <1>9, <1>10, TokensStay DEF HoldsToken

(* Nothing holds a token in the beginning.                                 *)
LEMMA BulkStarts == BulkInit => BulkInv
<1> SUFFICES ASSUME BulkInit PROVE BulkInv
  OBVIOUS
<1>1. Idle \in OpType /\ Idle.pc = "idle"
  BY DEF Idle, OpType
<1>2. \A j \in BulkJobs : bop[j] = [d \in Devices(j) |-> Idle]
  BY DEF BulkInit
<1>3. \A j \in BulkJobs : \A d \in Devices(j) : bop[j][d].pc = "idle"
  BY <1>1, <1>2
<1>4. BulkTypes /\ OnChannel
  <2>1. tokens \in Seq(Nat) /\ Len(tokens) = 1
    BY DEF BulkInit
  <2> QED BY <1>1, <1>2, <1>3, <2>1 DEF BulkInit, BulkTypes, OnChannel, Pc
<1>5. GlobalInv
  <2>1. TokenHolders = {}
    BY <1>3 DEF TokenHolders, Pc
  <2> QED BY <2>1, FS_EmptySet, BulkAssumption DEF BulkInit, GlobalInv
<1>6. ASSUME NEW j \in BulkJobs PROVE JobInv(j)
  <2>1. Holding(j) = {}
    BY <1>3 DEF Holding, Devices, Pc
  <2>2. Cardinality(Holding(j)) <= InnerCap
    BY <2>1, FS_EmptySet, BulkAssumption
  <2>3. bjob[j] = "new"
    BY DEF BulkInit
  <2>4. (Ap[j] # NoAp => Ap[j] \in Devices(j)) /\ Ops[j] \subseteq Devices(j)
    BY DEF Devices
  <2> QED BY <1>3, <2>2, <2>3, <2>4 DEF JobInv, Pc
<1> QED BY <1>4, <1>5, <1>6 DEF BulkInv

(* Every step keeps the invariant.                                         *)
LEMMA BulkStep == BulkInv /\ [BulkNext]_bulkVars => BulkInv'
<1> SUFFICES ASSUME BulkInv, [BulkNext]_bulkVars PROVE BulkInv'
  OBVIOUS
<1>0. bjob \in [BulkJobs -> {"new", "open", "waiting", "ap", "ended"}]
  BY DEF BulkInv, BulkTypes
<1>1. ASSUME NEW j \in BulkJobs, Execute(j) PROVE BulkInv'
  BY <1>0, <1>1, JobMoves DEF Execute
<1>2. ASSUME NEW j \in BulkJobs, Launch(j) PROVE BulkInv'
  <2>1. CASE bjob' = [bjob EXCEPT ![j] = "ended"] /\ UNCHANGED <<launched, bop>>
    BY <1>0, <1>2, <2>1, JobMoves DEF Launch
  <2>2. CASE \E d \in Ops[j] \ launched[j] : launched' = [launched EXCEPT ![j] = @ \cup {d}]
                                             /\ To(j, d, "inner") /\ UNCHANGED bjob
    BY <1>2, <2>2, LaunchStep DEF Launch
  <2>3. CASE bjob' = [bjob EXCEPT ![j] = "waiting"] /\ UNCHANGED <<launched, bop>>
    BY <1>0, <1>2, <2>3, JobMoves DEF Launch
  <2> QED BY <1>2, <2>1, <2>2, <2>3 DEF Launch
<1>3. ASSUME NEW j \in BulkJobs, Joined(j) PROVE BulkInv'
  <2>1. CASE Ap[j] # NoAp /\ j \notin cancelled /\ EnoughStations(j)
    BY <1>3, <2>1, ApStep DEF Joined
  <2>2. CASE ~(Ap[j] # NoAp /\ j \notin cancelled /\ EnoughStations(j))
    BY <1>0, <1>3, <2>2, JobMoves DEF Joined
  <2> QED BY <2>1, <2>2
<1>4. ASSUME NEW j \in BulkJobs, ApOver(j) PROVE BulkInv'
  BY <1>0, <1>4, JobMoves DEF ApOver
<1>5. ASSUME NEW j \in BulkJobs, CancelBulk(j) PROVE BulkInv'
  BY <1>0, <1>5, JobMoves DEF CancelBulk
<1>6. CASE UpdateConfig
  <2>1. /\ tokens' \in Seq(Nat) /\ Len(tokens') = Len(tokens) + 1 /\ Len(tokens) \in Nat \ {0}
        /\ DOMAIN tokens \subseteq DOMAIN tokens'
    BY <1>6 DEF UpdateConfig, BulkInv, BulkTypes
  <2>a. BulkTypes /\ OnChannel /\ UNCHANGED <<bjob, launched, bop>>
    BY <1>6 DEF UpdateConfig, BulkInv
  <2>b. BulkTypes'
    <3>1. \A j \in BulkJobs : bop'[j] \in [Devices(j)' -> OpType']
      BY <2>a DEF BulkTypes, Devices, OpType
    <3> QED BY <2>1, <2>a, <3>1 DEF BulkTypes
  <2>c. OnChannel'
    BY <2>1, <2>a DEF OnChannel, Devices, Pc
  <2>d. GlobalInv'
    <3>1. \A n \in Nat \ {0} : n + 1 # 1
      OBVIOUS
    <3>2. Len(tokens') # 1
      BY <2>1, <3>1
    <3> QED BY <3>2 DEF GlobalInv
  <2>2. BulkTypes' /\ OnChannel' /\ GlobalInv'
    BY <2>b, <2>c, <2>d
  <2>3. ASSUME NEW i \in BulkJobs PROVE JobInv(i)'
    <3>1. (\A e \in Devices(i) : bop'[i][e] = bop[i][e]) /\ bjob'[i] = bjob[i] /\ launched'[i] = launched[i]
      BY <1>6 DEF UpdateConfig
    <3> QED BY <3>1, OtherJob DEF BulkInv
  <2> QED BY <2>2, <2>3 DEF BulkInv
<1>7. CASE UNCHANGED bulkVars
  BY <1>0, <1>7, JobMoves DEF bulkVars
<1> QED BY <1>1, <1>2, <1>3, <1>4, <1>5, <1>6, <1>7, OperationStep DEF BulkNext, GoStep

(* The invariant gives the limits.                                         *)
LEMMA WithinLimits == BulkInv => BulkLimits
<1> SUFFICES ASSUME BulkInv PROVE BulkLimits
  OBVIOUS
<1>1. Resized \/ (tokens[1] <= GlobalCap /\ tokens[1] = Cardinality(TokenHolders))
  <2>1. tokens \in Seq(Nat) /\ Len(tokens) # 0 /\ Len(tokens) \in Nat /\ GlobalInv
    BY DEF BulkInv, BulkTypes
  <2>2. CASE Len(tokens) = 1
    BY <2>1, <2>2 DEF GlobalInv
  <2>3. CASE Len(tokens) # 1
    <3>1. \A n \in Nat : n # 0 /\ n # 1 => n > 1
      OBVIOUS
    <3>2. Len(tokens) > 1
      BY <2>1, <2>3, <3>1
    <3> QED BY <3>2 DEF Resized, Current
  <2> QED BY <2>2, <2>3
<1>2. ASSUME NEW j \in BulkJobs PROVE Cardinality(Running(j)) <= InnerCap
  <2>0. JobInv(j) /\ IsFiniteSet(Holding(j)) /\ Cardinality(Holding(j)) \in Nat /\ InnerCap \in Nat /\ InnerCap >= 1
    BY FiniteOps, FS_CardinalityType, BulkAssumption DEF BulkInv
  <2>1. CASE Over(j)
    <3>1. Running(j) \subseteq {Ap[j]}
      BY <2>1 DEF Running, Over, Devices
    <3>2. IsFiniteSet({Ap[j]}) /\ Cardinality({Ap[j]}) = 1
      BY FS_Singleton
    <3>3. Cardinality(Running(j)) <= 1 /\ Cardinality(Running(j)) \in Nat
      BY <3>1, <3>2, FS_Subset, FS_CardinalityType
    <3> QED BY <2>0, <3>3
  <2>2. CASE ~Over(j)
    <3>1. Running(j) \subseteq Holding(j)
      BY <2>0, <2>2 DEF JobInv, Running, Holding, Devices
    <3>2. Cardinality(Running(j)) <= Cardinality(Holding(j)) /\ Cardinality(Running(j)) \in Nat
      BY <2>0, <3>1, FS_Subset, FS_CardinalityType
    <3> QED BY <2>0, <3>2 DEF JobInv
  <2> QED BY <2>1, <2>2
<1>3. ASSUME NEW j \in BulkJobs, bjob[j] = "ap"
      PROVE  /\ Over(j)
             /\ Cardinality({d \in Ops[j] : bop[j][d].res # "success"}) <= Cardinality(Succeeded(j))
  <2> DEFINE rest == {d \in Ops[j] : bop[j][d].res # "success"}
  <2>1. Over(j) /\ EnoughStations(j)
    BY <1>3 DEF BulkInv, JobInv
  <2>2. IsFiniteSet(Ops[j]) /\ Succeeded(j) \subseteq Ops[j] /\ IsFiniteSet(Succeeded(j))
    BY FiniteOps, FS_Subset DEF Succeeded
  <2>3. Ops[j] \cap Succeeded(j) = Succeeded(j) /\ rest = Ops[j] \ Succeeded(j)
    BY DEF Succeeded
  <2>4. Cardinality(rest) = Cardinality(Ops[j]) - Cardinality(Succeeded(j))
    BY <2>2, <2>3, FS_Difference
  <2>5. Cardinality(Ops[j]) \in Nat /\ Cardinality(Succeeded(j)) \in Nat
    BY <2>2, FS_CardinalityType
  <2> HIDE DEF rest
  <2>6. Cardinality(rest) <= Cardinality(Succeeded(j))
    BY <2>1, <2>4, <2>5 DEF EnoughStations
  <2> QED BY <2>1, <2>6 DEF rest
<1> QED BY <1>1, <1>2, <1>3 DEF BulkLimits

-----------------------------------------------------------------------------
(* The two services together.                                              *)
FanoutInv == FwInv /\ OrderInv /\ BulkInv

(* A step of the directory moves no request.                               *)
LEMMA ShelfStep ==
    ASSUME FwInv, OrderInv, UNCHANGED <<radio, row, order, batches, live, task, jobRow, losses, troubled>>
    PROVE  FwInv' /\ OrderInv'
<1>1. Fields
  BY DEF FwInv
<1>2. FwInv'
  BY <1>1, RadioUntouched, RowUntouched, WorldStep
<1>3. OrderInv'
  BY OrderKept DEF StartsNothing
<1> QED BY <1>2, <1>3

(* A step of one service leaves the state of the other alone.              *)
LEMMA FanoutStep == FanoutInv /\ [MCFwNext]_<<fwVars, bulkVars, part>> => FanoutInv'
<1> SUFFICES ASSUME FanoutInv, [MCFwNext]_<<fwVars, bulkVars, part>> PROVE FanoutInv'
  OBVIOUS
<1>0. FwInv /\ OrderInv /\ BulkInv
  BY DEF FanoutInv
<1>b. ASSUME UNCHANGED bulkVars PROVE BulkInv'
  BY <1>0, <1>b, BulkStep
<1>u. ASSUME UNCHANGED fwVars PROVE FwInv' /\ OrderInv'
  BY <1>0, <1>u, UpgradeStepInv, OrderStep
<1>1. CASE ShelfNext /\ UNCHANGED <<radio, row, order, batches, live, task, jobRow, losses, troubled, bulkVars>>
  BY <1>0, <1>1, <1>b, ShelfStep DEF FanoutInv
<1>2. CASE UpgradeNext /\ UNCHANGED bulkVars
  BY <1>0, <1>2, <1>b, UpgradeStepInv, OrderStep DEF FanoutInv
<1>3. CASE BulkNext /\ UNCHANGED fwVars
  BY <1>0, <1>3, <1>u, BulkStep DEF FanoutInv
<1>4. CASE UNCHANGED <<fwVars, bulkVars, part>>
  BY <1>4, <1>b, <1>u DEF FanoutInv
<1> QED BY <1>1, <1>2, <1>3, <1>4 DEF MCFwNext

\* Whichever service runs a fanout, the access point waits for its stations
\* (UpgradeFanout, UpgradeBulk, runFanoutJob), and no operation of the bulk
\* controller exceeds a limit as long as its configuration is not changed.
THEOREM StationsFirst == MCFirmwareSpec => []FanoutOrdered
<1>1. MCFwInit => FanoutInv
  <2> SUFFICES ASSUME MCFwInit PROVE FanoutInv
    OBVIOUS
  <2>1. UpgradeInit(Old, {s1}) /\ BulkInit
    BY DEF MCFwInit
  <2>2. \A r \in Requests : batches[r] = <<>> /\ \A d \in Radios : task[r][d].pc = "none"
    BY <2>1 DEF UpgradeInit, NoTask
  <2>3. \A r \in Requests : Len(batches[r]) \in Nat /\ batches[r] \in Seq(SUBSET Radios) /\ WellOrdered(batches[r])
    <3>1. Len(<<>>) \in Nat /\ <<>> \in Seq(SUBSET Radios) /\ DOMAIN <<>> = {}
      OBVIOUS
    <3>2. WellOrdered(<<>>)
      BY <3>1 DEF WellOrdered
    <3> QED BY <2>2, <3>1, <3>2
  <2>4. ApAfterStations
    BY <2>2 DEF ApAfterStations
  <2> QED BY <2>1, <2>3, <2>4, FwStarts, BulkStarts DEF FanoutInv, OrderInv
<1>2. FanoutInv => FanoutOrdered
  BY WithinLimits DEF FanoutInv, OrderInv, FanoutOrdered
<1> QED BY <1>1, <1>2, FanoutStep, PTL DEF MCFirmwareSpec

-----------------------------------------------------------------------------
(***************************************************************************)
(* The directory of files.  What the loop of FindFirmwareForFlavor finds   *)
(* is shown over the number of files listed so far, from the least one it  *)
(* would be wrong for; that the files of a flavor have a first and a last  *)
(* one, and what a path is as text, in the same way.                       *)
(***************************************************************************)

(* Of some natural numbers one is least.                                   *)
LEMMA LeastOf ==
    ASSUME NEW S \in SUBSET Nat, S # {}
    PROVE  \E x \in S : \A y \in S : x <= y
<1> DEFINE R == OpToRel(<, Nat)
<1>1. IsWellFoundedOn(R, Nat)
  BY NatLessThanWellFounded
<1> HIDE DEF R
<1>2. PICK x \in S : \A y \in S : ~(<<y, x>> \in R)
  BY <1>1, WFMin
<1>3. \A a, b \in Nat : <<b, a>> \in R <=> b < a
  BY DEF R, OpToRel
<1>4. \A y \in S : x \in Nat /\ y \in Nat /\ ~(y < x)
  BY <1>2, <1>3
<1> QED BY <1>4

Parts == DOMAIN Spelling
Text == Seq(Nat)

(* The parts of versions in use, and their characters.                     *)
LEMMA SpellingFacts ==
    /\ Parts = {"8", "9", "10", "rc3", "cust1"}
    /\ Spelling["8"] = <<56>> /\ Spelling["9"] = <<57>> /\ Spelling["10"] = <<49, 48>>
    /\ Spelling["rc3"] = <<114, 99, 51>> /\ Spelling["cust1"] = <<99, 117, 115, 116, 49>>
BY DEF Parts, Spelling

(* No two of them are spelt alike.                                         *)
LEMMA SpellingsDiffer ==
    ASSUME NEW p \in Parts, NEW q \in Parts, p # q
    PROVE  Spelling[p] \in Text /\ Spelling[q] \in Text /\ Spelling[p] # Spelling[q]
<1>1. ASSUME NEW r \in Parts PROVE Spelling[r] \in Text
  <2>1. <<56>> \in Seq(Nat) /\ <<57>> \in Seq(Nat)
    OBVIOUS
  <2>2. <<49, 48>> \in Seq(Nat)
    OBVIOUS
  <2>3. <<114, 99, 51>> \in Seq(Nat)
    OBVIOUS
  <2>4. <<99, 117, 115, 116, 49>> \in Seq(Nat)
    <3> DEFINE s == <<99, 117, 115, 116, 49>>
    <3>1. Len(s) = 5 /\ s \in [1..5 -> Nat]
      OBVIOUS
    <3> HIDE DEF s
    <3>2. 5 \in Nat /\ \A n \in Nat : [1..n -> Nat] \subseteq Seq(Nat)
      OBVIOUS
    <3>3. s \in Seq(Nat)
      BY <3>1, <3>2
    <3> QED BY <3>3 DEF s
  <2>5. /\ Spelling["8"] \in Text /\ Spelling["9"] \in Text
        /\ Spelling["10"] \in Text /\ Spelling["rc3"] \in Text /\ Spelling["cust1"] \in Text
    <3> USE DEF Text
    <3>1. Spelling["8"] \in Text /\ Spelling["9"] \in Text
      BY <2>1, SpellingFacts, Zenon
    <3>2. Spelling["10"] \in Text
      BY <2>2, SpellingFacts, Zenon
    <3>3. Spelling["rc3"] \in Text
      BY <2>3, SpellingFacts, Zenon
    <3>4. Spelling["cust1"] \in Text
      BY <2>4, SpellingFacts, Zenon
    <3> QED BY <3>1, <3>2, <3>3, <3>4, Zenon
  <2>6. r = "8" \/ r = "9" \/ r = "10" \/ r = "rc3" \/ r = "cust1"
    BY SpellingFacts
  <2> QED BY <2>5, <2>6, Zenon
<1>2. /\ Len(Spelling["8"]) = 1 /\ Len(Spelling["9"]) = 1 /\ Len(Spelling["10"]) = 2
      /\ Len(Spelling["rc3"]) = 3 /\ Len(Spelling["cust1"]) = 5
      /\ Spelling["8"][1] = 56 /\ Spelling["9"][1] = 57
  BY SpellingFacts
<1> QED BY <1>1, <1>2, SpellingFacts

(* Where two different texts part.                                         *)
LEMMA TextsPart ==
    ASSUME NEW s \in Text, NEW t \in Text, s # t
    PROVE  TextBelow(s, t) \/ TextBelow(t, s)
<1> DEFINE Parting == {i \in Nat \ {0} : i > Len(s) \/ i > Len(t) \/ s[i] # t[i]}
           Here == {i \in Parting : i <= Len(s) \/ i <= Len(t)}
<1>1. Len(s) \in Nat /\ Len(t) \in Nat /\ DOMAIN s = 1..Len(s) /\ DOMAIN t = 1..Len(t)
  BY DEF Text
<1>2. Here # {}
  <2>1. CASE Len(s) < Len(t)
    <3>1. Len(s) + 1 \in Here
      BY <1>1, <2>1
    <3> QED BY <3>1
  <2>2. CASE Len(t) < Len(s)
    <3>1. Len(t) + 1 \in Here
      BY <1>1, <2>2
    <3> QED BY <3>1
  <2>3. CASE Len(s) = Len(t)
    <3>1. \E i \in 1..Len(s) : s[i] # t[i]
      BY <2>3 DEF Text
    <3>2. PICK i \in 1..Len(s) : s[i] # t[i]
      BY <3>1
    <3>3. i \in Here
      BY <1>1, <3>2
    <3> QED BY <3>3
  <2>4. Len(s) < Len(t) \/ Len(t) < Len(s) \/ Len(s) = Len(t)
    <3>1. \A m, n \in Nat : m < n \/ n < m \/ m = n
      OBVIOUS
    <3> QED BY <1>1, <3>1, Zenon
  <2> QED BY <2>1, <2>2, <2>3, <2>4, Zenon
<1>3. PICK i \in Here : \A j \in Here : i <= j
  <2>1. Here \in SUBSET Nat
    OBVIOUS
  <2> HIDE DEF Here
  <2> QED BY <1>2, <2>1, LeastOf
<1>4. i \in Nat /\ i >= 1 /\ (i <= Len(s) \/ i <= Len(t)) /\ (i > Len(s) \/ i > Len(t) \/ s[i] # t[i])
  BY <1>3
<1>5. \A j \in 1..(i - 1) : j <= Len(s) /\ j <= Len(t) /\ s[j] = t[j]
  <2> SUFFICES ASSUME NEW j \in 1..(i - 1) PROVE j <= Len(s) /\ j <= Len(t) /\ s[j] = t[j]
    OBVIOUS
  <2>1. j \notin Here /\ j \in Nat \ {0} /\ (j <= Len(s) \/ j <= Len(t))
    BY <1>1, <1>3, <1>4
  <2> QED BY <1>1, <2>1
<1> HIDE DEF Here
<1>6. CASE i > Len(s)
  <2>1. i \in 1..Len(t)
    BY <1>1, <1>4, <1>6
  <2> QED BY <1>5, <1>6, <2>1 DEF TextBelow
<1>7. CASE i > Len(t)
  <2>1. i \in 1..Len(s)
    BY <1>1, <1>4, <1>7
  <2> QED BY <1>5, <1>7, <2>1 DEF TextBelow
<1>8. CASE i <= Len(s) /\ i <= Len(t)
  <2>1. i \in 1..Len(s) /\ i \in 1..Len(t) /\ s[i] # t[i]
    BY <1>1, <1>4, <1>8
  <2>2. s[i] \in Nat /\ t[i] \in Nat
    BY <2>1 DEF Text
  <2>3. CASE s[i] < t[i]
    BY <1>5, <2>1, <2>3 DEF TextBelow
  <2>4. CASE t[i] < s[i]
    BY <1>5, <2>1, <2>4 DEF TextBelow
  <2> QED BY <2>1, <2>2, <2>3, <2>4
<1> QED BY <1>1, <1>4, <1>6, <1>7, <1>8

(* Go's < on strings holds one way only.                                   *)
LEMMA TextBelowOneWay ==
    ASSUME NEW s \in Text, NEW t \in Text, TextBelow(s, t)
    PROVE  ~TextBelow(t, s)
<1> SUFFICES ASSUME TextBelow(t, s) PROVE FALSE
  OBVIOUS
<1>1. Len(s) \in Nat /\ Len(t) \in Nat
  BY DEF Text
<1>2. PICK i \in 1..Len(t) : /\ \A j \in 1..(i - 1) : j <= Len(s) /\ s[j] = t[j]
                             /\ i > Len(s) \/ s[i] < t[i]
  BY DEF TextBelow
<1>3. PICK k \in 1..Len(s) : /\ \A j \in 1..(k - 1) : j <= Len(t) /\ t[j] = s[j]
                             /\ k > Len(t) \/ t[k] < s[k]
  BY DEF TextBelow
<1>4. CASE i < k
  <2>1. i \in 1..(k - 1) /\ i \in 1..Len(s)
    BY <1>1, <1>4
  <2>2. t[i] = s[i] /\ s[i] \in Nat /\ ~(i > Len(s))
    BY <1>1, <1>3, <2>1 DEF Text
  <2> QED BY <1>2, <2>2
<1>5. CASE k < i
  <2>1. k \in 1..(i - 1) /\ k \in 1..Len(t)
    BY <1>1, <1>5
  <2>2. t[k] = s[k] /\ t[k] \in Nat /\ ~(k > Len(t))
    BY <1>1, <1>2, <2>1 DEF Text
  <2> QED BY <1>3, <2>2
<1>6. CASE i = k
  <2>1. i \in 1..Len(s) /\ i \in 1..Len(t) /\ ~(i > Len(s)) /\ ~(i > Len(t))
    BY <1>1, <1>6
  <2>2. s[i] \in Nat /\ t[i] \in Nat
    BY <2>1 DEF Text
  <2> QED BY <1>2, <1>3, <1>6, <2>1, <2>2
<1> QED BY <1>4, <1>5, <1>6

(* It is transitive.                                                       *)
LEMMA TextBelowTransitive ==
    ASSUME NEW s \in Text, NEW t \in Text, NEW u \in Text, TextBelow(s, t), TextBelow(t, u)
    PROVE  TextBelow(s, u)
<1>1. Len(s) \in Nat /\ Len(t) \in Nat /\ Len(u) \in Nat
  BY DEF Text
<1>2. PICK i \in 1..Len(t) : /\ \A j \in 1..(i - 1) : j <= Len(s) /\ s[j] = t[j]
                             /\ i > Len(s) \/ s[i] < t[i]
  BY DEF TextBelow
<1>3. PICK k \in 1..Len(u) : /\ \A j \in 1..(k - 1) : j <= Len(t) /\ t[j] = u[j]
                             /\ k > Len(t) \/ t[k] < u[k]
  BY DEF TextBelow
<1>4. CASE i < k
  <2>1. i \in 1..(k - 1) /\ i \in 1..Len(u) /\ \A j \in 1..(i - 1) : j \in 1..(k - 1)
    BY <1>1, <1>4
  <2>2. t[i] = u[i] /\ \A j \in 1..(i - 1) : j <= Len(s) /\ s[j] = u[j]
    BY <1>2, <1>3, <2>1
  <2>3. i > Len(s) \/ s[i] < u[i]
    BY <1>2, <2>2
  <2> QED BY <2>1, <2>2, <2>3 DEF TextBelow
<1>5. CASE k <= i
  <2>1. \A j \in 1..(k - 1) : j \in 1..(i - 1)
    BY <1>1, <1>5
  <2>2. \A j \in 1..(k - 1) : j <= Len(s) /\ s[j] = u[j]
    BY <1>2, <1>3, <2>1
  <2>3. k \in 1..Len(t) /\ ~(k > Len(t)) /\ t[k] < u[k]
    BY <1>1, <1>3, <1>5
  <2>4. k > Len(s) \/ s[k] < u[k]
    <3>1. CASE k = i
      <4>1. CASE k > Len(s)
        BY <4>1
      <4>2. CASE ~(k > Len(s))
        <5>1. k \in 1..Len(s)
          BY <1>1, <4>2
        <5>2. s[k] \in Nat /\ t[k] \in Nat /\ u[k] \in Nat
          <6>1. k \in 1..Len(s) /\ k \in 1..Len(t) /\ k \in 1..Len(u)
            BY <2>3, <5>1
          <6>2. \A x \in Text : \A j \in 1..Len(x) : x[j] \in Nat
            BY DEF Text
          <6> QED BY <6>1, <6>2, Zenon
        <5>3. s[k] < t[k] /\ t[k] < u[k]
          BY <1>2, <2>3, <3>1, <4>2
        <5> QED BY <5>2, <5>3
      <4> QED BY <4>1, <4>2
    <3>2. CASE k # i
      <4>1. k \in 1..(i - 1)
        BY <1>1, <1>5, <3>2
      <4>2. s[k] = t[k]
        BY <1>2, <4>1
      <4> QED BY <2>3, <4>2
    <3> QED BY <3>1, <3>2
  <2> QED BY <2>2, <2>4 DEF TextBelow
<1> QED BY <1>4, <1>5

(* Two parts of a version: the one that is greater is so from both sides.  *)
LEMMA PartSigns ==
    ASSUME NEW p \in Parts, NEW q \in Parts, p # q
    PROVE  /\ comparePart(p, q) \in Int /\ comparePart(p, q) # 0
           /\ comparePart(p, q) > 0 <=> comparePart(q, p) < 0
<1>1. CASE IsNumber(p) /\ IsNumber(q)
  <2>1. p \in {"8", "9", "10"} /\ q \in {"8", "9", "10"}
    BY <1>1 DEF IsNumber
  <2>2. Value("8") = 8 /\ Value("9") = 9 /\ Value("10") = 10
    BY DEF Value
  <2>3. comparePart(p, q) = Value(p) - Value(q) /\ comparePart(q, p) = Value(q) - Value(p)
    BY <1>1 DEF comparePart
  <2>4. Value(p) \in Int /\ Value(q) \in Int /\ Value(p) # Value(q)
    BY <2>1, <2>2
  <2> QED BY <2>3, <2>4
<1>2. CASE ~(IsNumber(p) /\ IsNumber(q)) /\ isPrerelease(p) # isPrerelease(q)
  <2>1. /\ comparePart(p, q) = IF isPrerelease(p) THEN -1 ELSE 1
        /\ comparePart(q, p) = IF isPrerelease(q) THEN -1 ELSE 1
    BY <1>2 DEF comparePart
  <2>2. CASE isPrerelease(p)
    <3>1. ~isPrerelease(q)
      BY <1>2, <2>2 DEF isPrerelease
    <3> QED BY <2>1, <2>2, <3>1
  <2>3. CASE ~isPrerelease(p)
    <3>1. isPrerelease(q)
      BY <1>2, <2>3 DEF isPrerelease
    <3> QED BY <2>1, <2>3, <3>1
  <2> QED BY <2>2, <2>3
<1>3. CASE ~(IsNumber(p) /\ IsNumber(q)) /\ ~(isPrerelease(p) # isPrerelease(q))
  <2>1. /\ comparePart(p, q) = IF TextBelow(Spelling[p], Spelling[q]) THEN -1 ELSE 1
        /\ comparePart(q, p) = IF TextBelow(Spelling[q], Spelling[p]) THEN -1 ELSE 1
    BY <1>3 DEF comparePart
  <2>2. /\ TextBelow(Spelling[p], Spelling[q]) \/ TextBelow(Spelling[q], Spelling[p])
        /\ TextBelow(Spelling[p], Spelling[q]) => ~TextBelow(Spelling[q], Spelling[p])
    <3> DEFINE s == Spelling[p]
               t == Spelling[q]
    <3>1. s \in Text /\ t \in Text /\ s # t
      BY SpellingsDiffer
    <3> HIDE DEF s, t
    <3>2. (TextBelow(s, t) \/ TextBelow(t, s)) /\ (TextBelow(s, t) => ~TextBelow(t, s))
      BY <3>1, TextsPart, TextBelowOneWay
    <3> QED BY <3>2 DEF s, t
  <2>3. CASE TextBelow(Spelling[p], Spelling[q])
    BY <2>1, <2>2, <2>3
  <2>4. CASE TextBelow(Spelling[q], Spelling[p])
    <3>1. ~TextBelow(Spelling[p], Spelling[q])
      BY <2>2, <2>4
    <3> QED BY <2>1, <2>4, <3>1
  <2> QED BY <2>2, <2>3, <2>4
<1> QED BY <1>1, <1>2, <1>3

Version == Seq(Parts)

(* The first place at which two versions differ.                           *)
FirstDifference(a, b, i) == i \in Common(a, b) /\ a[i] # b[i] /\ \A j \in 1..(i - 1) : a[j] = b[j]

(* compareVersions compares the parts at the first difference.             *)
LEMMA DifferenceFound ==
    ASSUME NEW a \in Version, NEW b \in Version, \E i \in Common(a, b) : a[i] # b[i]
    PROVE  \E i : /\ FirstDifference(a, b, i)
                  /\ compareVersions(a, b) = comparePart(a[i], b[i])
<1> DEFINE S == {i \in Common(a, b) : a[i] # b[i]}
           i == CHOOSE k \in Common(a, b) : a[k] # b[k] /\ \A j \in 1..(k - 1) : a[j] = b[j]
<1>1. Len(a) \in Nat /\ Len(b) \in Nat /\ Common(a, b) \subseteq Nat
  BY DEF Common, Version
<1>2. PICK m \in S : \A k \in S : m <= k
  <2>1. S \in SUBSET Nat /\ S # {}
    BY <1>1
  <2> HIDE DEF S
  <2> QED BY <2>1, LeastOf
<1>3. \A j \in 1..(m - 1) : j \in Common(a, b) /\ ~(m <= j)
  BY <1>1, <1>2 DEF Common
<1>4. \A j \in 1..(m - 1) : a[j] = b[j]
  BY <1>2, <1>3
<1>5. m \in Common(a, b) /\ a[m] # b[m]
  BY <1>2
<1>6. FirstDifference(a, b, i)
  <2> HIDE DEF S
  <2> QED BY <1>4, <1>5 DEF FirstDifference
<1>7. compareVersions(a, b) = comparePart(a[i], b[i])
  BY <1>5 DEF compareVersions
<1> HIDE DEF i
<1> QED BY <1>6, <1>7

(* Seen from the other version, the first difference is at the same place. *)
LEMMA OneDifference ==
    ASSUME NEW a \in Version, NEW b \in Version, NEW i, NEW k,
           FirstDifference(a, b, i), FirstDifference(b, a, k)
    PROVE  i = k
<1>1. Len(a) \in Nat /\ Len(b) \in Nat
  BY DEF Version
<1>2. i \in Nat /\ k \in Nat /\ i >= 1 /\ k >= 1
  BY <1>1 DEF FirstDifference, Common
<1>3. ~(i \in 1..(k - 1)) /\ ~(k \in 1..(i - 1))
  BY DEF FirstDifference
<1> QED BY <1>2, <1>3

(* Where one version continues the other, the sign is reversed, too, and is *)
(* zero for equal ones only.                                               *)
LEMMA TailSigns ==
    ASSUME NEW a \in Version, NEW b \in Version, \A i \in Common(a, b) : a[i] = b[i]
    PROVE  /\ compareTails(a, b) \in Int
           /\ compareTails(a, b) = 0 <=> a = b
           /\ compareTails(a, b) > 0 <=> compareTails(b, a) < 0
<1> DEFINE PreB == \E i \in (Len(a) + 1)..Len(b) : isPrerelease(b[i])
           PreA == \E i \in (Len(b) + 1)..Len(a) : isPrerelease(a[i])
<1>1. Len(a) \in Nat /\ Len(b) \in Nat
  BY DEF Version
<1>2. /\ compareTails(a, b) = CASE Len(a) < Len(b) /\ PreB -> 1
                                [] Len(a) > Len(b) /\ PreA -> -1
                                [] OTHER -> Len(a) - Len(b)
      /\ compareTails(b, a) = CASE Len(b) < Len(a) /\ PreA -> 1
                                [] Len(b) > Len(a) /\ PreB -> -1
                                [] OTHER -> Len(b) - Len(a)
  BY DEF compareTails
<1> HIDE DEF PreA, PreB
<1>3. CASE Len(a) = Len(b)
  <2>1. compareTails(a, b) = 0 /\ compareTails(b, a) = 0
    BY <1>1, <1>2, <1>3
  <2>2. \A i \in 1..Len(a) : a[i] = b[i]
    BY <1>1, <1>3 DEF Common
  <2>3. a = b
    BY <1>3, <2>2 DEF Version
  <2> QED BY <2>1, <2>3
<1>4. CASE Len(a) < Len(b)
  <2>1. CASE PreB
    BY <1>1, <1>2, <1>4, <2>1
  <2>2. CASE ~PreB
    BY <1>1, <1>2, <1>4, <2>2
  <2> QED BY <2>1, <2>2
<1>5. CASE Len(b) < Len(a)
  <2>1. CASE PreA
    BY <1>1, <1>2, <1>5, <2>1
  <2>2. CASE ~PreA
    BY <1>1, <1>2, <1>5, <2>2
  <2> QED BY <2>1, <2>2
<1> QED BY <1>1, <1>3, <1>4, <1>5

(* compareVersions says equal of equal versions only, and which of two is  *)
(* the newer does not depend on their order.                               *)
LEMMA VersionSigns ==
    ASSUME NEW a \in Version, NEW b \in Version
    PROVE  /\ compareVersions(a, b) \in Int
           /\ compareVersions(a, b) = 0 <=> a = b
           /\ compareVersions(a, b) > 0 <=> compareVersions(b, a) < 0
<1>1. Common(a, b) = Common(b, a)
  <2>1. Len(a) \in Nat /\ Len(b) \in Nat
    BY DEF Version
  <2> QED BY <2>1 DEF Common
<1>2. CASE \A i \in Common(a, b) : a[i] = b[i]
  <2>1. compareVersions(a, b) = compareTails(a, b) /\ compareVersions(b, a) = compareTails(b, a)
    BY <1>1, <1>2 DEF compareVersions
  <2> QED BY <1>2, <2>1, TailSigns
<1>3. CASE \E i \in Common(a, b) : a[i] # b[i]
  <2>1. PICK i : FirstDifference(a, b, i) /\ compareVersions(a, b) = comparePart(a[i], b[i])
    BY <1>3, DifferenceFound
  <2>2. \E j \in Common(b, a) : b[j] # a[j]
    BY <1>1, <1>3
  <2>3. PICK k : FirstDifference(b, a, k) /\ compareVersions(b, a) = comparePart(b[k], a[k])
    BY <2>2, DifferenceFound
  <2>4. i = k
    BY <2>1, <2>3, OneDifference
  <2>5. a[i] \in Parts /\ b[i] \in Parts /\ a[i] # b[i]
    <3>1. Len(a) \in Nat /\ Len(b) \in Nat
      BY DEF Version
    <3>2. i \in 1..Len(a) /\ i \in 1..Len(b)
      BY <2>1, <3>1 DEF FirstDifference, Common
    <3> QED BY <2>1, <3>2 DEF FirstDifference, Version
  <2>6. a # b
    BY <2>5
  <2> QED BY <2>1, <2>3, <2>4, <2>5, <2>6, PartSigns
<1> QED BY <1>2, <1>3

(* What TextOf joins, part by part, and what it joins it to.               *)
Pieces(v) == [i \in 1..Len(v) |-> (IF i = 1 THEN <<118>> ELSE Separator(v[i])) \o Spelling[v[i]]]

Joins(v, g) == g \in [1..Len(v) -> Text] /\
               \A i \in 1..Len(v) : g[i] = IF i = 1 THEN Pieces(v)[i] ELSE g[i - 1] \o Pieces(v)[i]

(* Each of the pieces is a text.                                           *)
LEMMA PiecesAreText ==
    ASSUME NEW v \in Version
    PROVE  /\ Len(v) \in Nat /\ Pieces(v) \in Seq(Text) /\ Len(Pieces(v)) = Len(v)
           /\ \A i \in 1..Len(v) : Pieces(v)[i] \in Text
<1>1. Len(v) \in Nat
  BY DEF Version
<1>2. ASSUME NEW i \in 1..Len(v) PROVE Pieces(v)[i] \in Text
  <2> DEFINE p == v[i]
             head == IF i = 1 THEN <<118>> ELSE Separator(p)
  <2>1. p \in Parts
    BY <1>2 DEF Version
  <2>2. Pieces(v)[i] = head \o Spelling[p]
    BY <1>2 DEF Pieces
  <2> HIDE DEF p
  <2>3. <<118>> \in Seq(Nat) /\ <<46>> \in Seq(Nat) /\ <<45>> \in Seq(Nat)
    OBVIOUS
  <2>4. head \in Text
    BY <2>3, Zenon DEF Text, Separator
  <2>5. Spelling[p] \in Text
    <3>1. \E q \in Parts : q # p
      BY SpellingFacts
    <3> QED BY <2>1, <3>1, SpellingsDiffer
  <2> HIDE DEF head
  <2>6. \A s, t \in Seq(Nat) : s \o t \in Seq(Nat)
    OBVIOUS
  <2> QED BY <2>2, <2>4, <2>5, <2>6, Zenon DEF Text
<1>3. Pieces(v) = [i \in 1..Len(v) |-> Pieces(v)[i]]
  BY DEF Pieces
<1> DEFINE P == Pieces(v)
<1> HIDE DEF P
<1>4. P \in [1..Len(v) -> Text]
  BY <1>2, <1>3 DEF P
<1>5. P \in Seq(Text) /\ Len(P) = Len(v)
  BY <1>1, <1>4
<1> QED BY <1>1, <1>2, <1>5 DEF P

(* There is a function of what the first pieces join to.                   *)
LEMMA JoinsExist ==
    ASSUME NEW v \in Version
    PROVE  \E g : Joins(v, g)
<1> DEFINE P == Pieces(v)
           Up(n) == \E g \in [1..n -> Text] : \A i \in 1..n : g[i] = IF i = 1 THEN P[i] ELSE g[i - 1] \o P[i]
           Bad == {n \in 0..Len(v) : ~Up(n)}
<1>0. Len(v) \in Nat /\ \A i \in 1..Len(v) : P[i] \in Text
  BY PiecesAreText
<1> HIDE DEF P
<1>1. Up(0)
  <2>1. [i \in 1..0 |-> <<>>] \in [1..0 -> Text] /\ \A i \in 1..0 : FALSE
    OBVIOUS
  <2> QED BY <2>1
<1>2. ASSUME NEW n \in 0..(Len(v) - 1), Up(n) PROVE Up(n + 1)
  <2>1. PICK g \in [1..n -> Text] : \A i \in 1..n : g[i] = IF i = 1 THEN P[i] ELSE g[i - 1] \o P[i]
    BY <1>2
  <2>2. n \in Nat /\ n + 1 \in 1..Len(v) /\ P[n + 1] \in Text
    BY <1>0
  <2> DEFINE last == IF n = 0 THEN P[n + 1] ELSE g[n] \o P[n + 1]
             h == [i \in 1..(n + 1) |-> IF i <= n THEN g[i] ELSE last]
  <2>3. last \in Text
    <3>1. CASE n = 0
      BY <2>2, <3>1
    <3>2. CASE n # 0
      <4>1. n \in 1..n /\ g[n] \in Text
        BY <2>2, <3>2
      <4>2. \A s, t \in Seq(Nat) : s \o t \in Seq(Nat)
        OBVIOUS
      <4>3. g[n] \o P[n + 1] \in Text
        BY <2>2, <4>1, <4>2, Zenon DEF Text
      <4> QED BY <3>2, <4>3
    <3> QED BY <3>1, <3>2
  <2>4. n # 0 => last = g[n] \o P[n + 1]
    OBVIOUS
  <2>5. n = 0 => last = P[n + 1]
    OBVIOUS
  <2> HIDE DEF last
  <2>6. h \in [1..(n + 1) -> Text]
    BY <2>1, <2>2, <2>3
  <2>7. ASSUME NEW i \in 1..(n + 1) PROVE h[i] = IF i = 1 THEN P[i] ELSE h[i - 1] \o P[i]
    <3>1. CASE i = n + 1
      <4>1. h[i] = last
        BY <2>2, <3>1
      <4>2. CASE n = 0
        BY <2>5, <3>1, <4>1, <4>2
      <4>3. CASE n # 0
        <5>1. i # 1 /\ i - 1 = n /\ h[i - 1] = g[n]
          BY <2>2, <3>1, <4>3
        <5> HIDE DEF h
        <5> QED BY <2>4, <3>1, <4>1, <4>3, <5>1
      <4> QED BY <4>2, <4>3
    <3>2. CASE i # n + 1
      <4>1. i \in 1..n /\ h[i] = g[i] /\ (i # 1 => h[i - 1] = g[i - 1])
        BY <2>2, <3>2
      <4> HIDE DEF h
      <4>2. g[i] = IF i = 1 THEN P[i] ELSE g[i - 1] \o P[i]
        BY <2>1, <4>1
      <4> QED BY <4>1, <4>2
    <3> QED BY <3>1, <3>2
  <2> HIDE DEF h
  <2> QED BY <2>6, <2>7
<1> HIDE DEF Up
<1>3. Bad = {}
  <2> SUFFICES ASSUME Bad # {} PROVE FALSE
    OBVIOUS
  <2>1. Bad \in SUBSET Nat
    OBVIOUS
  <2>2. PICK x \in Bad : \A y \in Bad : x <= y
    BY <2>1, LeastOf
  <2>3. x # 0
    BY <1>1
  <2>4. x - 1 \in 0..(Len(v) - 1) /\ x - 1 \notin Bad /\ (x - 1) + 1 = x
    BY <1>0, <2>2, <2>3
  <2>5. Up(x - 1)
    BY <1>0, <2>4
  <2>6. Up((x - 1) + 1)
    BY <1>2, <2>4, <2>5
  <2> QED BY <2>4, <2>6
<1>4. Up(Len(v))
  BY <1>0, <1>3
<1> QED BY <1>4 DEF Up, Joins, P

(* The last of its values is the text of the version.                      *)
LEMMA TextOfIsText ==
    ASSUME NEW v \in Version
    PROVE  TextOf(v) \in Text
<1> DEFINE P == Pieces(v)
           Step(f) == [i \in 1..Len(P) |-> IF i = 1 THEN P[i] ELSE f[i - 1] \o P[i]]
           F == CHOOSE f : f = Step(f)
<1>1. Len(v) \in Nat /\ Len(P) = Len(v) /\ P \in Seq(Text) /\ \A i \in 1..Len(v) : P[i] \in Text
  BY PiecesAreText
<1>2. TextOf(v) = IF Len(P) = 0 THEN P ELSE F[Len(P)]
  BY DEF TextOf, FlattenSeq, Pieces
<1>3. PICK g : Joins(v, g)
  BY JoinsExist
<1>4. g = Step(g)
  BY <1>1, <1>3 DEF Joins
<1>5. F = Step(F)
  BY <1>4
<1>6. \A i \in 1..Len(v) : F[i] = IF i = 1 THEN P[i] ELSE F[i - 1] \o P[i]
  <2> HIDE DEF F, P
  <2> QED BY <1>1, <1>5
<1> HIDE DEF P, F, Step
<1> DEFINE Bad == {i \in 1..Len(v) : F[i] \notin Text}
<1>7. Bad = {}
  <2> SUFFICES ASSUME Bad # {} PROVE FALSE
    OBVIOUS
  <2>1. Bad \in SUBSET Nat
    OBVIOUS
  <2>2. PICK x \in Bad : \A y \in Bad : x <= y
    BY <2>1, LeastOf
  <2>3. x \in 1..Len(v) /\ F[x] \notin Text /\ P[x] \in Text
    BY <1>1, <2>2
  <2>4. x # 1
    BY <1>6, <2>3
  <2>5. x - 1 \in 1..Len(v) /\ x - 1 \notin Bad
    BY <1>1, <2>2, <2>3, <2>4
  <2>6. F[x - 1] \in Text
    BY <2>5
  <2>7. F[x] = F[x - 1] \o P[x]
    BY <1>6, <2>3, <2>4
  <2>8. \A s, t \in Seq(Nat) : s \o t \in Seq(Nat)
    OBVIOUS
  <2> QED BY <2>3, <2>6, <2>7, <2>8, Zenon DEF Text
<1>8. CASE Len(v) = 0
  <2>1. P = <<>>
    BY <1>1, <1>8
  <2>2. <<>> \in Seq(Nat)
    OBVIOUS
  <2> QED BY <1>1, <1>2, <1>8, <2>1, <2>2, Zenon DEF Text
<1>9. CASE Len(v) # 0
  <2>1. Len(v) \in 1..Len(v)
    BY <1>1, <1>9
  <2>2. F[Len(v)] \in Text
    BY <1>7, <2>1
  <2> QED BY <1>1, <1>2, <1>9, <2>2
<1> QED BY <1>8, <1>9

(* What is assumed of the files, for one of them.                          *)
LEMMA FileFacts ==
    ASSUME NEW f \in Files
    PROVE  f.version \in Version /\ TextOf(f.version) \in Text /\ f # NoFile
<1>1. f.version \in Seq(DOMAIN Spelling) /\ NoFile \notin Files
  BY FilesAssumption
<1>2. f.version \in Version
  BY <1>1 DEF Version, Parts
<1> QED BY <1>1, <1>2, TextOfIsText

(* The listing of the files of a flavor is an order.                       *)
LEMMA PathsOrdered ==
    ASSUME NEW f \in Files, NEW g \in Files, f.flavor = g.flavor, f # g
    PROVE  (PathBelow(f, g) \/ PathBelow(g, f)) /\ ~(PathBelow(f, g) /\ PathBelow(g, f))
<1> DEFINE s == TextOf(f.version)
           t == TextOf(g.version)
<1>1. s \in Text /\ t \in Text
  BY FileFacts
<1>2. /\ f = [dir |-> f.dir, flavor |-> f.flavor, version |-> f.version]
      /\ g = [dir |-> g.dir, flavor |-> g.flavor, version |-> g.version]
      /\ f.dir = "" \/ g.dir = "" \/ f.dir = g.dir
      /\ s = t => f.version = g.version
  BY FilesAssumption
<1>3. f.dir = g.dir => s # t
  BY <1>2
<1> HIDE DEF s, t
<1>4. s # t => (TextBelow(s, t) \/ TextBelow(t, s)) /\ ~(TextBelow(s, t) /\ TextBelow(t, s))
  BY <1>1, TextsPart, TextBelowOneWay
<1>5. /\ PathBelow(f, g) <=> \/ f.dir = "" /\ g.dir # ""
                             \/ f.dir = g.dir /\ f # g /\ TextBelow(s, t)
      /\ PathBelow(g, f) <=> \/ g.dir = "" /\ f.dir # ""
                             \/ g.dir = f.dir /\ g # f /\ TextBelow(t, s)
  BY DEF PathBelow, s, t
<1> QED BY <1>2, <1>3, <1>4, <1>5

(* It is transitive.                                                       *)
LEMMA PathsTransitive ==
    ASSUME NEW f \in Files, NEW g \in Files, NEW h \in Files, PathBelow(f, g), PathBelow(g, h)
    PROVE  PathBelow(f, h)
<1> DEFINE s == TextOf(f.version)
           t == TextOf(g.version)
           u == TextOf(h.version)
<1>1. s \in Text /\ t \in Text /\ u \in Text
  BY FileFacts
<1>2. f = h => s = u
  OBVIOUS
<1> HIDE DEF s, t, u
<1>3. TextBelow(s, t) /\ TextBelow(t, u) => TextBelow(s, u)
  BY <1>1, TextBelowTransitive
<1>4. TextBelow(s, u) => s # u
  BY <1>1, TextBelowOneWay
<1>5. /\ PathBelow(f, g) <=> \/ f.dir = "" /\ g.dir # ""
                             \/ f.dir = g.dir /\ f # g /\ TextBelow(s, t)
      /\ PathBelow(g, h) <=> \/ g.dir = "" /\ h.dir # ""
                             \/ g.dir = h.dir /\ g # h /\ TextBelow(t, u)
      /\ PathBelow(f, h) <=> \/ f.dir = "" /\ h.dir # ""
                             \/ f.dir = h.dir /\ f # h /\ TextBelow(s, u)
  BY DEF PathBelow, s, t, u
<1> QED BY <1>2, <1>3, <1>4, <1>5

(* Files that are listed one after another: those of one flavor.           *)
Group(S) == S \subseteq Files /\ \A f, g \in S : f.flavor = g.flavor

IsFirst(S, f) == f \in S /\ \A g \in S : f = g \/ PathBelow(f, g)
IsLast(S, f) == f \in S /\ \A g \in S : f = g \/ PathBelow(g, f)

(* Some files of one flavor are again such files, and finitely many.       *)
LEMMA SubGroup ==
    ASSUME NEW S, Group(S), NEW T \in SUBSET S
    PROVE  Group(T) /\ IsFiniteSet(T) /\ Cardinality(T) \in Nat
<1>1. IsFiniteSet(Files) /\ T \in SUBSET Files /\ Group(T)
  BY FilesAssumption DEF Group
<1>2. IsFiniteSet(T)
  BY <1>1, FS_Subset
<1> QED BY <1>1, <1>2, FS_CardinalityType

(* Such files have a first and a last one in the listing: if they had not, *)
(* there would be a least number of files for which that is so.            *)
LEMMA EndsExist ==
    ASSUME NEW S, Group(S), S # {}
    PROVE  (\E f : IsFirst(S, f)) /\ (\E f : IsLast(S, f))
<1> DEFINE HasEnds(T) == (\E f : IsFirst(T, f)) /\ (\E f : IsLast(T, f))
           Bad == {T \in SUBSET S : T # {} /\ ~HasEnds(T)}
           Sizes == {Cardinality(T) : T \in Bad}
<1>1. \A T \in SUBSET S : Group(T) /\ IsFiniteSet(T) /\ Cardinality(T) \in Nat
  BY SubGroup
<1>2. ASSUME NEW T \in SUBSET S, T # {}, \A U \in SUBSET T : U # {} /\ U # T => HasEnds(U)
      PROVE  HasEnds(T)
  <2>1. PICK x \in T : TRUE
    BY <1>2
  <2> DEFINE U == T \ {x}
  <2>2. CASE U = {}
    <3>1. IsFirst(T, x) /\ IsLast(T, x)
      BY <2>1, <2>2 DEF IsFirst, IsLast
    <3> QED BY <3>1
  <2>3. CASE U # {}
    <3>1. PICK a, z : IsFirst(U, a) /\ IsLast(U, z)
      <4>1. U \in SUBSET T /\ U # T
        BY <2>1
      <4> HIDE DEF U
      <4> QED BY <1>2, <2>3, <4>1
    <3>2. a \in U /\ z \in U /\ x \notin U /\ T = U \cup {x}
      BY <2>1, <3>1 DEF IsFirst, IsLast
    <3>3. U \subseteq Files /\ x \in Files /\ a \in Files /\ z \in Files
          /\ a.flavor = x.flavor /\ z.flavor = x.flavor /\ a # x /\ z # x
      BY <1>1, <1>2, <2>1, <3>2 DEF Group
    <3>4. (PathBelow(a, x) \/ PathBelow(x, a)) /\ (PathBelow(z, x) \/ PathBelow(x, z))
      BY <3>3, PathsOrdered
    <3> HIDE DEF U
    <3>5. \A g \in U : PathBelow(x, a) => PathBelow(x, g)
      BY <3>1, <3>3, PathsTransitive DEF IsFirst
    <3>6. \A g \in U : PathBelow(z, x) => PathBelow(g, x)
      BY <3>1, <3>3, PathsTransitive DEF IsLast
    <3>7. \E f : IsFirst(T, f)
      <4>1. CASE PathBelow(a, x)
        <5>1. IsFirst(T, a)
          BY <3>1, <3>2, <4>1 DEF IsFirst
        <5> QED BY <5>1
      <4>2. CASE PathBelow(x, a)
        <5>1. IsFirst(T, x)
          BY <3>2, <3>5, <4>2 DEF IsFirst
        <5> QED BY <5>1
      <4> QED BY <3>4, <4>1, <4>2
    <3>8. \E f : IsLast(T, f)
      <4>1. CASE PathBelow(x, z)
        <5>1. IsLast(T, z)
          BY <3>1, <3>2, <4>1 DEF IsLast
        <5> QED BY <5>1
      <4>2. CASE PathBelow(z, x)
        <5>1. IsLast(T, x)
          BY <3>2, <3>6, <4>2 DEF IsLast
        <5> QED BY <5>1
      <4> QED BY <3>4, <4>1, <4>2
    <3> QED BY <3>7, <3>8
  <2> QED BY <2>2, <2>3
<1> HIDE DEF HasEnds
<1>3. Bad = {}
  <2> SUFFICES ASSUME Bad # {} PROVE FALSE
    OBVIOUS
  <2>1. Sizes \in SUBSET Nat /\ Sizes # {}
    BY <1>1
  <2>2. PICK n \in Sizes : \A m \in Sizes : n <= m
    <3> HIDE DEF Sizes
    <3> QED BY <2>1, LeastOf
  <2>3. PICK T \in Bad : n = Cardinality(T)
    BY <2>2
  <2>4. T \in SUBSET S /\ T # {} /\ ~HasEnds(T) /\ IsFiniteSet(T) /\ Cardinality(T) \in Nat
    BY <1>1, <2>3
  <2>5. PICK U \in SUBSET T : U # {} /\ U # T /\ ~HasEnds(U)
    BY <1>2, <2>4
  <2>6. U \in Bad
    BY <2>4, <2>5
  <2>7. n <= Cardinality(U)
    BY <2>2, <2>6
  <2>8. Cardinality(U) <= Cardinality(T) /\ Cardinality(U) # Cardinality(T) /\ Cardinality(U) \in Nat
    BY <1>1, <2>4, <2>5, FS_Subset
  <2> QED BY <2>3, <2>4, <2>7, <2>8
<1>4. S \in SUBSET S
  OBVIOUS
<1> QED BY <1>3, <1>4 DEF HasEnds

(* The first and the last listed file are files of the set.                *)
LEMMA EndsAreChosen ==
    ASSUME NEW S, Group(S), S # {}
    PROVE  First(S) \in S /\ LastListed(S) \in S /\ IsLast(S, LastListed(S))
<1>1. (\E f : IsFirst(S, f)) /\ (\E f : IsLast(S, f))
  BY EndsExist
<1>2. \E f \in S : \A g \in S : f = g \/ PathBelow(f, g)
  BY <1>1 DEF IsFirst
<1>3. \E f \in S : \A g \in S : f = g \/ PathBelow(g, f)
  BY <1>1 DEF IsLast
<1>4. First(S) \in S
  BY <1>2 DEF First
<1>5. LastListed(S) \in S /\ \A g \in S : LastListed(S) = g \/ PathBelow(g, LastListed(S))
  <2> DEFINE P(f) == f \in S /\ \A g \in S : f = g \/ PathBelow(g, f)
             c == CHOOSE f : P(f)
  <2>1. \E f : P(f)
    BY <1>3
  <2>2. P(c)
    <3> HIDE DEF P
    <3> QED BY <2>1
  <2>3. LastListed(S) = c
    BY DEF LastListed
  <2> QED BY <2>2, <2>3
<1> QED BY <1>4, <1>5 DEF IsLast

(* FindFirmwareForFlavor's loop body, for the files S.                     *)
Best(f, best) == IF best = NoFile \/ compareVersions(f.version, best.version) > 0 THEN f ELSE best
Scanned(g, L) == IF L = {} THEN NoFile ELSE Best(LastListed(L), g[L \ {LastListed(L)}])

Scans(S, g) == g = [L \in SUBSET S |-> Scanned(g, L)]

(* The files listed before the last one are one less.                      *)
LEMMA RestIsSmaller ==
    ASSUME NEW S, Group(S), NEW L \in SUBSET S, L # {}
    PROVE  /\ LastListed(L) \in L /\ L \ {LastListed(L)} \in SUBSET S
           /\ Cardinality(L) \in Nat /\ Cardinality(L \ {LastListed(L)}) = Cardinality(L) - 1
<1>1. Group(L) /\ IsFiniteSet(L) /\ Cardinality(L) \in Nat
  BY SubGroup
<1>2. LastListed(L) \in L
  BY <1>1, EndsAreChosen
<1>3. Cardinality(L \ {LastListed(L)}) = Cardinality(L) - 1
  BY <1>1, <1>2, FS_RemoveElement
<1> QED BY <1>1, <1>2, <1>3

(* The loop is defined: there is a function that gives its best file after *)
(* any of the files, by the number of them.                                *)
LEMMA ScansExist ==
    ASSUME NEW S, Group(S)
    PROVE  \E g : Scans(S, g)
<1> DEFINE Up(n) == \E g \in [SUBSET S -> S \cup {NoFile}] :
                       \A L \in SUBSET S : Cardinality(L) <= n => g[L] = Scanned(g, L)
           Bad == {n \in Nat : ~Up(n)}
<1>1. Up(0)
  <2> DEFINE g == [L \in SUBSET S |-> NoFile]
  <2>1. g \in [SUBSET S -> S \cup {NoFile}]
    OBVIOUS
  <2>2. ASSUME NEW L \in SUBSET S, Cardinality(L) <= 0 PROVE g[L] = Scanned(g, L)
    <3>1. IsFiniteSet(L) /\ Cardinality(L) \in Nat
      BY SubGroup
    <3>2. L = {}
      BY <2>2, <3>1, FS_EmptySet
    <3> QED BY <3>2 DEF Scanned
  <2> HIDE DEF g
  <2> QED BY <2>1, <2>2
<1>2. ASSUME NEW n \in Nat, Up(n) PROVE Up(n + 1)
  <2>1. PICK g \in [SUBSET S -> S \cup {NoFile}] : \A L \in SUBSET S : Cardinality(L) <= n => g[L] = Scanned(g, L)
    BY <1>2
  <2> DEFINE h == [L \in SUBSET S |-> IF Cardinality(L) <= n THEN g[L] ELSE Scanned(g, L)]
  <2>2. ASSUME NEW L \in SUBSET S PROVE Scanned(g, L) \in S \cup {NoFile}
    <3>1. CASE L = {}
      BY <3>1 DEF Scanned
    <3>2. CASE L # {}
      <4>1. LastListed(L) \in S /\ g[L \ {LastListed(L)}] \in S \cup {NoFile}
        BY <2>1, <3>2, RestIsSmaller
      <4> QED BY <3>2, <4>1 DEF Scanned, Best
    <3> QED BY <3>1, <3>2
  <2>3. h \in [SUBSET S -> S \cup {NoFile}]
    <3>1. \A L \in SUBSET S : (IF Cardinality(L) <= n THEN g[L] ELSE Scanned(g, L)) \in S \cup {NoFile}
      BY <2>1, <2>2
    <3> QED BY <3>1
  <2>4. ASSUME NEW L \in SUBSET S, Cardinality(L) <= n + 1 PROVE h[L] = Scanned(h, L)
    <3>1. Scanned(h, L) = Scanned(g, L)
      <4>1. CASE L = {}
        BY <4>1 DEF Scanned
      <4>2. CASE L # {}
        <5> DEFINE R == L \ {LastListed(L)}
        <5>1. R \in SUBSET S /\ Cardinality(L) \in Nat /\ Cardinality(R) = Cardinality(L) - 1
          BY <4>2, RestIsSmaller
        <5>2. Cardinality(R) <= n
          BY <2>4, <5>1
        <5>3. h[R] = g[R]
          <6> HIDE DEF R
          <6> QED BY <5>1, <5>2
        <5> HIDE DEF h
        <5> QED BY <4>2, <5>3 DEF Scanned
      <4> QED BY <4>1, <4>2
    <3>2. h[L] = Scanned(g, L)
      BY <2>1
    <3> QED BY <3>1, <3>2
  <2> HIDE DEF h
  <2> QED BY <2>3, <2>4
<1> HIDE DEF Up
<1>3. Bad = {}
  <2> SUFFICES ASSUME Bad # {} PROVE FALSE
    OBVIOUS
  <2>1. Bad \in SUBSET Nat
    OBVIOUS
  <2>2. PICK x \in Bad : \A y \in Bad : x <= y
    BY <2>1, LeastOf
  <2>3. x # 0
    BY <1>1
  <2>4. x - 1 \in Nat /\ x - 1 \notin Bad /\ (x - 1) + 1 = x
    BY <2>2, <2>3
  <2>5. Up((x - 1) + 1)
    BY <1>2, <2>4
  <2> QED BY <2>4, <2>5
<1>4. IsFiniteSet(S) /\ Cardinality(S) \in Nat
  BY SubGroup
<1>5. Up(Cardinality(S))
  BY <1>3, <1>4
<1>6. PICK g \in [SUBSET S -> S \cup {NoFile}] : \A L \in SUBSET S : Cardinality(L) <= Cardinality(S) => g[L] = Scanned(g, L)
  BY <1>5 DEF Up
<1>7. \A L \in SUBSET S : g[L] = Scanned(g, L)
  BY <1>4, <1>6, FS_Subset
<1>8. g = [L \in SUBSET S |-> Scanned(g, L)]
  BY <1>6, <1>7
<1> QED BY <1>8 DEF Scans

(* The loop keeps a newest of the files listed so far.                     *)
LEMMA BestIsNewest ==
    ASSUME NEW L, Group(L), NEW f \in L, NEW b,
           \/ L = {f} /\ b = NoFile
           \/ b \in L \ {f} /\ \A g \in L \ {f} : compareVersions(b.version, g.version) >= 0
    PROVE  Best(f, b) \in Newest(L)
<1>0. \A g \in L : g \in Files /\ g.version \in Version /\ g.version \in Versions /\ g # NoFile
  BY FileFacts DEF Group, Versions
<1>1. \A g, h \in L : /\ compareVersions(g.version, h.version) \in Int
                      /\ compareVersions(g.version, h.version) = 0 <=> g.version = h.version
                      /\ compareVersions(g.version, h.version) > 0 <=> compareVersions(h.version, g.version) < 0
  BY <1>0, VersionSigns
<1>2. CASE L = {f} /\ b = NoFile
  <2>1. Best(f, b) = f
    BY <1>2 DEF Best
  <2>2. compareVersions(f.version, f.version) = 0
    BY <1>1
  <2> QED BY <1>2, <2>1, <2>2 DEF Newest
<1>3. CASE b \in L \ {f} /\ \A g \in L \ {f} : compareVersions(b.version, g.version) >= 0
  <2>1. CASE compareVersions(f.version, b.version) > 0
    <3>1. Best(f, b) = f
      BY <2>1 DEF Best
    <3>2. ASSUME NEW g \in L PROVE compareVersions(f.version, g.version) >= 0
      <4>1. CASE g = f
        BY <1>1, <4>1
      <4>2. CASE g # f /\ b.version = g.version
        <5>1. compareVersions(f.version, g.version) \in Int /\ compareVersions(f.version, g.version) > 0
          BY <1>1, <2>1, <4>2
        <5> QED BY <5>1
      <4>3. CASE g # f /\ b.version # g.version
        <5>1. compareVersions(b.version, g.version) \in Int /\ compareVersions(b.version, g.version) >= 0
              /\ compareVersions(b.version, g.version) # 0
          BY <1>1, <1>3, <4>3
        <5>2. compareVersions(b.version, g.version) > 0
          BY <5>1
        <5>3. compareVersions(f.version, g.version) > 0
          <6> DEFINE u == f.version
                     v == b.version
                     w == g.version
          <6>1. u \in Versions /\ v \in Versions /\ w \in Versions
            BY <1>0, <1>3
          <6>2. compareVersions(u, v) > 0 /\ compareVersions(v, w) > 0
            BY <2>1, <5>2
          <6> HIDE DEF u, v, w
          <6>3. compareVersions(u, w) > 0
            BY <6>1, <6>2, FilesAssumption
          <6> QED BY <6>3 DEF u, w
        <5>4. compareVersions(f.version, g.version) \in Int
          BY <1>1
        <5> QED BY <5>3, <5>4
      <4> QED BY <4>1, <4>2, <4>3
    <3> QED BY <3>1, <3>2 DEF Newest
  <2>2. CASE ~(compareVersions(f.version, b.version) > 0)
    <3>1. Best(f, b) = b
      BY <1>0, <1>3, <2>2 DEF Best
    <3>2. compareVersions(b.version, f.version) >= 0
      <4>1. compareVersions(f.version, b.version) \in Int /\ compareVersions(b.version, f.version) \in Int
            /\ (compareVersions(f.version, b.version) > 0 <=> compareVersions(b.version, f.version) < 0)
        BY <1>1, <1>3
      <4> QED BY <2>2, <4>1
    <3>3. \A g \in L : compareVersions(b.version, g.version) >= 0
      BY <1>3, <3>2
    <3> QED BY <1>3, <3>1, <3>3 DEF Newest
  <2> QED BY <2>1, <2>2
<1> QED BY <1>2, <1>3

(* It does so for any number of files.                                     *)
LEMMA ScanIsNewest ==
    ASSUME NEW S, Group(S), NEW scan, Scans(S, scan)
    PROVE  \A L \in SUBSET S : L # {} => scan[L] \in Newest(L)
<1> DEFINE Bad == {L \in SUBSET S : L # {} /\ scan[L] \notin Newest(L)}
           Sizes == {Cardinality(L) : L \in Bad}
<1>1. \A L \in SUBSET S : Group(L) /\ IsFiniteSet(L) /\ Cardinality(L) \in Nat
  BY SubGroup
<1>2. \A L \in SUBSET S : scan[L] = Scanned(scan, L)
  <2>1. scan = [L \in SUBSET S |-> Scanned(scan, L)]
    BY DEF Scans
  <2> QED BY <2>1
<1>3. Bad = {}
  <2> SUFFICES ASSUME Bad # {} PROVE FALSE
    OBVIOUS
  <2>1. Sizes \in SUBSET Nat /\ Sizes # {}
    BY <1>1
  <2>2. PICK n \in Sizes : \A m \in Sizes : n <= m
    <3> HIDE DEF Sizes
    <3> QED BY <2>1, LeastOf
  <2>3. PICK L \in Bad : n = Cardinality(L)
    BY <2>2
  <2> DEFINE f == LastListed(L)
             R == L \ {f}
  <2>4. L \in SUBSET S /\ L # {} /\ scan[L] \notin Newest(L) /\ Group(L)
    BY <1>1, <2>3
  <2>5. f \in L /\ R \in SUBSET S /\ Cardinality(L) \in Nat /\ Cardinality(R) = Cardinality(L) - 1
    BY <2>4, RestIsSmaller
  <2>6. R \notin Bad
    <3>1. R \in Bad => n <= Cardinality(R)
      BY <2>2
    <3> HIDE DEF R
    <3> QED BY <2>3, <2>5, <3>1
  <2>7. scan[L] = Best(f, scan[R])
    BY <1>2, <2>4 DEF Scanned
  <2>8. \/ L = {f} /\ scan[R] = NoFile
        \/ scan[R] \in L \ {f} /\ \A g \in L \ {f} : compareVersions(scan[R].version, g.version) >= 0
    <3>1. CASE R = {}
      <4>1. L = {f}
        BY <2>5, <3>1
      <4>2. scan[R] = NoFile
        BY <1>2, <2>5, <3>1 DEF Scanned
      <4> QED BY <4>1, <4>2
    <3>2. CASE R # {}
      <4>1. scan[R] \in Newest(R)
        BY <2>5, <2>6, <3>2
      <4> QED BY <4>1 DEF Newest
    <3> QED BY <3>1, <3>2
  <2>9. Best(f, scan[R]) \in Newest(L)
    <3> DEFINE b == scan[R]
    <3>1. \/ L = {f} /\ b = NoFile
          \/ b \in L \ {f} /\ \A g \in L \ {f} : compareVersions(b.version, g.version) >= 0
      BY <2>8
    <3> HIDE DEF f, b
    <3>2. Best(f, b) \in Newest(L)
      BY <2>4, <2>5, <3>1, BestIsNewest
    <3> QED BY <3>2 DEF b
  <2> QED BY <2>4, <2>7, <2>9
<1> QED BY <1>3

(* The automatic choice for a flavor is a newest file of the flavor.       *)
LEMMA AutomaticIsNewest ==
    ASSUME shelf \subseteq Files, NEW f \in shelf
    PROVE  FindFirmwareForFlavor(f.flavor) \in Newest(OfFlavor(f.flavor))
<1> DEFINE S == OfFlavor(f.flavor)
           Step(g) == [L \in SUBSET S |->
                         IF L = {} THEN NoFile
                         ELSE LET l == LastListed(L)
                                  best == g[L \ {l}]
                              IN  IF best = NoFile \/ compareVersions(l.version, best.version) > 0 THEN l ELSE best]
           scan == CHOOSE g : g = Step(g)
<1>1. Group(S) /\ f \in S
  BY DEF Group, OfFlavor
<1>2. FindFirmwareForFlavor(f.flavor) = scan[S]
  BY DEF FindFirmwareForFlavor
<1> HIDE DEF S
<1>3. \A g : Step(g) = [L \in SUBSET S |-> Scanned(g, L)]
  BY DEF Scanned, Best
<1>4. \E g : g = Step(g)
  <2> HIDE DEF Step
  <2>1. PICK g : Scans(S, g)
    BY <1>1, ScansExist
  <2> QED BY <1>3, <2>1 DEF Scans
<1>5. Scans(S, scan)
  <2>1. scan = Step(scan)
    <3> HIDE DEF Step
    <3> QED BY <1>4
  <2> HIDE DEF scan, Step
  <2> QED BY <1>3, <2>1 DEF Scans
<1> HIDE DEF scan
<1>6. scan[S] \in Newest(S)
  <2>1. S \in SUBSET S /\ S # {}
    BY <1>1
  <2> QED BY <1>1, <1>5, <2>1, ScanIsNewest
<1> QED BY <1>2, <1>6 DEF S

(* A version stands for a file of that version, if one is there.           *)
LEMMA VersionStandsForMatch ==
    ASSUME shelf \subseteq Files, NEW f \in shelf
    PROVE  firmwareMatches(f.version, FindFirmwareByVersion(f.version, f.flavor))
<1> DEFINE hits == {g \in OfFlavor(f.flavor) : compareVersions(g.version, f.version) = 0}
<1>1. \A g \in shelf : g.version \in Version
  BY FileFacts
<1>2. \A g \in shelf : compareVersions(g.version, f.version) = 0 <=> g.version = f.version
  BY <1>1, VersionSigns
<1>3. Group(hits) /\ f \in hits
  BY <1>2 DEF Group, OfFlavor
<1>4. FindFirmwareByVersion(f.version, f.flavor) = IF hits = {} THEN NoFile ELSE First(hits)
  BY DEF FindFirmwareByVersion
<1>5. \A g \in hits : g.version = f.version
  BY <1>2 DEF OfFlavor
<1> HIDE DEF hits
<1>6. First(hits) \in hits /\ hits # {}
  BY <1>3, EndsAreChosen
<1>7. FindFirmwareByVersion(f.version, f.flavor).version = f.version
  BY <1>4, <1>5, <1>6
<1> QED BY <1>2, <1>7 DEF firmwareMatches

(* A name stands for the file with that name, unless two have it.          *)
LEMMA NameStandsForMatch ==
    ASSUME shelf \subseteq Files, NEW f \in shelf
    PROVE  \/ SameName(f, FileFor([by |-> "name", file |-> f], f.flavor))
           \/ \E g \in shelf : g # f /\ SameName(f, g)
<1> DEFINE hits == {g \in shelf : SameName(g, f)}
<1>1. FileFor([by |-> "name", file |-> f], f.flavor) =
        IF Cardinality(hits) = 1 THEN CHOOSE g \in hits : TRUE ELSE NoFile
  BY DEF FileFor, resolveFirmwareReference
<1>2. f \in hits /\ \A g \in hits : g \in shelf /\ SameName(f, g)
  BY DEF SameName
<1>3. IsFiniteSet(hits)
  <2>1. IsFiniteSet(Files) /\ hits \in SUBSET Files
    BY FilesAssumption
  <2> QED BY <2>1, FS_Subset
<1> HIDE DEF hits
<1>4. CASE Cardinality(hits) = 1
  <2>1. (CHOOSE g \in hits : TRUE) \in hits
    BY <1>2
  <2> QED BY <1>1, <1>2, <1>4, <2>1
<1>5. CASE Cardinality(hits) # 1
  <2>1. hits # {f}
    BY <1>3, <1>5, FS_Singleton
  <2>2. \E g \in hits : g # f
    BY <1>2, <2>1
  <2> QED BY <1>2, <2>2
<1> QED BY <1>4, <1>5

(* 10 follows 9, and a release its candidate.                              *)
LEMMA SampleVersions ==
    /\ compareVersions(<<"8", "10">>, <<"8", "9">>) > 0
    /\ compareVersions(<<"8", "9">>, <<"8", "9", "rc3">>) > 0
<1> DEFINE a == <<"8", "10">>
           b == <<"8", "9">>
           c == <<"8", "9", "rc3">>
<1>1. a \in Version /\ b \in Version /\ c \in Version
  <2>1. "8" \in Parts /\ "9" \in Parts /\ "10" \in Parts /\ "rc3" \in Parts
    BY SpellingFacts
  <2> HIDE DEF Parts
  <2> QED BY <2>1 DEF Version
<1>2. /\ Len(a) = 2 /\ a[1] = "8" /\ a[2] = "10"
      /\ Len(b) = 2 /\ b[1] = "8" /\ b[2] = "9"
      /\ Len(c) = 3 /\ c[1] = "8" /\ c[2] = "9" /\ c[3] = "rc3"
  OBVIOUS
<1> HIDE DEF a, b, c
<1>3. Common(a, b) = {1, 2} /\ Common(b, c) = {1, 2}
  BY <1>2 DEF Common
<1>4. compareVersions(a, b) > 0
  <2>1. \E i \in Common(a, b) : a[i] # b[i]
    BY <1>2, <1>3
  <2>2. PICK i : FirstDifference(a, b, i) /\ compareVersions(a, b) = comparePart(a[i], b[i])
    BY <1>1, <2>1, DifferenceFound
  <2>3. a[i] = "10" /\ b[i] = "9"
    BY <1>2, <1>3, <2>2 DEF FirstDifference
  <2>4. comparePart("10", "9") = 1
    BY DEF comparePart, IsNumber, Value
  <2> QED BY <2>2, <2>3, <2>4
<1>5. compareVersions(b, c) > 0
  <2>1. \A i \in Common(b, c) : b[i] = c[i]
    BY <1>2, <1>3
  <2>2. compareVersions(b, c) = compareTails(b, c)
    BY <2>1 DEF compareVersions
  <2>3. Len(b) < Len(c) /\ 3 \in (Len(b) + 1)..Len(c) /\ isPrerelease(c[3])
    BY <1>2 DEF isPrerelease
  <2>4. compareTails(b, c) = 1
    BY <1>2, <2>3 DEF compareTails
  <2> QED BY <2>2, <2>4
<1> QED BY <1>4, <1>5 DEF a, b, c

(* What SelectionSound says holds of every directory of known files.       *)
LEMMA ShelfSound == ASSUME shelf \subseteq Files PROVE SelectionSound
<1>1. \A a \in Versions : a \in Version
  BY FileFacts DEF Versions
<1>2. \A a, b \in Versions : /\ (compareVersions(a, b) = 0) = (a = b)
                             /\ (compareVersions(a, b) > 0) = (compareVersions(b, a) < 0)
  BY <1>1, VersionSigns
<1>3. \A a, b, c \in Versions :
         compareVersions(a, b) > 0 /\ compareVersions(b, c) > 0 => compareVersions(a, c) > 0
  BY FilesAssumption
<1>4. ASSUME NEW f \in shelf PROVE resolveFirmwareReference([by |-> "id", file |-> f]) = f
  BY <1>4 DEF resolveFirmwareReference
<1> QED BY <1>2, <1>3, <1>4, SampleVersions, AutomaticIsNewest, VersionStandsForMatch, NameStandsForMatch
        DEF SelectionSound

ShelfSpec == StoreInit /\ [][ShelfNext]_shelf

(* Uploads and deletions move only known files.                            *)
LEMMA ShelfSteps ==
    ASSUME shelf \subseteq Files, ShelfNext
    PROVE  shelf' \subseteq Files
BY DEF ShelfNext, SaveFirmware, DeleteFirmware

(* The choice of a file is sound in every state of the directory: compare- *)
(* Versions orders the versions in use, the automatic choice is a newest one *)
(* of the flavor, and an id, a version or a name stands for what it says   *)
(* (FindFirmwareForFlavor, FindFirmwareByVersion, resolveFirmwareReference). *)
THEOREM SelectionAlwaysSound == ShelfSpec => []SelectionSound
<1>1. StoreInit => shelf \subseteq Files
  BY DEF StoreInit
<1>2. shelf \subseteq Files /\ [ShelfNext]_shelf => (shelf \subseteq Files)'
  BY ShelfSteps
<1>3. shelf \subseteq Files => SelectionSound
  BY ShelfSound
<1> QED BY <1>1, <1>2, <1>3, PTL DEF ShelfSpec

(* The same of the run in which the directory, the radios and the bulk     *)
(* controller each move alone (StoreSelectionSound: where the directory does). *)
THEOREM StoreSound == MCFirmwareSpec => []StoreSelectionSound
<1> DEFINE Known == part = "store" => shelf \subseteq Files
<1>1. MCFwInit => Known
  BY DEF MCFwInit, StoreInit
<1>2. Known /\ [MCFwNext]_<<fwVars, bulkVars, part>> => Known'
  <2> SUFFICES ASSUME Known, [MCFwNext]_<<fwVars, bulkVars, part>>, part' = "store"
               PROVE  (shelf \subseteq Files)'
    OBVIOUS
  <2>1. CASE MCFwNext
    <3>1. part = "store" /\ shelf \subseteq Files
      BY <2>1 DEF MCFwNext
    <3>2. ShelfNext
      BY <2>1, <3>1 DEF MCFwNext
    <3> QED BY <3>1, <3>2, ShelfSteps
  <2>2. CASE UNCHANGED <<fwVars, bulkVars, part>>
    BY <2>2 DEF fwVars
  <2> QED BY <2>1, <2>2
<1>3. Known => StoreSelectionSound
  BY ShelfSound DEF StoreSelectionSound
<1> QED BY <1>1, <1>2, <1>3, PTL DEF MCFirmwareSpec

=============================================================================
