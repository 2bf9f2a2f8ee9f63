--------------------------- MODULE FirmwareUpgrade ---------------------------
(***************************************************************************)
(* Upgrades of radios (internal/firmware/service.go, reboot.go) and the    *)
(* change of a radio's password (ApplyConfigContext): several requests     *)
(* drive the same radios at once.                                          *)
(*                                                                         *)
(* A request is a sequence of batches of radios.  The radios of a batch    *)
(* are upgraded in parallel, and a batch starts when the one before it has *)
(* ended: that is how UpgradeFanout and UpgradeBulk put stations before    *)
(* their access point.  One radio of one request is a task, with a program *)
(* counter that stands where the code waits for the radio or the database. *)
(*                                                                         *)
(* The radio is external: it verifies what it is sent, refuses a second    *)
(* upload while one is pending, and a Wave radio reboots by itself.        *)
(***************************************************************************)
EXTENDS FirmwareStore

CONSTANTS Radios,     \* radios
          Parent,     \* [Radios -> Radios \cup {NoRadio}]: parent_id
          Flavor,     \* [Radios -> flavors]
          Requests,   \* requests
          Orders,     \* [Requests -> what they may ask for: records [kind, ids, ref, typed, force]]
          NoRadio,
          MaxLosses   \* answers, connections and writes that may get lost

\* Only a bulk upgrade names several radios.
ASSUME OrdersAssumption ==
    \A r \in Requests : \A o \in Orders[r] :
      /\ o.kind # "none" /\ o.ids \subseteq Radios /\ IsFiniteSet(o.ids)
      /\ o.kind # "bulk" => \E d \in Radios : o.ids = {d}

\* A station is behind an access point, which is behind nothing (the invariant
\* that breakStaParentLoops restores before every round of polls).
ASSUME ParentsAssumption ==
    NoRadio \notin Radios /\ \A d, e \in Radios : Parent[d] = e => Parent[e] = NoRadio

VARIABLES radio,      \* [Radios -> what the radio runs, holds and accepts]
          row,        \* [Radios -> the firmware and the credential in devices]
          order,      \* [Requests -> its order, or NoOrder before it comes in]
          batches,    \* [Requests -> batches not started yet]
          live,       \* requests whose context is not cancelled
          task,       \* [Requests -> [Radios -> task]]
          jobRow,     \* [Requests -> [Radios -> status in firmware_jobs]]
          losses,     \* losses so far
          troubled    \* radios whose stored credential a fault may have spoilt

fwVars == <<shelf, radio, row, order, batches, live, task, jobRow, losses, troubled>>

NoOrder == [kind |-> "none", ids |-> {}]
NoPair == "none"
\* Configured credential pairs, and the one an operator sets or types.
Configured == <<"p1">>
NewPair == "p2"

Wave(d) == Flavor[d] = "GMC"
Ltu(d)  == Flavor[d] = "AFLTU"
Airmax(d) == Flavor[d] = "WA"

NoTask == [pc |-> "none", file |-> NoFile, pair |-> NoPair, res |-> "none"]
Active(r, d) == task[r][d].pc \notin {"none", "done"}
Busy(d) == \E r \in Requests : Active(r, d)

-----------------------------------------------------------------------------
(***************************************************************************)
(* Batches.                                                                *)
(***************************************************************************)
Children(ap) == {d \in Radios : Parent[d] = ap}

FanoutBatches(ap) == <<Children(ap), {ap}>>

\* Mutant of BulkBatches: one batch for everything.
BulkBatchesAtOnce(ids) == <<ids>>

\* UpgradeBulk: for every access point of the list its stations of the list,
\* then itself; last the stations whose access point is not in the list.
BulkBatches(ids) ==
    LET aps == {d \in ids : Parent[d] = NoRadio}
        ap == SetToSeq(aps)
        n == Cardinality(aps)
        orphans == {d \in ids \ aps : Parent[d] \notin aps}
    IN  [i \in 1..(2 * n + 1) |-> CASE i = 2 * n + 1 -> orphans
                                   [] i # 2 * n + 1 /\ i % 2 = 1 -> Children(ap[(i + 1) \div 2]) \cap ids
                                   [] i # 2 * n + 1 /\ i % 2 = 0 -> {ap[i \div 2]}]

BatchesOf(o) == CASE o.kind = "fanout" -> FanoutBatches(CHOOSE d \in o.ids : TRUE)
                  [] o.kind = "bulk"   -> BulkBatches(o.ids)
                  [] OTHER             -> <<o.ids>>

\* A change of password and a retry that stores one: the last to write wins.
Stores(o) == o.kind \in {"config", "retry"}

Begin(r) ==
    /\ order[r] = NoOrder
    /\ \E o \in Orders[r] :
         /\ order' = [order EXCEPT ![r] = o]
         /\ batches' = [batches EXCEPT ![r] = BatchesOf(o)]
         /\ troubled' = troubled \cup
              IF Stores(o) THEN {d \in o.ids : \E q \in Requests : order[q] # NoOrder /\ Stores(order[q])
                                                                    /\ (Active(q, d) \/ batches[q] # <<>>)}
              ELSE {}
    /\ live' = live \cup {r}
    /\ UNCHANGED <<shelf, radio, row, task, jobRow, losses>>

\* The next batch starts when all tasks of the request have ended.
NextBatch(r) ==
    /\ batches[r] # <<>>
    /\ \A d \in Radios : ~Active(r, d)
    /\ batches' = [batches EXCEPT ![r] = Tail(@)]
    /\ task' = [task EXCEPT ![r] = [d \in Radios |->
                  IF d \in Head(batches[r]) THEN [NoTask EXCEPT !.pc = "ready"] ELSE @[d]]]
    /\ UNCHANGED <<shelf, radio, row, order, live, jobRow, losses, troubled>>

-----------------------------------------------------------------------------
(***************************************************************************)
(* One task.  Ends records the result: firmware_jobs, where a row was      *)
(* made, and what the caller is told.                                      *)
(***************************************************************************)
Goto(r, d, pc) == task' = [task EXCEPT ![r][d].pc = pc]

\* The task is over; a row that was inserted is updated by the next step.
Ends(r, d, res) ==
    task' = [task EXCEPT ![r][d] = [@ EXCEPT !.res = res,
               !.pc = IF jobRow[r][d] = "uploading" THEN "record" ELSE "done"]]

\* The file a task is for.
ChosenFile(o, d) ==
    CASE o.kind = "retry"  -> FindFirmwareForFlavor(Flavor[d])
      [] o.kind = "fanout" -> resolveFirmwareReference([by |-> "path", file |-> FindFirmwareForFlavor(Flavor[d])])
      [] OTHER             -> FileFor(o.ref, Flavor[d])

\* No file of the flavor: a fanout or a retry skips the radio.
Skips(o, d) ==
    \/ o.kind \in {"fanout", "retry"} /\ FindFirmwareForFlavor(Flavor[d]) = NoFile
    \/ LET f == IF o.kind = "fanout" THEN FindFirmwareForFlavor(Flavor[d]) ELSE ChosenFile(o, d)
       IN  ~o.force /\ f # NoFile /\ firmwareMatches(row[d].firmware, f)

\* Read the row, choose the credential and the file, insert the job row.
Prepare(r, d) ==
    LET o == order[r] f == ChosenFile(o, d) IN
    /\ task[r][d].pc = "ready" /\ o.kind # "config"
    /\ \/ Skips(o, d) /\ Ends(r, d, "skipped") /\ UNCHANGED jobRow
       \/ ~Skips(o, d) /\ f = NoFile /\ Ends(r, d, "failed") /\ UNCHANGED jobRow
       \/ /\ ~Skips(o, d) /\ f # NoFile
          /\ task' = [task EXCEPT ![r][d] = [@ EXCEPT !.pc = "login", !.file = f,
                        !.pair = IF o.kind = "retry" THEN o.typed ELSE row[d].own]]
          /\ jobRow' = [jobRow EXCEPT ![r][d] = "uploading"]
    /\ UNCHANGED <<shelf, radio, row, order, batches, live, losses, troubled>>

\* doUpgradeWithCreds: a retry over the Wave interface tries only what the
\* operator typed.
TypedOnly(r, d) == order[r].kind = "retry" /\ ~Airmax(d)

\* Pairs that are tried, in order; airMAX goes on with the configured ones.
Candidates(r, d) ==
    LET own == task[r][d].pair
        first == IF own = NoPair THEN <<>> ELSE <<own>>
    IN  IF TypedOnly(r, d) THEN first ELSE first \o Configured

Login(r, d) ==
    LET works == {i \in DOMAIN Candidates(r, d) : Candidates(r, d)[i] = radio[d].accepts} IN
    /\ task[r][d].pc = "login"
    /\ \/ works = {} /\ Ends(r, d, "auth_failed") /\ UNCHANGED troubled
       \/ /\ works # {}
          /\ task' = [task EXCEPT ![r][d] = [@ EXCEPT !.pc = "upload", !.pair = radio[d].accepts]]
          /\ troubled' = troubled \cup
               IF order[r].kind = "retry" /\ order[r].typed # radio[d].accepts THEN {d} ELSE {}
    /\ UNCHANGED <<shelf, radio, row, order, batches, live, jobRow, losses>>

\* uploadFirmware: the file may be gone, and a radio with a pending image
\* refuses ("already active").
Upload(r, d) ==
    /\ task[r][d].pc = "upload" /\ ~Airmax(d)
    /\ IF task[r][d].file \notin shelf \/ radio[d].image \in {"checking", "verified"}
       THEN Ends(r, d, "failed") /\ UNCHANGED radio
       ELSE /\ radio' = [radio EXCEPT ![d].image = "checking", ![d].holds = task[r][d].file.version]
            /\ Goto(r, d, "wait")
    /\ UNCHANGED <<shelf, row, order, batches, live, jobRow, losses, troubled>>

\* UpgradeFirmware: airMAX takes the image without a wait, over an older one
\* too, and is told to flash it at once.
UpgradeFirmware(r, d) ==
    /\ task[r][d].pc = "upload" /\ Airmax(d)
    /\ IF task[r][d].file \notin shelf
       THEN Ends(r, d, "failed") /\ UNCHANGED radio
       ELSE /\ radio' = [radio EXCEPT ![d].image = "verified", ![d].holds = task[r][d].file.version]
            /\ Goto(r, d, "act")
    /\ UNCHANGED <<shelf, row, order, batches, live, jobRow, losses, troubled>>

\* Mutant of waitForUpgrade: a pending check counts as finished.
waitForUpgradeEager(r, d) ==
    /\ task[r][d].pc = "wait" /\ r \in live
    /\ radio[d].image \in {"checking", "verified"}
    /\ IF radio[d].holds = radio[d].runs THEN Ends(r, d, "success") ELSE Goto(r, d, "act")
    /\ UNCHANGED <<shelf, radio, row, order, batches, live, jobRow, losses, troubled>>

\* waitForUpgrade polls until the radio has verified or refused the image.
waitForUpgrade(r, d) ==
    /\ task[r][d].pc = "wait" /\ r \in live
    /\ \/ /\ radio[d].image = "verified"
          /\ IF radio[d].holds = radio[d].runs THEN Ends(r, d, "success") ELSE Goto(r, d, "act")
       \/ radio[d].image = "rejected" /\ Ends(r, d, "failed")
    /\ UNCHANGED <<shelf, radio, row, order, batches, live, jobRow, losses, troubled>>

\* The caller is gone, or the deadline of five minutes has passed.
GiveUp(r, d) ==
    /\ task[r][d].pc = "wait"
    /\ r \notin live \/ radio[d].image \in {"none", "checking"}
    /\ Ends(r, d, "failed")
    /\ UNCHANGED <<shelf, radio, row, order, batches, live, jobRow, losses, troubled>>

\* A radio that restarts runs a verified image if the platform installs on
\* reboot or was told to flash.
Restarted(d, flash) ==
    [radio[d] EXCEPT !.image = "none",
                     !.runs = IF radio[d].image = "verified" /\ (flash \/ Wave(d)) THEN radio[d].holds ELSE @]

\* TriggerFlash: there is nothing to flash when the image is gone.
TriggerFlash(r, d) ==
    IF radio[d].image = "verified"
    THEN radio' = [radio EXCEPT ![d] = Restarted(d, TRUE)] /\ Ends(r, d, "success")
    ELSE Ends(r, d, "failed") /\ UNCHANGED radio

\* Wave is restarted; triggerLTUFlash logs in again with the pair that worked.
Act(r, d) ==
    /\ task[r][d].pc = "act"
    /\ \/ Wave(d) /\ radio' = [radio EXCEPT ![d] = Restarted(d, TRUE)] /\ Ends(r, d, "success")
       \/ Ltu(d) /\ task[r][d].pair # radio[d].accepts /\ Ends(r, d, "failed") /\ UNCHANGED radio
       \/ ~Wave(d) /\ (Ltu(d) => task[r][d].pair = radio[d].accepts) /\ TriggerFlash(r, d)
    /\ UNCHANGED <<shelf, row, order, batches, live, jobRow, losses, troubled>>

\* The last update of the job row; a successful retry goes on to store what
\* the operator typed.
Record(r, d) ==
    /\ task[r][d].pc = "record"
    /\ jobRow' = [jobRow EXCEPT ![r][d] = IF task[r][d].res = "success" THEN "success" ELSE "failed"]
    /\ Goto(r, d, IF order[r].kind = "retry" /\ task[r][d].res = "success" THEN "store" ELSE "done")
    /\ UNCHANGED <<shelf, radio, row, order, batches, live, losses, troubled>>

StoreTyped(r, d) ==
    /\ task[r][d].pc = "store"
    /\ row' = [row EXCEPT ![d].own = order[r].typed]
    /\ Goto(r, d, "done")
    /\ UNCHANGED <<shelf, radio, order, batches, live, jobRow, losses, troubled>>

-----------------------------------------------------------------------------
(***************************************************************************)
(* ApplyConfigContext with a new password.                                 *)
(***************************************************************************)
ConfigLogin(r, d) ==
    LET pair == IF row[d].own # NoPair THEN row[d].own ELSE Head(Configured) IN
    /\ task[r][d].pc = "ready" /\ order[r].kind = "config"
    /\ IF r \in live /\ pair = radio[d].accepts THEN Goto(r, d, "patch") ELSE Ends(r, d, "failed")
    /\ UNCHANGED <<shelf, radio, row, order, batches, live, jobRow, losses, troubled>>

ConfigPatch(r, d) ==
    /\ task[r][d].pc = "patch"
    /\ \/ r \notin live /\ Ends(r, d, "failed") /\ UNCHANGED radio
       \/ r \in live /\ radio' = [radio EXCEPT ![d].accepts = NewPair] /\ Goto(r, d, "persist")
    /\ UNCHANGED <<shelf, row, order, batches, live, jobRow, losses, troubled>>

\* Mutant of ConfigPersist: the statement runs under the request's context.
ConfigPersistAttached(r, d) ==
    /\ task[r][d].pc = "persist"
    /\ row' = IF r \in live THEN [row EXCEPT ![d].own = NewPair] ELSE row
    /\ Ends(r, d, IF r \in live THEN "success" ELSE "failed")
    /\ UNCHANGED <<shelf, radio, order, batches, live, jobRow, losses, troubled>>

\* Under a context of its own: a caller that is gone does not matter.
ConfigPersist(r, d) ==
    /\ task[r][d].pc = "persist"
    /\ row' = [row EXCEPT ![d].own = NewPair]
    /\ Ends(r, d, "success")
    /\ UNCHANGED <<shelf, radio, order, batches, live, jobRow, losses, troubled>>

-----------------------------------------------------------------------------
(***************************************************************************)
(* The world around a request.                                             *)
(***************************************************************************)
\* The caller disconnects, or the job is cancelled.  Only these places look
\* at the context, so an earlier cancel shows nowhere else.
Cancel(r) ==
    /\ \E d \in Radios : task[r][d].pc \in {"wait", "patch", "persist"}
    /\ r \in live /\ live' = live \ {r}
    /\ UNCHANGED <<shelf, radio, row, order, batches, task, jobRow, losses, troubled>>

\* A login, an upload, a reboot, a flash or a change of password whose answer
\* is lost; the radio has acted on it or not.  Only reboot and flash take
\* that for success.
Loses(r, d) ==
    /\ losses < MaxLosses /\ losses' = losses + 1
    /\ task[r][d].pc \in {"login", "upload", "act", "patch"}
    /\ radio' \in {radio, CASE task[r][d].pc = "upload" /\ radio[d].image = "none" ->
                                 [radio EXCEPT ![d].image = "checking", ![d].holds = task[r][d].file.version]
                            [] task[r][d].pc = "act"   -> [radio EXCEPT ![d] = Restarted(d, TRUE)]
                            [] task[r][d].pc = "patch" -> [radio EXCEPT ![d].accepts = NewPair]
                            [] OTHER -> radio}
    /\ \E res \in (CASE task[r][d].pc = "login" -> {"auth_failed"}
                     [] task[r][d].pc = "act" -> IF Wave(d) THEN {"success", "failed"} ELSE {"success"}
                     [] OTHER -> {"failed"}) : Ends(r, d, res)
    /\ troubled' = troubled \cup {d}
    /\ UNCHANGED <<shelf, row, order, batches, live, jobRow>>

\* A write of the job row or of a credential fails; dbExecIgnore logs it.
LosesWrite(r, d) ==
    /\ losses < MaxLosses /\ losses' = losses + 1
    /\ task[r][d].pc \in {"record", "store", "persist"}
    /\ Goto(r, d, "done")
    /\ troubled' = troubled \cup {d}
    /\ UNCHANGED <<shelf, radio, row, order, batches, live, jobRow>>

\* The radio checks the image.
Verify(d) ==
    /\ radio[d].image = "checking"
    /\ \E v \in {"verified", "rejected"} : radio' = [radio EXCEPT ![d].image = v]
    /\ UNCHANGED <<shelf, row, order, batches, live, task, jobRow, losses, troubled>>

\* A Wave radio installs by itself.
AutoReboot(d) ==
    /\ Wave(d) /\ radio[d].image = "verified"
    /\ radio' = [radio EXCEPT ![d] = Restarted(d, FALSE)]
    /\ UNCHANGED <<shelf, row, order, batches, live, task, jobRow, losses, troubled>>

\* RebootDeviceByID: any stored or configured pair that the radio accepts.
RebootDevice(d) ==
    /\ radio[d].accepts \in {row[d].own} \cup Range(Configured)
    /\ losses < MaxLosses /\ losses' = losses + 1
    /\ radio' = [radio EXCEPT ![d] = Restarted(d, FALSE)]
    /\ UNCHANGED <<shelf, row, order, batches, live, task, jobRow, troubled>>

\* The poller writes what the radio runs (between tasks, which read it only
\* when they start).
PollRow(d) ==
    /\ ~Busy(d)
    /\ row[d].firmware # radio[d].runs
    /\ row' = [row EXCEPT ![d].firmware = radio[d].runs]
    /\ UNCHANGED <<shelf, radio, order, batches, live, task, jobRow, losses, troubled>>

\* An operator deletes a firmware file while requests run.
DeleteFile(f) ==
    /\ losses < MaxLosses /\ losses' = losses + 1
    /\ DeleteFirmware([by |-> "id", file |-> f])
    /\ UNCHANGED <<radio, row, order, batches, live, task, jobRow, troubled>>

-----------------------------------------------------------------------------
UpgradeInit(old, owned) ==
    /\ radio = [d \in Radios |-> [runs |-> old, image |-> "none", holds |-> old, accepts |-> "p1"]]
    /\ row = [d \in Radios |-> [firmware |-> old, own |-> IF d \in owned THEN "p1" ELSE NoPair]]
    /\ order = [r \in Requests |-> NoOrder]
    /\ batches = [r \in Requests |-> <<>>]
    /\ live = {}
    /\ task = [r \in Requests |-> [d \in Radios |-> NoTask]]
    /\ jobRow = [r \in Requests |-> [d \in Radios |-> "none"]]
    /\ losses = 0
    /\ troubled = {}

TaskStep(r, d) == \/ Prepare(r, d) \/ Login(r, d) \/ Upload(r, d) \/ UpgradeFirmware(r, d) \/ waitForUpgrade(r, d) \/ Act(r, d)
                  \/ Record(r, d) \/ StoreTyped(r, d)
                  \/ ConfigLogin(r, d) \/ ConfigPatch(r, d) \/ ConfigPersist(r, d)

UpgradeNext ==
    \/ \E r \in Requests : \/ Begin(r) \/ NextBatch(r) \/ Cancel(r)
                           \/ \E d \in Radios : TaskStep(r, d) \/ GiveUp(r, d) \/ Loses(r, d) \/ LosesWrite(r, d)
    \/ \E d \in Radios : Verify(d) \/ AutoReboot(d) \/ RebootDevice(d) \/ PollRow(d)
    \/ \E f \in shelf : DeleteFile(f)

\* Goroutines run, the deadline comes, and Wave radios install what they have
\* verified.  Nothing repeats for ever, so it is enough that something goes on.
UpgradeFairness ==
    WF_fwVars(\/ \E r \in Requests : \/ NextBatch(r)
                                     \/ \E d \in Radios : TaskStep(r, d) \/ GiveUp(r, d)
              \/ \E d \in Radios : AutoReboot(d))

-----------------------------------------------------------------------------
\* ApAfterStations: a request touches an access point only when its tasks on
\* the stations behind it are over, because the restart of the access point
\* cuts them off (UpgradeFanout, UpgradeBulk).
ApAfterStations ==
    \A r \in Requests, d \in Radios :
      task[r][d].pc # "none" =>
        \A s \in Children(d) : /\ ~Active(r, s)
                               /\ \A i \in DOMAIN batches[r] : s \notin batches[r][i]

\* AccessKept: whatever requests come, and whenever their callers go away, the
\* credential the program would use for a radio is one the radio accepts.
\* Not claimed for a radio whose answer or row was lost, that two requests
\* storing a credential met on, or whose retry succeeded with another pair
\* than the one typed (airMAX only; the typed pair is stored all the same).
AccessKept ==
    \A d \in Radios \ troubled :
      (\A r \in Requests : task[r][d].pc \notin {"persist", "record", "store"})
        => radio[d].accepts = (IF row[d].own # NoPair THEN row[d].own ELSE Head(Configured))

\* SuccessTakes: in the end a radio runs what it was last reported to have
\* been upgraded to, unless answers were lost.
SuccessTakes ==
    <>[](\A d \in Radios \ troubled :
           LET done == {r \in Requests : task[r][d].res = "success" /\ order[r].kind # "config"}
           IN  done # {} => radio[d].runs \in {task[r][d].file.version : r \in done})

\* RequestsOver: every request has a result for each radio it named, and has
\* left no job row uploading, unless the write of it was lost.
RequestsOver ==
    \A r \in Requests, d \in Radios :
        /\ d \in order[r].ids => task[r][d].pc = "done"
        /\ jobRow[r][d] = "uploading" => d \in troubled

\* FanoutUpgrades: a fanout does not fail a radio it has a file for without
\* having tried to upgrade it ("upgrades an AP and all its connected STAs").
FanoutUpgrades ==
    \A r \in Requests, d \in Radios :
      order[r].kind = "fanout" /\ task[r][d].res = "failed" /\ FindFirmwareForFlavor(Flavor[d]) # NoFile
        => jobRow[r][d] # "none"
=============================================================================
