---------------------------- MODULE MCJobRunner ----------------------------
(***************************************************************************)
(* Instances of JobRunner for TLC, one run of three.  part says which jobs *)
(* are created: "plain" a fanout of one station and its AP and a single    *)
(* upgrade, "bulk" a bulk upgrade of a station and its AP and a job of a   *)
(* type that the switch of executeJob does not know, and "lossy" the       *)
(* fanout alone, on a database that may lose a write.                      *)
(***************************************************************************)
EXTENDS JobRunner, TLC

CONSTANTS j1, j2, j3, j4

VARIABLE part

FourJobs == {j1, j2, j3, j4}
Types    == j1 :> "fanout_upgrade" @@ j2 :> "upgrade" @@ j3 :> "restore" @@ j4 :> "bulk_upgrade"
Devices  == j1 :> 2 @@ j2 :> 1 @@ j3 :> 0 @@ j4 :> 2
Stations == j1 :> 1 @@ j2 :> 0 @@ j3 :> 0 @@ j4 :> 1

Created == CASE part = "plain" -> {j1, j2} [] part = "bulk" -> {j3, j4} [] OTHER -> {j1}

\* Only a bulk upgrade is shown a device that needs none.
Explored == {"none", "success", IF part = "bulk" THEN "skipped" ELSE "failed"}

RunnerInit == Init /\ part \in {"plain", "bulk", "lossy"}

RunnerNext ==
  /\ Next /\ UNCHANGED part
  /\ \A j \in Jobs \ Created : row'[j].status = "absent"
  /\ \A j \in Created, d \in Slots : outcome'[j][d] \in Explored
  /\ part # "lossy" => dbErrors' = 0

RunnerSpec == RunnerInit /\ [][RunnerNext]_<<vars, part>> /\ Fairness

(* Every job that was created ends for good, across full slot queues,     *)
(* shutdowns and restarts, unless CancelJob was told to signal it or the   *)
(* write of its end was lost: a slot is always freed, every executor       *)
(* reaches its end (runner.go:249-290).                                    *)
JobSettles ==
  <>[](dbErrors > 0 \/ \A j \in Jobs :
         row[j].status \in {"absent"} \cup Final \/ "signalled" \in acked[j])

=============================================================================
