---------------------------- MODULE JobLifecycle ----------------------------
(***************************************************************************)
(* What the job runner promises about one job, seen from the job_runs row  *)
(* and the body of the job: the body is entered at most once, and only for *)
(* a job whose row was read as pending; a final status is reported when    *)
(* the body has ended and never changes after that; and a body that was    *)
(* cut off by a panic or a crash is turned into failed.  A pending row can *)
(* be cancelled, but that does not stop an executor that has already read  *)
(* it: Run does not look at st again.  Nothing is promised of the status   *)
(* once a write of it was lost.                                            *)
(***************************************************************************)
CONSTANT Jobs

VARIABLES
  st,    \* st[j]: the status column
  exec,  \* exec[j]: the body of j: none, loaded, active or over
  lost   \* a write was lost

absVars == <<st, exec>>

Ended == {"rebooting", "completed", "skipped", "failed", "cancelled"}

Init ==
  /\ st = [j \in Jobs |-> "absent"]
  /\ exec = [j \in Jobs |-> "none"]

Create(j) ==
  /\ st[j] = "absent"
  /\ st' = [st EXCEPT ![j] = "pending"]
  /\ UNCHANGED exec

Cancel(j) ==
  /\ st[j] = "pending"
  /\ st' = [st EXCEPT ![j] = "cancelled"]
  /\ UNCHANGED exec

Load(j) ==
  /\ exec[j] = "none" /\ st[j] = "pending"
  /\ exec' = [exec EXCEPT ![j] = "loaded"]
  /\ UNCHANGED st

Run(j) ==
  /\ exec[j] = "loaded" /\ st[j] \in {"pending", "cancelled"}
  /\ exec' = [exec EXCEPT ![j] = "active"]
  /\ st' = [st EXCEPT ![j] = "running"]

Finish(j) ==
  /\ exec[j] = "active" /\ st[j] = "running"
  /\ exec' = [exec EXCEPT ![j] = "over"]
  /\ \E f \in Ended : st' = [st EXCEPT ![j] = f]

CutOff(j) ==
  /\ exec[j] = "active"
  /\ exec' = [exec EXCEPT ![j] = "over"]
  /\ UNCHANGED st

Fail(j) ==
  /\ exec[j] = "over" /\ st[j] = "running"
  /\ st' = [st EXCEPT ![j] = "failed"]
  /\ UNCHANGED exec

Crash ==
  /\ exec' = [j \in Jobs |-> CASE exec[j] = "loaded" -> "none"
                               [] exec[j] = "active" -> "over"
                               [] OTHER -> exec[j]]
  /\ UNCHANGED st

Recover ==
  /\ \A j \in Jobs : exec[j] \in {"none", "over"}
  /\ st' = [j \in Jobs |-> IF st[j] = "running" THEN "failed" ELSE st[j]]
  /\ UNCHANGED exec

Next ==
  \/ \E j \in Jobs : \/ Create(j) \/ Cancel(j) \/ Load(j) \/ Run(j)
                     \/ Finish(j) \/ CutOff(j) \/ Fail(j)
  \/ Crash \/ Recover

Spec == Init /\ [][Next \/ lost']_absVars

=============================================================================
