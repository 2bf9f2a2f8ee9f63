---------------------------- MODULE MCScheduler ----------------------------
(***************************************************************************)
(* Two server processes for TLC, a job of one device that repeats and may  *)
(* fail, and a job that no window applies to while others exist.  There is *)
(* one slot, and one user changes a schedule or the limit.                 *)
(***************************************************************************)
EXTENDS Scheduler, TLC

CONSTANTS a, b, j1, j2, r1, r2

TwoServers == {a, b}
OneJob     == {j1}
TwoJobs    == {j1, j2}
Held       == {j2}
None       == {}
TwoRuns    == {r1, r2}

First   == [j \in Jobs |-> 1]
CapOne  == [g \in Gens |-> 1]

RunSymmetry == Permutations(RunIds) \cup Permutations(Instances)

=============================================================================
