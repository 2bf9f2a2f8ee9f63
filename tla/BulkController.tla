---------------------------- MODULE BulkController ----------------------------
(***************************************************************************)
(* The bulk operations controller (internal/bulkops/controller.go): jobs   *)
(* whose operations share a global semaphore, with a limit per job or per  *)
(* access point, retries, cancellation, and a change of the configuration  *)
(* that replaces the semaphore while operations hold it.                   *)
(*                                                                         *)
(* The semaphore is a channel.  A goroutine waits on the channel it found, *)
(* and releases by taking a token from the channel it finds at that time.  *)
(***************************************************************************)
EXTENDS Naturals, Sequences, FiniteSets

CONSTANTS BulkJobs,   \* jobs
          Ops,        \* [BulkJobs -> devices of the job, without the access point]
          Ap,         \* [BulkJobs -> its access point for a fanout, or NoAp]
          NoAp,
          GlobalCap, InnerCap,  \* MaxGlobalConcurrent; MaxPerJob or MaxPerAP
          MaxRetries, MaxResizes

\* A fanout names its access point apart from its stations, and the settings
\* accept no limit below one.
ASSUME BulkAssumption ==
    /\ IsFiniteSet(BulkJobs) /\ GlobalCap \in Nat /\ InnerCap \in Nat \ {0}
    /\ \A j \in BulkJobs : IsFiniteSet(Ops[j]) /\ Ap[j] \notin Ops[j]

VARIABLES bjob,       \* [BulkJobs -> "new", "open", "waiting", "ap" or "ended"]
          launched,   \* [BulkJobs -> devices whose goroutine is started]
          bop,        \* [BulkJobs -> [devices -> [pc, chan, tries, res]]]
          tokens,     \* tokens in each channel made so far; the last is current
          cancelled   \* cancelled jobs

bulkVars == <<bjob, launched, bop, tokens, cancelled>>

Devices(j) == Ops[j] \cup ({Ap[j]} \ {NoAp})
Current == Len(tokens)
Pc(j, d) == bop[j][d].pc
To(j, d, pc) == bop' = [bop EXCEPT ![j][d].pc = pc]
Idle == [pc |-> "idle", chan |-> 0, tries |-> 0, res |-> "none"]

\* Operations that run, or are between two attempts.
Running(j) == {d \in Devices(j) : Pc(j, d) \in {"op", "backoff"}}

\* Mutant of Holding: a failed operation keeps the inner semaphore.
HoldingFailed(j) == {d \in Ops[j] : Pc(j, d) \in {"global", "op", "backoff", "release"} \/ bop[j][d].res = "failed"}

Holding(j) == {d \in Ops[j] : Pc(j, d) \in {"global", "op", "backoff", "release"}}

-----------------------------------------------------------------------------
Execute(j) ==
    /\ bjob[j] = "new" /\ bjob' = [bjob EXCEPT ![j] = "open"]
    /\ UNCHANGED <<launched, bop, tokens, cancelled>>

\* One turn of the loop over the devices: a cancelled job returns at once,
\* without waiting for what it has started.
Launch(j) ==
    /\ bjob[j] = "open"
    /\ \/ j \in cancelled /\ launched[j] # Ops[j]
          /\ bjob' = [bjob EXCEPT ![j] = "ended"] /\ UNCHANGED <<launched, bop>>
       \/ j \notin cancelled /\ \E d \in Ops[j] \ launched[j] :
            launched' = [launched EXCEPT ![j] = @ \cup {d}] /\ To(j, d, "inner") /\ UNCHANGED bjob
       \/ launched[j] = Ops[j]
          /\ bjob' = [bjob EXCEPT ![j] = "waiting"] /\ UNCHANGED <<launched, bop>>
    /\ UNCHANGED <<tokens, cancelled>>

\* The operation waits for the global semaphore as it is now.
WaitGlobal(j, d) == bop' = [bop EXCEPT ![j][d] = [@ EXCEPT !.pc = "global", !.chan = Current]]

\* The semaphore of the job, or of the access point (one fanout per access
\* point at a time is assumed); then the global one.
AcquireInner(j, d) ==
    /\ Pc(j, d) = "inner"
    /\ \/ Cardinality(Holding(j)) < InnerCap
          /\ WaitGlobal(j, d)
       \/ j \in cancelled /\ To(j, d, "done")
    /\ UNCHANGED <<bjob, launched, tokens, cancelled>>

AcquireGlobal(j, d) ==
    /\ Pc(j, d) = "global"
    /\ \/ /\ tokens[bop[j][d].chan] < GlobalCap
          /\ tokens' = [tokens EXCEPT ![bop[j][d].chan] = @ + 1] /\ To(j, d, "op")
       \/ j \in cancelled /\ To(j, d, "done") /\ UNCHANGED tokens
    /\ UNCHANGED <<bjob, launched, cancelled>>

\* Timeouts, refused and broken connections and busy servers are tried again.
isRetryable(err) == err = "network"

\* executeWithRetry: what follows the n-th attempt.
AfterAttempt(j, res, n) ==
    CASE res = "success" -> [pc |-> "release", res |-> "success"]
      [] res # "success" /\ j \in cancelled -> [pc |-> "release", res |-> "skipped"]
      [] isRetryable(res) /\ j \notin cancelled /\ n < MaxRetries -> [pc |-> "backoff", res |-> "none"]
      [] OTHER -> [pc |-> "release", res |-> "failed"]

\* executeWithRetry: one attempt.
Attempt(j, d) ==
    /\ Pc(j, d) = "op"
    /\ \E res \in {"success", "network", "refused"} :
         LET n == bop[j][d].tries + 1
             next == AfterAttempt(j, res, n)
         IN  bop' = [bop EXCEPT ![j][d] = [@ EXCEPT !.pc = next.pc, !.res = next.res, !.tries = n]]
    /\ UNCHANGED <<bjob, launched, tokens, cancelled>>

Backoff(j, d) ==
    /\ Pc(j, d) = "backoff"
    /\ \/ To(j, d, "op")
       \/ j \in cancelled /\ bop' = [bop EXCEPT ![j][d] = [@ EXCEPT !.pc = "release", !.res = "skipped"]]
    /\ UNCHANGED <<bjob, launched, tokens, cancelled>>

\* The deferred receive takes a token from the current channel, and waits for
\* one when that channel is empty.
Release(j, d) ==
    /\ Pc(j, d) = "release" /\ tokens[Current] > 0
    /\ tokens' = [tokens EXCEPT ![Current] = @ - 1]
    /\ To(j, d, "done")
    /\ UNCHANGED <<bjob, launched, cancelled>>

Over(j) == \A d \in Ops[j] : Pc(j, d) = "done"
Succeeded(j) == {d \in Ops[j] : bop[j][d].res = "success"}

\* The access point follows only when half of its stations succeeded.
EnoughStations(j) == 2 * Cardinality(Succeeded(j)) >= Cardinality(Ops[j])

\* All goroutines are over: a fanout goes on to its access point.
Joined(j) ==
    /\ bjob[j] = "waiting" /\ Over(j)
    /\ IF Ap[j] # NoAp /\ j \notin cancelled /\ EnoughStations(j)
       THEN /\ bjob' = [bjob EXCEPT ![j] = "ap"]
            /\ WaitGlobal(j, Ap[j])
       ELSE bjob' = [bjob EXCEPT ![j] = "ended"] /\ UNCHANGED bop
    /\ UNCHANGED <<launched, tokens, cancelled>>

ApOver(j) ==
    /\ bjob[j] = "ap" /\ Pc(j, Ap[j]) = "done"
    /\ bjob' = [bjob EXCEPT ![j] = "ended"]
    /\ UNCHANGED <<launched, bop, tokens, cancelled>>

\* CancelJob (bound: one job).
CancelBulk(j) ==
    /\ bjob[j] \notin {"new", "ended"} /\ cancelled = {}
    /\ cancelled' = cancelled \cup {j}
    /\ UNCHANGED <<bjob, launched, bop, tokens>>

\* UpdateConfig makes a new, empty channel (bound: only once both jobs run and
\* something holds a token).
UpdateConfig ==
    /\ Current <= MaxResizes /\ tokens[Current] > 0
    /\ \A j \in BulkJobs : bjob[j] # "new" /\ launched[j] = Ops[j]
    /\ tokens' = Append(tokens, 0)
    /\ UNCHANGED <<bjob, launched, bop, cancelled>>

BulkInit ==
    /\ bjob = [j \in BulkJobs |-> "new"]
    /\ launched = [j \in BulkJobs |-> {}]
    /\ bop = [j \in BulkJobs |-> [d \in Devices(j) |-> Idle]]
    /\ tokens = <<0>>
    /\ cancelled = {}

GoStep(j) == \/ Launch(j) \/ Joined(j) \/ ApOver(j)
             \/ \E d \in Devices(j) : AcquireInner(j, d) \/ AcquireGlobal(j, d) \/ Attempt(j, d)
                                      \/ Backoff(j, d) \/ Release(j, d)

BulkNext == (\E j \in BulkJobs : Execute(j) \/ GoStep(j) \/ CancelBulk(j)) \/ UpdateConfig

\* Goroutines that can go on do; nothing repeats for ever.
BulkFairness == WF_bulkVars(\E j \in BulkJobs : GoStep(j))

-----------------------------------------------------------------------------
Resized == Current > 1

\* The operations that have taken a token of the global semaphore.
TokenHolders == {x \in UNION {{<<j, d>> : d \in Devices(j)} : j \in BulkJobs} :
                   Pc(x[1], x[2]) \in {"op", "backoff", "release"}}

\* BulkLimits: the operations of all jobs, and the stations of one job or
\* access point, stay within their limits, and the tokens in the channel count
\* exactly the operations that hold one, as long as the configuration has not
\* been changed; and an access point is operated on only when its stations are
\* over and half of them succeeded (runFanoutJob).
BulkLimits ==
    /\ Resized \/ (tokens[1] <= GlobalCap /\ tokens[1] = Cardinality(TokenHolders))
    /\ \A j \in BulkJobs : Cardinality(Running(j)) <= InnerCap
    /\ \A j \in BulkJobs : bjob[j] = "ap" =>
         /\ Over(j)
         /\ Cardinality({d \in Ops[j] : bop[j][d].res # "success"}) <= Cardinality(Succeeded(j))

\* BulkJobsOver: every job has ended, with every operation it started over,
\* unless the configuration was changed while it ran.
BulkJobsOver ==
    \A j \in BulkJobs : bjob[j] # "new" =>
        Resized \/ (bjob[j] = "ended" /\ \A d \in Devices(j) : Pc(j, d) \in {"idle", "done"})
=============================================================================
