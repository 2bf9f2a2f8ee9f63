------------------------------- MODULE Poller -------------------------------
(***************************************************************************)
(* The poll loop of internal/poller: a cycle queues every device that is   *)
(* not in backoff, workers probe the devices, record the outcome in the    *)
(* circuit breaker of the address and in the status that the rest of the   *)
(* server sees, and a refresh requested by a user goes past the breaker.   *)
(*                                                                         *)
(* Here every device has an address of its own; what happens when          *)
(* addresses move between devices is the subject of DeviceIdentity, and    *)
(* the stations under an AP are one value, the status they were last       *)
(* given (StationTopology has their rows).                                 *)
(***************************************************************************)
EXTENDS Naturals, Sequences, FiniteSets

CONSTANTS
    Devices,      \* rows that are polled directly
    Workers,      \* worker goroutines
    QueueSize,    \* capacity of the channel p.jobs
    NoDevice,
    MaxExtra      \* bound: refreshes requested by users, cycles that start before the
                  \* last one is worked off, and stalls of the cycles

ASSUME PollerAssumption ==
    /\ QueueSize \in Nat \ {0}
    /\ NoDevice \notin Devices
    /\ MaxExtra \in Nat

maxFailures == 3
offlineThreshold == 3

Statuses == {"none", "online", "unknown", "offline"}

\* classifyPollError: no answer at all, or something answered.
LoginErrors == {"silent", "answered"}

\* The wave interface: statistics of the device expected; denied with JSON, or no
\* statistics after the login; another MAC; or not a wave device, try the next one.
WaveOutcomes == {"success", "failed", "mismatch", "next"}

\* The airmax interface. (Without any credentials to try it ends before it touches
\* anything; every device here has some.)
AirmaxOutcomes == {"success", "failed", "mismatch"} \cup LoginErrors

Outcomes == (WaveOutcomes \ {"next"}) \cup AirmaxOutcomes

VARIABLES
    rest,       \* rows of the present cycle still to be queued
    cycling,    \* pollAllDevices is running
    queue,      \* p.jobs
    closed,     \* Start has closed p.jobs
    returned,   \* Start has returned
    stopping,   \* the context is cancelled
    pc,         \* position of each worker
    dev,        \* the device a worker is polling
    outcome,    \* what its probe found
    decided,    \* the status it has decided to give
    before,     \* the status it found: before the decision, then before the change
    failures, unreachable,  \* circuitBreaker, zero when there is none
    backoff,    \* nextRetry is in the future
    old,        \* lastFail is more than 30 minutes ago
    status,     \* live status of a device
    kids,       \* status last given to the stations of an AP
    pending,    \* refreshes that have cleared the breaker and wait to queue
    extra,      \* what is used of the bound
    silence,    \* history: probes in a row that got no answer
    overlapped  \* history: devices two workers have polled at once

loopVars == <<rest, cycling, queue, closed, returned, stopping>>
workVars == <<pc, dev, outcome, decided, before>>
cbVars == <<failures, unreachable, backoff, old>>
reqVars == <<pending, extra>>
pollerVars == <<rest, cycling, queue, closed, returned, stopping, pc, dev, outcome,
                decided, before, failures, unreachable, backoff, old, status, kids,
                pending, extra, silence, overlapped>>

PollerInit ==
    /\ rest = {} /\ cycling = FALSE /\ queue = <<>>
    /\ closed = FALSE /\ returned = FALSE /\ stopping = FALSE
    /\ pc = [w \in Workers |-> "idle"]
    /\ dev = [w \in Workers |-> NoDevice]
    /\ outcome = [w \in Workers |-> "none"]
    /\ decided = [w \in Workers |-> "none"]
    /\ before = [w \in Workers |-> "none"]
    /\ failures = [d \in Devices |-> 0]
    /\ unreachable = [d \in Devices |-> 0]
    /\ backoff = [d \in Devices |-> FALSE]
    /\ old = [d \in Devices |-> FALSE]
    /\ status = [d \in Devices |-> "none"]
    /\ kids = [d \in Devices |-> "none"]
    /\ pending = {} /\ extra = 0
    /\ silence = [d \in Devices |-> 0]
    /\ overlapped = {}

-----------------------------------------------------------------------------
(* The loop of Start and pollAllDevices. *)

\* The ticker fires; pollAllDevices lists the rows. A cycle that finds jobs of the
\* last one in the queue or with a worker is late, which is bounded.
BeginCycle ==
    /\ ~cycling /\ ~stopping /\ ~closed
    /\ \/ /\ queue = <<>> /\ \A w \in Workers : pc[w] = "idle"
          /\ extra' = extra
       \/ /\ queue # <<>> \/ \E w \in Workers : pc[w] # "idle"
          /\ extra < MaxExtra
          /\ extra' = extra + 1
    /\ cycling' = TRUE
    /\ rest' = Devices
    /\ UNCHANGED <<queue, closed, returned, stopping, workVars, cbVars, status, kids,
                   pending, silence, overlapped>>

shouldSkip(d) == backoff[d]

\* One row of the loop: skipped in backoff, queued, or the end of the cycle when the
\* queue is full.
QueueRow(d) ==
    /\ cycling /\ d \in rest
    /\ IF shouldSkip(d)
       THEN /\ rest' = rest \ {d} /\ queue' = queue
       ELSE IF Len(queue) < QueueSize
       THEN /\ rest' = rest \ {d} /\ queue' = Append(queue, d)
       ELSE /\ rest' = {} /\ queue' = queue
    /\ UNCHANGED <<cycling, closed, returned, stopping, workVars, cbVars, status, kids,
                   reqVars, silence, overlapped>>

\* The breakers whose last failure is long ago are dropped every tenth cycle.
cleanCircuitBreakers ==
    /\ failures' = [d \in Devices |-> IF old[d] THEN 0 ELSE failures[d]]
    /\ unreachable' = [d \in Devices |-> IF old[d] THEN 0 ELSE unreachable[d]]
    /\ backoff' = [d \in Devices |-> IF old[d] THEN FALSE ELSE backoff[d]]
    /\ old' = [d \in Devices |-> FALSE]

EndCycle ==
    /\ cycling /\ rest = {}
    /\ cycling' = FALSE
    /\ cleanCircuitBreakers \/ UNCHANGED cbVars
    /\ UNCHANGED <<rest, queue, closed, returned, stopping, workVars, status, kids,
                   reqVars, silence, overlapped>>

\* The context is cancelled; Start notices it between two cycles, closes the queue
\* and waits for the workers.
Stop ==
    /\ ~stopping /\ stopping' = TRUE
    /\ UNCHANGED <<rest, cycling, queue, closed, returned, workVars, cbVars, status,
                   kids, reqVars, silence, overlapped>>

CloseQueue ==
    /\ stopping /\ ~cycling /\ ~closed
    /\ closed' = TRUE
    /\ UNCHANGED <<rest, cycling, queue, returned, stopping, workVars, cbVars, status,
                   kids, reqVars, silence, overlapped>>

Return ==
    /\ closed /\ ~returned
    /\ \A w \in Workers : pc[w] = "exit"
    /\ returned' = TRUE
    /\ UNCHANGED <<rest, cycling, queue, closed, stopping, workVars, cbVars, status,
                   kids, reqVars, silence, overlapped>>

\* Time: a backoff ends, or a breaker that nobody has touched for long becomes old.
BackoffEnds(d) ==
    /\ backoff[d]
    /\ backoff' = [backoff EXCEPT ![d] = FALSE]
    /\ UNCHANGED <<loopVars, workVars, failures, unreachable, old, status, kids,
                   reqVars, silence, overlapped>>

\* (the longest backoff is 15 minutes, so this takes a stall of the cycles).
Ages(d) ==
    /\ failures[d] > 0 /\ ~backoff[d] /\ ~old[d]
    /\ \A w \in Workers : dev[w] # d
    /\ extra < MaxExtra /\ extra' = extra + 1
    /\ old' = [old EXCEPT ![d] = TRUE]
    /\ UNCHANGED <<loopVars, workVars, failures, unreachable, backoff, status, kids,
                   pending, silence, overlapped>>

-----------------------------------------------------------------------------
(* A worker and the device it polls. *)

Min3(n) == IF n > 3 THEN 3 ELSE n

Idle(w) ==
    /\ pc' = [pc EXCEPT ![w] = "idle"]
    /\ dev' = [dev EXCEPT ![w] = NoDevice]
    /\ outcome' = [outcome EXCEPT ![w] = "none"]
    /\ decided' = [decided EXCEPT ![w] = "none"]
    /\ before' = [before EXCEPT ![w] = "none"]

Take(w) ==
    /\ pc[w] = "idle" /\ queue # <<>>
    /\ queue' = Tail(queue)
    /\ pc' = [pc EXCEPT ![w] = "probe"]
    /\ dev' = [dev EXCEPT ![w] = Head(queue)]
    /\ overlapped' = IF \E v \in Workers : dev[v] = Head(queue)
                     THEN overlapped \cup {Head(queue)} ELSE overlapped
    /\ UNCHANGED <<rest, cycling, closed, returned, stopping, outcome, decided, before,
                   cbVars, status, kids, reqVars, silence>>

\* A worker leaves when the context is done, or the queue is closed and empty.
Exit(w) ==
    /\ pc[w] = "idle"
    /\ stopping \/ (closed /\ queue = <<>>)
    /\ pc' = [pc EXCEPT ![w] = "exit"]
    /\ UNCHANGED <<loopVars, dev, outcome, decided, before, cbVars, status, kids,
                   reqVars, silence, overlapped>>

\* Login with the credentials of the device and the configured pairs, over the wave
\* interface and then over the airmax one, the statistics, the check of the MAC.
Probe(w, o) ==
    /\ pc[w] = "probe"
    /\ outcome' = [outcome EXCEPT ![w] = o]
    /\ silence' = [silence EXCEPT ![dev[w]] =
                       IF o = "silent" THEN Min3(@ + 1) ELSE 0]
    /\ decided' = [decided EXCEPT ![w] = IF o \in {"failed", "mismatch"}
                                        THEN "unknown" ELSE "none"]
    /\ pc' = [pc EXCEPT ![w] = CASE o = "success" -> "apply"
                                  [] o \in {"failed", "mismatch"} -> "record"
                                  [] OTHER -> "decide"]
    /\ UNCHANGED <<loopVars, dev, before, cbVars, status, kids, reqVars, overlapped>>

\* Mutant of getDeviceStatus: the failure being handled is counted twice.
getDeviceStatusEarly(d, silent) ==
    IF silent /\ unreachable[d] + 2 >= offlineThreshold THEN "offline" ELSE "unknown"

\* The count is taken before the failure is recorded, hence the one added.
getDeviceStatus(d, silent) ==
    IF silent /\ unreachable[d] + 1 >= offlineThreshold THEN "offline" ELSE "unknown"

Decide(w) ==
    /\ pc[w] = "decide"
    /\ decided' = [decided EXCEPT ![w] = getDeviceStatus(dev[w], outcome[w] = "silent")]
    /\ before' = [before EXCEPT ![w] = status[dev[w]]]
    /\ pc' = [pc EXCEPT ![w] = "record"]
    /\ UNCHANGED <<loopVars, dev, outcome, cbVars, status, kids, reqVars, silence,
                   overlapped>>

\* Mutant of recordFailure: entering backoff forgets the unreachable count.
recordFailureForgets(d, silent) ==
    /\ failures' = [failures EXCEPT ![d] = Min3(@ + 1)]
    /\ unreachable' = [unreachable EXCEPT ![d] =
                           IF silent /\ failures[d] + 1 < maxFailures THEN Min3(@ + 1) ELSE 0]
    /\ backoff' = [backoff EXCEPT ![d] = @ \/ failures[d] + 1 >= maxFailures]
    /\ old' = [old EXCEPT ![d] = FALSE]

recordFailure(d, silent) ==
    /\ failures' = [failures EXCEPT ![d] = Min3(@ + 1)]
    /\ unreachable' = [unreachable EXCEPT ![d] = IF silent THEN Min3(@ + 1) ELSE 0]
    /\ backoff' = [backoff EXCEPT ![d] = @ \/ failures[d] + 1 >= maxFailures]
    /\ old' = [old EXCEPT ![d] = FALSE]

Record(w) ==
    /\ pc[w] = "record"
    /\ recordFailure(dev[w], outcome[w] = "silent")
    /\ pc' = [pc EXCEPT ![w] = "mark"]
    /\ UNCHANGED <<loopVars, dev, outcome, decided, before, status, kids, reqVars,
                   silence, overlapped>>

\* Mutant of ChildrenFollow: leaving online is not looked at.
ChildrenFollowOffline(w) ==
    \/ outcome[w] \in {"mismatch", "answered"}
    \/ decided[w] = "offline" /\ before[w] # "offline"

\* SetStatusByMAC, and whether the stations follow: when the device left online, when
\* it became offline, and always after a mismatch or a login that was answered.
ChildrenFollow(w) ==
    \/ status[dev[w]] = "online"
    \/ outcome[w] \in {"mismatch", "answered"}
    \/ decided[w] = "offline" /\ before[w] # "offline"

Mark(w) ==
    /\ pc[w] = "mark"
    /\ status' = [status EXCEPT ![dev[w]] = decided[w]]
    /\ IF ChildrenFollow(w)
       THEN /\ pc' = [pc EXCEPT ![w] = "children"]
            /\ UNCHANGED <<dev, outcome, decided, before>>
       ELSE Idle(w)
    /\ UNCHANGED <<loopVars, cbVars, kids, reqVars, silence, overlapped>>

updateChildrenStatus(w) ==
    /\ pc[w] = "children"
    /\ kids' = [kids EXCEPT ![dev[w]] = decided[w]]
    /\ Idle(w)
    /\ UNCHANGED <<loopVars, cbVars, status, reqVars, silence, overlapped>>

\* Success: the store takes the statistics, and the stations of the snapshot are
\* online, gone from it, or left as they were when the snapshot is not accepted.
Apply(w) ==
    /\ pc[w] = "apply"
    /\ status' = [status EXCEPT ![dev[w]] = "online"]
    /\ \E k \in {"online", "offline", kids[dev[w]]} : kids' = [kids EXCEPT ![dev[w]] = k]
    /\ pc' = [pc EXCEPT ![w] = "clear"]
    /\ UNCHANGED <<loopVars, dev, outcome, decided, before, cbVars, reqVars, silence,
                   overlapped>>

recordSuccess(d) ==
    /\ failures' = [failures EXCEPT ![d] = 0]
    /\ unreachable' = [unreachable EXCEPT ![d] = 0]
    /\ backoff' = [backoff EXCEPT ![d] = FALSE]
    /\ old' = [old EXCEPT ![d] = FALSE]

Clear(w) ==
    /\ pc[w] = "clear"
    /\ recordSuccess(dev[w])
    /\ Idle(w)
    /\ UNCHANGED <<loopVars, status, kids, reqVars, silence, overlapped>>

-----------------------------------------------------------------------------
(* RefreshDevice and RefreshDeviceByID: the breaker is cleared, then the job is    *)
(* queued, or given up when the queue stays full.                                  *)

Refresh(d) ==
    /\ d \notin pending /\ extra < MaxExtra /\ ~returned
    /\ extra' = extra + 1
    /\ pending' = pending \cup {d}
    /\ recordSuccess(d)
    /\ UNCHANGED <<loopVars, workVars, status, kids, silence, overlapped>>

RefreshQueues(d) ==
    /\ d \in pending /\ ~closed /\ Len(queue) < QueueSize
    /\ pending' = pending \ {d}
    /\ queue' = Append(queue, d)
    /\ UNCHANGED <<rest, cycling, closed, returned, stopping, workVars, cbVars, status,
                   kids, extra, silence, overlapped>>

\* The queue stays full; or it is closed, and the send panics in its goroutine.
RefreshFails(d) ==
    /\ d \in pending
    /\ closed \/ Len(queue) = QueueSize
    /\ pending' = pending \ {d}
    /\ UNCHANGED <<loopVars, workVars, cbVars, status, kids, extra, silence,
                   overlapped>>

-----------------------------------------------------------------------------
WorkerStep(w) ==
    \/ Take(w) \/ Exit(w) \/ Decide(w) \/ Record(w) \/ Mark(w)
    \/ updateChildrenStatus(w) \/ Apply(w) \/ Clear(w)
    \/ \E o \in Outcomes : Probe(w, o)

PollerNext ==
    \/ BeginCycle \/ EndCycle \/ Stop \/ CloseQueue \/ Return
    \/ \E d \in Devices : \/ QueueRow(d) \/ BackoffEnds(d) \/ Ages(d)
                          \/ Refresh(d) \/ RefreshQueues(d) \/ RefreshFails(d)
    \/ \E w \in Workers : WorkerStep(w)

-----------------------------------------------------------------------------
(* Properties. *)

\* A device is declared offline by its own polls only after three probes in a row
\* that got no answer, whatever refreshes, dropped breakers and other devices do in
\* between, unless two workers were polling it at once (poller_core.go:451-471).
OfflineNeedsThree ==
    [][\A d \in Devices :
          status[d] # "offline" /\ status'[d] = "offline" /\ d \notin overlapped
          => silence[d] = offlineThreshold]_pollerVars

\* Stations are shown online only under an AP that is: every way out of online takes
\* them along (wave_poll.go, airmax_poll.go, canonical_mac.go).
StationsFollowParent ==
    \A d \in Devices \ overlapped :
        kids[d] = "online" /\ (\A w \in Workers : dev[w] # d) => status[d] = "online"

\* A device that stops answering is in the end shown offline for good: the breaker
\* delays polls but never ends them, and counts survive the backoff.
SilentGoesOffline ==
    \A d \in Devices :
        <>[](~stopping /\ \A w \in Workers :
                 dev[w] = d => outcome[w] \in {"none", "silent"})
        => <>[](status[d] = "offline")

\* Start returns after the context is cancelled: every worker ends its poll.
StopReturns == <>[](stopping => returned)

=============================================================================
