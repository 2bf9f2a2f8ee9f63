---------------------------- MODULE PollerProofs ----------------------------
(***************************************************************************)
(* Proofs about the poll loop for any number of devices and workers, any   *)
(* queue size and any number of refreshes and late cycles.                 *)
(*                                                                         *)
(* Both properties are about a device that no two workers met on, so the   *)
(* invariant is stated device by device, with the one worker that may be   *)
(* on it: how far the count of the breaker may run behind the probes that  *)
(* got no answer, at every position of the worker, and that the stations   *)
(* are behind their parent only while the worker is about to tell them.    *)
(***************************************************************************)
EXTENDS Poller, SequenceTheorems, TLAPS

PollerSpec == PollerInit /\ [][PollerNext]_pollerVars

Polling == {"probe", "decide", "record", "mark", "children", "apply", "clear"}

PollerTypes ==
    /\ queue \in Seq(Devices)
    /\ rest \subseteq Devices
    /\ pc \in [Workers -> Polling \cup {"idle", "exit"}]
    /\ dev \in [Workers -> Devices \cup {NoDevice}]
    /\ outcome \in [Workers -> Outcomes \cup {"none"}]
    /\ decided \in [Workers -> {"none", "unknown", "offline"}]
    /\ before \in [Workers -> Statuses]
    /\ failures \in [Devices -> 0..3]
    /\ unreachable \in [Devices -> 0..3]
    /\ silence \in [Devices -> 0..3]
    /\ status \in [Devices -> Statuses]
    /\ kids \in [Devices -> Statuses]
    /\ pending \subseteq Devices
    /\ extra \in Nat
    /\ overlapped \subseteq Devices

(* A worker has a device exactly while it polls.                           *)
OnDevice == \A w \in Workers : dev[w] # NoDevice <=> pc[w] \in Polling

NoOverlap(d) == \A v, w \in Workers : dev[v] = d /\ dev[w] = d => v = w

(* A worker that has found no answer is one probe ahead of the breaker     *)
(* until it has recorded the failure; it decides for offline only after    *)
(* three.                                                                  *)
Counting(w, d) ==
    /\ pc[w] \in {"probe", "mark", "children"} => unreachable[d] <= silence[d]
    /\ pc[w] \in {"decide", "record"} /\ outcome[w] = "silent" =>
         Min3(unreachable[d] + 1) <= silence[d]
    /\ pc[w] \in {"record", "mark"} /\ decided[w] = "offline" => silence[d] = 3

SilenceInv(d) ==
    /\ (\A w \in Workers : dev[w] # d) => unreachable[d] <= silence[d]
    /\ \A w \in Workers : dev[w] = d => Counting(w, d)

KidsInv(d) ==
    (\A w \in Workers : dev[w] = d => pc[w] # "children")
      => (kids[d] = "online" => status[d] = "online")

DeviceInv(d) == NoOverlap(d) /\ SilenceInv(d) /\ KidsInv(d)

PollInv == \A d \in Devices \ overlapped : DeviceInv(d)

(* Min3 is at most 3, and does not reverse the order.                      *)
LEMMA MinFacts ==
    /\ \A n \in 0..3 : Min3(n + 1) \in 0..3
    /\ \A m, n \in 0..3 : m <= n => Min3(m + 1) <= Min3(n + 1)
    /\ \A n \in 0..3 : n + 1 >= 3 => Min3(n + 1) = 3
BY DEF Min3

(* The types, and which workers have a device.                             *)
LEMMA TypesInvariant == PollerSpec => [](PollerTypes /\ OnDevice)
<1>1. PollerInit => PollerTypes /\ OnDevice
  BY DEF PollerInit, PollerTypes, OnDevice, Polling, Statuses
<1>2. PollerTypes /\ OnDevice /\ [PollerNext]_pollerVars => (PollerTypes /\ OnDevice)'
  <2> SUFFICES ASSUME PollerTypes, OnDevice, [PollerNext]_pollerVars
               PROVE  (PollerTypes /\ OnDevice)'
    OBVIOUS
  <2> USE DEF PollerTypes, OnDevice
  <2>n. NoDevice \notin Devices
    BY PollerAssumption
  <2>1. ASSUME BeginCycle \/ Stop \/ CloseQueue \/ Return \/ UNCHANGED pollerVars
        PROVE  (PollerTypes /\ OnDevice)'
    BY <2>1 DEF BeginCycle, Stop, CloseQueue, Return, pollerVars, loopVars, workVars,
                cbVars, reqVars
  <2>2. ASSUME EndCycle PROVE (PollerTypes /\ OnDevice)'
    <3>1. failures' \in [Devices -> 0..3] /\ unreachable' \in [Devices -> 0..3]
      <4>1. CASE UNCHANGED cbVars
        BY <4>1 DEF cbVars
      <4>2. CASE cleanCircuitBreakers
        <5>1. /\ failures' = [d \in Devices |-> IF old[d] THEN 0 ELSE failures[d]]
              /\ unreachable' = [d \in Devices |-> IF old[d] THEN 0 ELSE unreachable[d]]
          BY <4>2 DEF cleanCircuitBreakers
        <5> QED BY <5>1
      <4> QED BY <2>2, <4>1, <4>2 DEF EndCycle
    <3> QED BY <2>2, <3>1 DEF EndCycle, workVars, reqVars
  <2>3. ASSUME NEW d \in Devices, QueueRow(d) PROVE (PollerTypes /\ OnDevice)'
    <3>1. queue' \in Seq(Devices) /\ rest' \subseteq Devices
      <4>1. queue' \in {queue, Append(queue, d)} /\ rest' \in {rest \ {d}, {}}
        BY <2>3, Zenon DEF QueueRow
      <4>2. Append(queue, d) \in Seq(Devices)
        BY AppendProperties
      <4> QED BY <4>1, <4>2
    <3> QED BY <2>3, <3>1 DEF QueueRow, workVars, cbVars, reqVars
  <2>4. ASSUME NEW d \in Devices, BackoffEnds(d) \/ Ages(d) \/ RefreshFails(d)
        PROVE  (PollerTypes /\ OnDevice)'
    BY <2>4 DEF BackoffEnds, Ages, RefreshFails, loopVars, workVars, cbVars, reqVars
  <2>5. ASSUME NEW d \in Devices, Refresh(d) PROVE (PollerTypes /\ OnDevice)'
    <3>1. failures' \in [Devices -> 0..3] /\ unreachable' \in [Devices -> 0..3]
      BY <2>5 DEF Refresh, recordSuccess
    <3> QED BY <2>5, <3>1 DEF Refresh, loopVars, workVars
  <2>6. ASSUME NEW d \in Devices, RefreshQueues(d) PROVE (PollerTypes /\ OnDevice)'
    <3>1. queue' \in Seq(Devices)
      BY <2>6, AppendProperties DEF RefreshQueues
    <3> QED BY <2>6, <3>1 DEF RefreshQueues, workVars, cbVars
  (* What the end of a poll does to the worker.                            *)
  <2>i. ASSUME NEW w \in Workers, Idle(w)
        PROVE  /\ pc' \in [Workers -> Polling \cup {"idle", "exit"}]
               /\ dev' \in [Workers -> Devices \cup {NoDevice}]
               /\ outcome' \in [Workers -> Outcomes \cup {"none"}]
               /\ decided' \in [Workers -> {"none", "unknown", "offline"}]
               /\ before' \in [Workers -> Statuses]
               /\ OnDevice'
    BY <2>i DEF Idle, Polling, Statuses
  <2>7. ASSUME NEW w \in Workers, Take(w) PROVE (PollerTypes /\ OnDevice)'
    <3>1. Head(queue) \in Devices /\ Tail(queue) \in Seq(Devices)
      BY <2>7, HeadTailProperties DEF Take
    <3>2. pc' = [pc EXCEPT ![w] = "probe"] /\ dev' = [dev EXCEPT ![w] = Head(queue)]
      BY <2>7 DEF Take
    <3>3. OnDevice'
      BY <3>1, <3>2, <2>n DEF Polling
    <3>4. overlapped' \subseteq Devices
      BY <2>7, <3>1 DEF Take
    <3> QED BY <2>7, <3>1, <3>2, <3>3, <3>4 DEF Take, Polling, cbVars, reqVars
  <2>8. ASSUME NEW w \in Workers, Exit(w) PROVE (PollerTypes /\ OnDevice)'
    BY <2>8 DEF Exit, Polling, loopVars, cbVars, reqVars
  <2>9. ASSUME NEW w \in Workers, NEW o \in Outcomes, Probe(w, o)
        PROVE  (PollerTypes /\ OnDevice)'
    <3>1. PICK p \in {"apply", "record", "decide"} : pc' = [pc EXCEPT ![w] = p]
      BY <2>9 DEF Probe
    <3>2. dev[w] \in Devices /\ dev' = dev
      BY <2>9 DEF Probe, Polling
    <3>3. silence' \in [Devices -> 0..3]
      BY <2>9, <3>2, MinFacts DEF Probe
    <3>4. decided' \in [Workers -> {"none", "unknown", "offline"}]
      BY <2>9 DEF Probe
    <3>5. outcome' \in [Workers -> Outcomes \cup {"none"}]
      BY <2>9 DEF Probe
    <3> QED BY <2>9, <3>1, <3>2, <3>3, <3>4, <3>5 DEF Probe, Polling, loopVars, cbVars, reqVars
  <2>10. ASSUME NEW w \in Workers, Decide(w) PROVE (PollerTypes /\ OnDevice)'
    <3>1. dev[w] \in Devices
      BY <2>10 DEF Decide, Polling
    <3>2. decided' \in [Workers -> {"none", "unknown", "offline"}]
      BY <2>10 DEF Decide, getDeviceStatus
    <3> QED BY <2>10, <3>1, <3>2 DEF Decide, Polling, loopVars, cbVars, reqVars
  <2>11. ASSUME NEW w \in Workers, Record(w) PROVE (PollerTypes /\ OnDevice)'
    <3>1. dev[w] \in Devices
      BY <2>11 DEF Record, Polling
    <3>2. failures' \in [Devices -> 0..3] /\ unreachable' \in [Devices -> 0..3]
      <4>1. /\ failures' = [failures EXCEPT ![dev[w]] = Min3(failures[dev[w]] + 1)]
            /\ unreachable' = [unreachable EXCEPT ![dev[w]] =
                                 IF outcome[w] = "silent" THEN Min3(unreachable[dev[w]] + 1) ELSE 0]
        BY <2>11 DEF Record, recordFailure
      <4> QED BY <4>1, <3>1, MinFacts
    <3> QED BY <2>11, <3>2 DEF Record, Polling, loopVars, reqVars
  <2>12. ASSUME NEW w \in Workers, Mark(w) PROVE (PollerTypes /\ OnDevice)'
    <3>1. status' \in [Devices -> Statuses]
      BY <2>12 DEF Mark, Statuses
    <3>2. /\ pc' \in [Workers -> Polling \cup {"idle", "exit"}]
          /\ dev' \in [Workers -> Devices \cup {NoDevice}]
          /\ outcome' \in [Workers -> Outcomes \cup {"none"}]
          /\ decided' \in [Workers -> {"none", "unknown", "offline"}]
          /\ before' \in [Workers -> Statuses]
          /\ OnDevice'
      <4>1. CASE ChildrenFollow(w)
        BY <2>12, <4>1 DEF Mark, Polling
      <4>2. CASE ~ ChildrenFollow(w)
        BY <2>12, <4>2, <2>i DEF Mark
      <4> QED BY <4>1, <4>2
    <3> QED BY <2>12, <3>1, <3>2 DEF Mark, loopVars, cbVars, reqVars
  <2>13. ASSUME NEW w \in Workers, updateChildrenStatus(w) PROVE (PollerTypes /\ OnDevice)'
    <3>1. kids' \in [Devices -> Statuses]
      BY <2>13 DEF updateChildrenStatus, Statuses
    <3> QED BY <2>13, <3>1, <2>i DEF updateChildrenStatus, loopVars, cbVars, reqVars
  <2>14. ASSUME NEW w \in Workers, Apply(w) PROVE (PollerTypes /\ OnDevice)'
    <3>1. dev[w] \in Devices
      BY <2>14 DEF Apply, Polling
    <3>2. kids' \in [Devices -> Statuses] /\ status' \in [Devices -> Statuses]
      BY <2>14, <3>1 DEF Apply, Statuses
    <3> QED BY <2>14, <3>2 DEF Apply, Polling, loopVars, cbVars, reqVars
  <2>15. ASSUME NEW w \in Workers, Clear(w) PROVE (PollerTypes /\ OnDevice)'
    <3>1. failures' \in [Devices -> 0..3] /\ unreachable' \in [Devices -> 0..3]
      BY <2>15 DEF Clear, recordSuccess
    <3> QED BY <2>15, <3>1, <2>i DEF Clear, loopVars, reqVars
  <2> QED BY <2>1, <2>2, <2>3, <2>4, <2>5, <2>6, <2>7, <2>8, <2>9, <2>10, <2>11, <2>12,
             <2>13, <2>14, <2>15
          DEF PollerNext, WorkerStep
<1> QED BY <1>1, <1>2, PTL DEF PollerSpec

-----------------------------------------------------------------------------
(* Nothing happens to d but that its breaker may be reset.                 *)
Aside(d) ==
    /\ unreachable'[d] <= unreachable[d] /\ silence'[d] = silence[d]
    /\ status'[d] = status[d] /\ kids'[d] = kids[d]
    /\ \A w \in Workers :
         /\ dev'[w] = d <=> dev[w] = d
         /\ dev[w] = d => /\ pc'[w] = pc[w] /\ outcome'[w] = outcome[w]
                          /\ decided'[w] = decided[w]

(* No breaker counts up.                                                   *)
NoneCounts == \A d \in Devices : unreachable'[d] <= unreachable[d]

(* No worker moves, and no probe or status changes.                        *)
NothingMoves == UNCHANGED <<pc, dev, outcome, decided, silence, status, kids, overlapped>>

(* A step on other devices keeps the invariant of a device.                *)
LEMMA AsideStep ==
    ASSUME PollerTypes, PollerTypes', NEW d \in Devices, DeviceInv(d), Aside(d)
    PROVE  DeviceInv(d)'
<1>1. NoOverlap(d)'
  BY DEF DeviceInv, NoOverlap, Aside
<1>2. /\ unreachable[d] \in 0..3 /\ unreachable'[d] \in 0..3
      /\ silence[d] \in 0..3 /\ unreachable'[d] <= unreachable[d] /\ silence'[d] = silence[d]
  BY DEF PollerTypes, Aside
<1>3. Min3(unreachable'[d] + 1) <= Min3(unreachable[d] + 1)
  BY <1>2, MinFacts
<1>4. Min3(unreachable'[d] + 1) \in 0..3 /\ Min3(unreachable[d] + 1) \in 0..3
  BY <1>2, MinFacts
<1>5. (\A w \in Workers : dev'[w] # d) => unreachable'[d] <= silence'[d]
  BY <1>2 DEF DeviceInv, SilenceInv, Aside
<1>6. ASSUME NEW w \in Workers, dev'[w] = d PROVE Counting(w, d)'
  <2>1. dev[w] = d /\ pc'[w] = pc[w] /\ outcome'[w] = outcome[w] /\ decided'[w] = decided[w]
    BY <1>6 DEF Aside
  <2>2. Counting(w, d)
    BY <2>1 DEF DeviceInv, SilenceInv
  <2> QED BY <2>1, <2>2, <1>2, <1>3, <1>4 DEF Counting
<1>7. KidsInv(d)'
  BY DEF DeviceInv, KidsInv, Aside
<1> QED BY <1>1, <1>5, <1>6, <1>7 DEF DeviceInv, SilenceInv

(* The worker that is alone on d stays on it.                              *)
LEMMA StayStep ==
    ASSUME NEW d \in Devices, NEW w \in Workers, DeviceInv(d), dev[w] = d, dev' = dev,
           Counting(w, d)',
           pc'[w] # "children" => (kids'[d] = "online" => status'[d] = "online")
    PROVE  DeviceInv(d)'
BY DEF DeviceInv, NoOverlap, SilenceInv, KidsInv

(* The worker that is alone on d leaves it.                                *)
LEMMA LeaveStep ==
    ASSUME PollerTypes, NEW d \in Devices, NEW w \in Workers, DeviceInv(d), dev[w] = d,
           dev' = [dev EXCEPT ![w] = NoDevice],
           unreachable'[d] <= silence'[d],
           kids'[d] = "online" => status'[d] = "online"
    PROVE  DeviceInv(d)'
<1>1. \A v \in Workers : dev'[v] # d
  BY PollerAssumption DEF DeviceInv, NoOverlap, PollerTypes
<1> QED BY <1>1 DEF DeviceInv, NoOverlap, SilenceInv, KidsInv

(* A step of worker w that changes only what belongs to its device leaves  *)
(* the other devices aside.                                                *)
OnlyOwn(w) ==
    /\ \A d \in Devices \ {dev[w]} :
         /\ unreachable'[d] = unreachable[d] /\ silence'[d] = silence[d]
         /\ status'[d] = status[d] /\ kids'[d] = kids[d]
    /\ dev' \in {dev, [dev EXCEPT ![w] = NoDevice]}
    /\ \A v \in Workers \ {w} : /\ pc'[v] = pc[v] /\ outcome'[v] = outcome[v]
                                /\ decided'[v] = decided[v]
    /\ overlapped' = overlapped

(* A step of a worker needs to be looked at for its own device only.       *)
LEMMA OwnStep ==
    ASSUME PollerTypes, PollerTypes', PollInv, NEW w \in Workers, OnlyOwn(w),
           NEW e \in Devices, dev[w] = e, DeviceInv(e) => DeviceInv(e)'
    PROVE  PollInv'
<1> SUFFICES ASSUME NEW d \in Devices \ overlapped PROVE DeviceInv(d)'
  BY DEF PollInv, OnlyOwn
<1>1. DeviceInv(d)
  BY DEF PollInv
<1>2. CASE d = e
  BY <1>1, <1>2
<1>3. CASE d # e
  <2>1. unreachable'[d] = unreachable[d] /\ unreachable[d] \in 0..3
        /\ silence'[d] = silence[d] /\ status'[d] = status[d] /\ kids'[d] = kids[d]
    BY <1>3 DEF OnlyOwn, PollerTypes
  <2>2. ASSUME NEW v \in Workers
        PROVE  /\ dev'[v] = d <=> dev[v] = d
               /\ dev[v] = d => /\ pc'[v] = pc[v] /\ outcome'[v] = outcome[v]
                                /\ decided'[v] = decided[v]
    <3>1. dev'[v] = dev[v] \/ (v = w /\ dev'[v] = NoDevice)
      BY DEF OnlyOwn, PollerTypes
    <3>2. dev'[v] = d <=> dev[v] = d
      BY <3>1, <1>3, PollerAssumption
    <3>3. v # w => /\ pc'[v] = pc[v] /\ outcome'[v] = outcome[v]
                   /\ decided'[v] = decided[v]
      BY DEF OnlyOwn
    <3> QED BY <3>2, <3>3, <1>3
  <2>3. Aside(d)
    BY <2>1, <2>2 DEF Aside
  <2> QED BY <1>1, <2>3, AsideStep
<1> QED BY <1>2, <1>3

(* PollInv is an invariant.                                                *)
LEMMA PollInvariant == PollerSpec => []PollInv
<1>1. PollerInit => PollInv
  BY PollerAssumption
     DEF PollerInit, PollInv, DeviceInv, NoOverlap, SilenceInv, KidsInv
<1>2. /\ PollerTypes /\ OnDevice /\ PollInv /\ PollerTypes'
      /\ [PollerNext]_pollerVars
      => PollInv'
  <2> SUFFICES ASSUME PollerTypes, OnDevice, PollInv, PollerTypes', [PollerNext]_pollerVars
               PROVE  PollInv'
    OBVIOUS
  (* Steps that touch no worker, no probe and no status.                   *)
  <2>a. ASSUME NothingMoves, NoneCounts PROVE PollInv'
    <3> SUFFICES ASSUME NEW d \in Devices \ overlapped PROVE DeviceInv(d)'
      BY <2>a DEF PollInv, NothingMoves
    <3>1. Aside(d)
      BY <2>a DEF Aside, NothingMoves, NoneCounts
    <3> QED BY <3>1, AsideStep DEF PollInv
  <2>t. unreachable \in [Devices -> 0..3]
    BY DEF PollerTypes
  <2>u. ASSUME unreachable' = unreachable PROVE NoneCounts
    BY <2>u, <2>t DEF NoneCounts
  <2>1. ASSUME BeginCycle \/ Stop \/ CloseQueue \/ Return \/ UNCHANGED pollerVars
        PROVE  PollInv'
    <3>1. NothingMoves /\ unreachable' = unreachable
      BY <2>1 DEF NothingMoves, BeginCycle, Stop, CloseQueue, Return, pollerVars, workVars, cbVars
    <3> QED BY <3>1, <2>a, <2>u
  <2>2. ASSUME EndCycle PROVE PollInv'
    <3>1. NothingMoves
      BY <2>2 DEF NothingMoves, EndCycle, workVars
    <3>2. NoneCounts
      <4>1. CASE UNCHANGED cbVars
        BY <4>1, <2>u DEF cbVars
      <4>2. CASE cleanCircuitBreakers
        <5>1. \A d \in Devices : unreachable'[d] \in {0, unreachable[d]}
          BY <4>2 DEF cleanCircuitBreakers
        <5> QED BY <5>1, <2>t DEF NoneCounts
      <4> QED BY <2>2, <4>1, <4>2 DEF EndCycle
    <3> QED BY <3>1, <3>2, <2>a
  <2>3. ASSUME NEW d \in Devices, QueueRow(d) \/ BackoffEnds(d) \/ Ages(d)
                 \/ RefreshQueues(d) \/ RefreshFails(d)
        PROVE  PollInv'
    <3>1. NothingMoves /\ unreachable' = unreachable
      BY <2>3 DEF NothingMoves, QueueRow, BackoffEnds, Ages, RefreshQueues, RefreshFails, workVars, cbVars
    <3> QED BY <3>1, <2>a, <2>u
  <2>4. ASSUME NEW d \in Devices, Refresh(d) PROVE PollInv'
    <3>1. NothingMoves
          /\ unreachable' = [unreachable EXCEPT ![d] = 0]
      BY <2>4 DEF NothingMoves, Refresh, recordSuccess, workVars
    <3>2. NoneCounts
      BY <3>1, <2>t DEF NoneCounts
    <3> QED BY <3>1, <3>2, <2>a
  <2>5. ASSUME NEW w \in Workers, Take(w) PROVE PollInv'
    <3> SUFFICES ASSUME NEW d \in Devices \ overlapped' PROVE DeviceInv(d)'
      BY DEF PollInv
    <3>1. /\ dev' = [dev EXCEPT ![w] = Head(queue)] /\ pc' = [pc EXCEPT ![w] = "probe"]
          /\ UNCHANGED <<outcome, decided, silence, status, kids, unreachable>>
          /\ dev[w] = NoDevice
          /\ overlapped' = IF \E v \in Workers : dev[v] = Head(queue)
                           THEN overlapped \cup {Head(queue)} ELSE overlapped
      BY <2>5 DEF Take, cbVars, OnDevice, Polling
    <3>2. d \notin overlapped /\ DeviceInv(d)
      BY <3>1 DEF PollInv
    <3>3. CASE d # Head(queue)
      <4>1. \A v \in Workers :
              /\ dev'[v] = d <=> dev[v] = d
              /\ dev[v] = d => pc'[v] = pc[v]
        BY <3>1, <3>3, PollerAssumption DEF PollerTypes
      <4>2. unreachable'[d] <= unreachable[d]
        BY <3>1, <2>u DEF NoneCounts
      <4>3. Aside(d)
        BY <4>1, <4>2, <3>1 DEF Aside
      <4> QED BY <3>2, <4>3, AsideStep
    <3>4. CASE d = Head(queue)
      <4>1. \A v \in Workers : dev[v] # d
        BY <3>1, <3>4
      <4>2. \A v \in Workers : dev'[v] = d => v = w
        BY <3>1, <4>1 DEF PollerTypes
      <4>3. pc'[w] = "probe"
        BY <3>1 DEF PollerTypes
      <4>4. unreachable[d] <= silence[d]
        BY <3>2, <4>1 DEF DeviceInv, SilenceInv
      <4>5. Counting(w, d)'
        BY <4>3, <4>4, <3>1 DEF Counting
      <4>6. kids[d] = "online" => status[d] = "online"
        BY <3>2, <4>1 DEF DeviceInv, KidsInv
      <4>7. dev'[w] = d
        BY <3>1, <3>4 DEF PollerTypes
      <4> QED BY <4>2, <4>5, <4>6, <4>7, <3>1 DEF DeviceInv, NoOverlap, SilenceInv, KidsInv
    <3> QED BY <3>3, <3>4
  <2>6. ASSUME NEW w \in Workers, Exit(w) PROVE PollInv'
    <3> SUFFICES ASSUME NEW d \in Devices \ overlapped PROVE DeviceInv(d)'
      BY <2>6 DEF PollInv, Exit
    <3>1. /\ pc' = [pc EXCEPT ![w] = "exit"] /\ dev[w] = NoDevice
          /\ UNCHANGED <<dev, outcome, decided, silence, status, kids, unreachable>>
      BY <2>6 DEF Exit, cbVars, OnDevice, Polling
    <3>2. \A v \in Workers : dev[v] = d => pc'[v] = pc[v]
      BY <3>1, PollerAssumption DEF PollerTypes
    <3>3. Aside(d)
      BY <3>1, <3>2, <2>u DEF Aside, NoneCounts
    <3> QED BY <3>3, AsideStep DEF PollInv
  (* The other workers are left alone.                                     *)
  <2>7. ASSUME NEW w \in Workers, NEW o \in Outcomes, Probe(w, o) PROVE PollInv'
    <3>0. PICK e \in Devices : dev[w] = e
      BY <2>7 DEF Probe, OnDevice, Polling, PollerTypes
    <3>1. /\ UNCHANGED <<dev, status, kids, unreachable, overlapped>>
          /\ outcome' = [outcome EXCEPT ![w] = o]
          /\ pc[w] = "probe"
          /\ silence' = [silence EXCEPT ![e] = IF o = "silent" THEN Min3(silence[e] + 1) ELSE 0]
      BY <2>7, <3>0 DEF Probe, cbVars
    <3>2. /\ decided'[w] \in {"unknown", "none"}
          /\ \A v \in Workers \ {w} : decided'[v] = decided[v]
      BY <2>7 DEF Probe, PollerTypes
    <3>3. /\ pc'[w] \in {"apply", "record", "decide"}
          /\ \A v \in Workers \ {w} : pc'[v] = pc[v]
      BY <2>7 DEF Probe, PollerTypes
    <3>4. OnlyOwn(w)
      BY <3>0, <3>1, <3>2, <3>3 DEF OnlyOwn, PollerTypes
    <3>5. ASSUME DeviceInv(e) PROVE DeviceInv(e)'
      <4>1. unreachable[e] <= silence[e] /\ unreachable[e] \in 0..3 /\ silence[e] \in 0..3
        BY <3>0, <3>1, <3>5 DEF DeviceInv, SilenceInv, Counting, PollerTypes
      <4>2. Min3(unreachable[e] + 1) <= Min3(silence[e] + 1)
        BY <4>1, MinFacts
      <4>3. o = "silent" => silence'[e] = Min3(silence[e] + 1)
        BY <3>1 DEF PollerTypes
      <4>4. Counting(w, e)'
        <5>1. outcome'[w] = o
          BY <3>1 DEF PollerTypes
        <5>2. outcome'[w] = "silent" => Min3(unreachable'[e] + 1) <= silence'[e]
          BY <5>1, <4>2, <4>3, <3>1
        <5> QED BY <5>2, <3>2, <3>3 DEF Counting
      <4>5. kids[e] = "online" => status[e] = "online"
        <5>1. \A v \in Workers : dev[v] = e => pc[v] # "children"
          BY <3>0, <3>1, <3>5 DEF DeviceInv, NoOverlap
        <5> QED BY <5>1, <3>5 DEF DeviceInv, KidsInv
      <4> QED BY <4>4, <4>5, <3>0, <3>1, <3>5, StayStep
    <3> QED BY <3>0, <3>4, <3>5, OwnStep
  <2>8. ASSUME NEW w \in Workers, Decide(w) PROVE PollInv'
    <3>0. PICK e \in Devices : dev[w] = e
      BY <2>8 DEF Decide, OnDevice, Polling, PollerTypes
    <3>1. /\ UNCHANGED <<dev, outcome, status, kids, unreachable, silence, overlapped>>
          /\ pc[w] = "decide" /\ pc' = [pc EXCEPT ![w] = "record"]
          /\ decided' = [decided EXCEPT ![w] = getDeviceStatus(e, outcome[w] = "silent")]
      BY <2>8, <3>0 DEF Decide, cbVars
    <3>2. OnlyOwn(w)
      BY <3>1 DEF OnlyOwn, PollerTypes
    <3>3. ASSUME DeviceInv(e) PROVE DeviceInv(e)'
      <4>1. Counting(w, e) /\ unreachable[e] \in 0..3 /\ silence[e] \in 0..3
        BY <3>0, <3>3 DEF DeviceInv, SilenceInv, PollerTypes
      <4>2. pc'[w] = "record" /\ decided'[w] = getDeviceStatus(e, outcome[w] = "silent")
        BY <3>1 DEF PollerTypes
      <4>3. decided'[w] = "offline" => outcome[w] = "silent" /\ unreachable[e] + 1 >= 3
        BY <4>2 DEF getDeviceStatus, offlineThreshold
      <4>4. outcome[w] = "silent" => Min3(unreachable[e] + 1) <= silence[e]
        BY <4>1, <3>1 DEF Counting
      <4>5. decided'[w] = "offline" => silence[e] = 3
        BY <4>1, <4>3, <4>4, MinFacts
      <4>6. Counting(w, e)'
        BY <4>2, <4>4, <4>5, <3>1 DEF Counting
      <4>7. kids[e] = "online" => status[e] = "online"
        <5>1. \A v \in Workers : dev[v] = e => pc[v] # "children"
          BY <3>0, <3>1, <3>3 DEF DeviceInv, NoOverlap
        <5> QED BY <5>1, <3>3 DEF DeviceInv, KidsInv
      <4> QED BY <4>6, <4>7, <3>0, <3>1, <3>3, StayStep
    <3> QED BY <3>0, <3>2, <3>3, OwnStep
  <2>9. ASSUME NEW w \in Workers, Record(w) PROVE PollInv'
    <3>0. PICK e \in Devices : dev[w] = e
      BY <2>9 DEF Record, OnDevice, Polling, PollerTypes
    <3>1. /\ UNCHANGED <<dev, outcome, decided, status, kids, silence, overlapped>>
          /\ pc[w] = "record" /\ pc' = [pc EXCEPT ![w] = "mark"]
          /\ unreachable' = [unreachable EXCEPT ![e] =
                               IF outcome[w] = "silent" THEN Min3(unreachable[e] + 1) ELSE 0]
      BY <2>9, <3>0 DEF Record, recordFailure
    <3>2. OnlyOwn(w)
      BY <3>0, <3>1 DEF OnlyOwn, PollerTypes
    <3>3. ASSUME DeviceInv(e) PROVE DeviceInv(e)'
      <4>1. Counting(w, e) /\ silence[e] \in 0..3
        BY <3>0, <3>3 DEF DeviceInv, SilenceInv, PollerTypes
      <4>2. pc'[w] = "mark"
        BY <3>1 DEF PollerTypes
      <4>3. unreachable'[e] = IF outcome[w] = "silent" THEN Min3(unreachable[e] + 1) ELSE 0
        BY <3>1 DEF PollerTypes
      <4>4. unreachable'[e] <= silence[e]
        BY <4>1, <4>3, <3>1 DEF Counting
      <4>5. Counting(w, e)'
        BY <4>1, <4>2, <4>4, <3>1 DEF Counting
      <4>6. kids[e] = "online" => status[e] = "online"
        <5>1. \A v \in Workers : dev[v] = e => pc[v] # "children"
          BY <3>0, <3>1, <3>3 DEF DeviceInv, NoOverlap
        <5> QED BY <5>1, <3>3 DEF DeviceInv, KidsInv
      <4> QED BY <4>5, <4>6, <3>0, <3>1, <3>3, StayStep
    <3> QED BY <3>0, <3>2, <3>3, OwnStep
  <2>10. ASSUME NEW w \in Workers, Mark(w) PROVE PollInv'
    <3>0. PICK e \in Devices : dev[w] = e
      BY <2>10 DEF Mark, OnDevice, Polling, PollerTypes
    <3>1. /\ UNCHANGED <<kids, unreachable, silence, overlapped>>
          /\ pc[w] = "mark" /\ status' = [status EXCEPT ![e] = decided[w]]
      BY <2>10, <3>0 DEF Mark, cbVars
    <3>2. CASE ChildrenFollow(w)
      <4>1. pc' = [pc EXCEPT ![w] = "children"] /\ UNCHANGED <<dev, outcome, decided>>
        BY <2>10, <3>2 DEF Mark
      <4>2. OnlyOwn(w)
        BY <3>0, <3>1, <4>1 DEF OnlyOwn, PollerTypes
      <4>3. ASSUME DeviceInv(e) PROVE DeviceInv(e)'
        <5>1. unreachable[e] <= silence[e] /\ pc'[w] = "children"
          BY <4>1, <4>3, <3>0, <3>1 DEF DeviceInv, SilenceInv, Counting, PollerTypes
        <5>2. Counting(w, e)'
          BY <5>1, <3>1 DEF Counting
        <5> QED BY <5>1, <5>2, <4>1, <4>3, <3>0, StayStep
      <4> QED BY <3>0, <4>2, <4>3, OwnStep
    <3>3. CASE ~ ChildrenFollow(w)
      <4>1. /\ pc' = [pc EXCEPT ![w] = "idle"] /\ dev' = [dev EXCEPT ![w] = NoDevice]
            /\ outcome' = [outcome EXCEPT ![w] = "none"]
            /\ decided' = [decided EXCEPT ![w] = "none"]
        BY <2>10, <3>3 DEF Mark, Idle
      <4>2. OnlyOwn(w)
        BY <3>0, <3>1, <4>1 DEF OnlyOwn, PollerTypes
      <4>3. ASSUME DeviceInv(e) PROVE DeviceInv(e)'
        <5>1. unreachable[e] <= silence[e]
          BY <4>3, <3>0, <3>1 DEF DeviceInv, SilenceInv, Counting
        <5>2. \A v \in Workers : dev[v] = e => pc[v] # "children"
          BY <3>0, <3>1, <4>3 DEF DeviceInv, NoOverlap
        <5>3. kids[e] # "online"
          BY <5>2, <4>3, <3>0, <3>3 DEF DeviceInv, KidsInv, ChildrenFollow
        <5> QED BY <5>1, <5>3, <4>1, <4>3, <3>0, <3>1, LeaveStep
      <4> QED BY <3>0, <4>2, <4>3, OwnStep
    <3> QED BY <3>2, <3>3
  <2>11. ASSUME NEW w \in Workers, updateChildrenStatus(w) PROVE PollInv'
    <3>0. PICK e \in Devices : dev[w] = e
      BY <2>11 DEF updateChildrenStatus, OnDevice, Polling, PollerTypes
    <3>1. /\ UNCHANGED <<status, unreachable, silence, overlapped>>
          /\ pc[w] = "children" /\ kids' = [kids EXCEPT ![e] = decided[w]]
          /\ pc' = [pc EXCEPT ![w] = "idle"] /\ dev' = [dev EXCEPT ![w] = NoDevice]
          /\ outcome' = [outcome EXCEPT ![w] = "none"]
          /\ decided' = [decided EXCEPT ![w] = "none"]
      BY <2>11, <3>0 DEF updateChildrenStatus, Idle, cbVars
    <3>2. OnlyOwn(w)
      BY <3>0, <3>1 DEF OnlyOwn, PollerTypes
    <3>3. ASSUME DeviceInv(e) PROVE DeviceInv(e)'
      <4>1. unreachable[e] <= silence[e]
        BY <3>0, <3>1, <3>3 DEF DeviceInv, SilenceInv, Counting
      <4>2. kids'[e] # "online"
        BY <3>0, <3>1 DEF PollerTypes
      <4> QED BY <4>1, <4>2, <3>0, <3>1, <3>3, LeaveStep
    <3> QED BY <3>0, <3>2, <3>3, OwnStep
  <2>12. ASSUME NEW w \in Workers, Apply(w) PROVE PollInv'
    <3>0. PICK e \in Devices : dev[w] = e
      BY <2>12 DEF Apply, OnDevice, Polling, PollerTypes
    <3>1. /\ UNCHANGED <<dev, outcome, decided, unreachable, silence, overlapped>>
          /\ pc[w] = "apply" /\ pc' = [pc EXCEPT ![w] = "clear"]
          /\ status' = [status EXCEPT ![e] = "online"]
          /\ \E k : kids' = [kids EXCEPT ![e] = k]
      BY <2>12, <3>0 DEF Apply, cbVars
    <3>2. OnlyOwn(w)
      BY <3>0, <3>1 DEF OnlyOwn, PollerTypes
    <3>3. ASSUME DeviceInv(e) PROVE DeviceInv(e)'
      <4>1. pc'[w] = "clear" /\ status'[e] = "online"
        BY <3>1 DEF PollerTypes
      <4>2. Counting(w, e)'
        BY <4>1 DEF Counting
      <4> QED BY <4>1, <4>2, <3>0, <3>1, <3>3, StayStep
    <3> QED BY <3>0, <3>2, <3>3, OwnStep
  <2>13. ASSUME NEW w \in Workers, Clear(w) PROVE PollInv'
    <3>0. PICK e \in Devices : dev[w] = e
      BY <2>13 DEF Clear, OnDevice, Polling, PollerTypes
    <3>1. /\ UNCHANGED <<status, kids, silence, overlapped>>
          /\ pc[w] = "clear" /\ unreachable' = [unreachable EXCEPT ![e] = 0]
          /\ pc' = [pc EXCEPT ![w] = "idle"] /\ dev' = [dev EXCEPT ![w] = NoDevice]
          /\ outcome' = [outcome EXCEPT ![w] = "none"]
          /\ decided' = [decided EXCEPT ![w] = "none"]
      BY <2>13, <3>0 DEF Clear, recordSuccess, Idle
    <3>2. OnlyOwn(w)
      BY <3>0, <3>1 DEF OnlyOwn, PollerTypes
    <3>3. ASSUME DeviceInv(e) PROVE DeviceInv(e)'
      <4>1. unreachable'[e] <= silence'[e]
        <5>1. unreachable \in [Devices -> 0..3] /\ silence \in [Devices -> 0..3]
          BY DEF PollerTypes
        <5>2. unreachable'[e] = 0 /\ silence'[e] \in 0..3
          BY <5>1, <3>0, <3>1
        <5> QED BY <5>2
      <4>2. kids[e] = "online" => status[e] = "online"
        <5>1. \A v \in Workers : dev[v] = e => pc[v] # "children"
          BY <3>0, <3>1, <3>3 DEF DeviceInv, NoOverlap
        <5> QED BY <5>1, <3>3 DEF DeviceInv, KidsInv
      <4> QED BY <4>1, <4>2, <3>0, <3>1, <3>3, LeaveStep
    <3> QED BY <3>0, <3>2, <3>3, OwnStep
  <2> QED BY <2>1, <2>2, <2>3, <2>4, <2>5, <2>6, <2>7, <2>8, <2>9, <2>10, <2>11, <2>12, <2>13
          DEF PollerNext, WorkerStep
<1> QED BY <1>1, <1>2, TypesInvariant, PTL DEF PollerSpec

(* Stations are shown online only under an access point that is, for any   *)
(* number of devices and workers: every way out of online takes them along *)
(* (wave_poll.go, airmax_poll.go, canonical_mac.go).                       *)
THEOREM StationsAreTaken == PollerSpec => []StationsFollowParent
<1>1. PollInv => StationsFollowParent
  BY DEF PollInv, DeviceInv, KidsInv, StationsFollowParent
<1> QED BY <1>1, PollInvariant, PTL

(* A device that no two workers met on is declared offline only after      *)
(* three probes in a row that got no answer (poller_core.go:451-471).      *)
THEOREM ThreeSilentProbes == PollerSpec => OfflineNeedsThree
<1>1. /\ PollerTypes /\ OnDevice /\ PollInv /\ [PollerNext]_pollerVars
      => [\A d \in Devices :
            status[d] # "offline" /\ status'[d] = "offline" /\ d \notin overlapped
            => silence[d] = offlineThreshold]_pollerVars
  <2> SUFFICES ASSUME PollerTypes, OnDevice, PollInv, PollerNext,
                      NEW d \in Devices, status[d] # "offline", status'[d] = "offline",
                      d \notin overlapped
               PROVE  silence[d] = offlineThreshold
    OBVIOUS
  <2>1. ASSUME status' = status PROVE FALSE
    BY <2>1
  <2>2. ASSUME NEW w \in Workers, Apply(w) PROVE FALSE
    BY <2>2 DEF Apply, PollerTypes
  <2>3. PICK w \in Workers : Mark(w)
    BY <2>1, <2>2 DEF PollerNext, WorkerStep, BeginCycle, EndCycle, Stop, CloseQueue, Return,
      QueueRow, BackoffEnds, Ages, Refresh, RefreshQueues, RefreshFails, Take, Exit, Decide,
      Record, updateChildrenStatus, Clear, Probe
  <2>4. dev[w] = d /\ decided[w] = "offline" /\ pc[w] = "mark"
    BY <2>3 DEF Mark, PollerTypes
  <2>5. Counting(w, d)
    BY <2>4 DEF PollInv, DeviceInv, SilenceInv
  <2> QED BY <2>4, <2>5 DEF Counting, offlineThreshold
<1> QED BY <1>1, TypesInvariant, PollInvariant, PTL DEF PollerSpec, OfflineNeedsThree

=============================================================================
