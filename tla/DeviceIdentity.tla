--------------------------- MODULE DeviceIdentity ---------------------------
(***************************************************************************)
(* Which radio a row of the inventory stands for: the checks a poll makes  *)
(* on the MACs it is told (internal/poller/canonical_mac.go), the evidence *)
(* it keeps of a replaced radio, the operator who accepts the replacement  *)
(* (cmd/server/identity_mismatch_api.go), and adding and deleting devices  *)
(* (cmd/server/api.go), on top of the store of live statistics.            *)
(*                                                                         *)
(* A worker polls from a snapshot of the row taken when the poll was       *)
(* queued. A row has one MAC and one address; the other columns, the rows  *)
(* of its stations and the text of the messages are left out.              *)
(***************************************************************************)
EXTENDS StatsStore

CONSTANTS
    Pollers,         \* workers of the poll pool
    Sites,           \* addresses where radios are mounted
    Airmax,          \* radios that speak the AirMAX interface, the others Wave
    NoRow, NoJob,
    MaxTurns         \* bound on the changes made by operators and to the site

VARIABLES
    rows,            \* table devices
    evidence,        \* table device_identity_mismatches
    radioAt,         \* the radio that answers at an address
    job,             \* what each worker is doing
    removing,        \* MACs whose statistics a request is about to drop
    turns,
    \* History: a row was changed, or polled a second time, under a running poll;
    \* the radio that the statistics of a MAC were last read from.
    overlapped, origin

identityVars == <<rows, evidence, radioAt, job, removing, turns, overlapped, origin>>

ASSUME IdentityAssumption ==
    /\ Airmax \subseteq MACs /\ Sites \subseteq Addrs /\ Sites # {}
    /\ NoRow \notin [mac : MACs, addr : Addrs]
    /\ MaxTurns \in Nat

Rows == [mac : MACs, addr : Addrs]
NoEvidence == [expected |-> NoMAC]

Taken(m, id) == \E k \in Ids \ {id} : rows[k] # NoRow /\ rows[k].mac = m
Busy(id, m) == \E w \in Pollers : job[w] # NoJob /\ (job[w].id = id \/ job[w].mac = m)
Touch(id, m) == overlapped' = (overlapped \/ Busy(id, m))

\* Bound: once polls or requests have overlapped, only what is running goes on.
Bounded == ~overlapped

-----------------------------------------------------------------------------
(* What a poll makes of the MACs it is told. *)

\* Any of the candidates may confirm the MAC of the row.
canonicalizeDeviceMAC(expected, observed) ==
    [observed |-> observed, mismatch |-> observed # {} /\ expected \notin observed,
     canonical |-> expected]

\* The Ethernet MAC decides alone when it is known.
canonicalizeDeviceMACPreferred(expected, preferred, others) ==
    LET seen == ({preferred} \cup others) \ {NoMAC}
    IN IF preferred = NoMAC THEN canonicalizeDeviceMAC(expected, seen)
       ELSE [observed |-> seen, mismatch |-> preferred # expected, canonical |-> expected]

-----------------------------------------------------------------------------
(* A poll. *)

\* The job as queued; the rest is filled in by the answer.
SnapshotRow(id) ==
    [pc |-> "queued", id |-> id, mac |-> rows[id].mac, addr |-> rows[id].addr, own |-> NoMAC,
     observed |-> {}, canonical |-> NoMAC, radio |-> NoMAC, became |-> FALSE]

\* The cycle, a refresh, or the refresh after an add or a learned MAC queues the row.
QueuePoll(w, id) ==
    /\ Bounded /\ job[w] = NoJob /\ rows[id] # NoRow
    /\ job' = [job EXCEPT ![w] = SnapshotRow(id)]
    /\ Touch(id, rows[id].mac)
    /\ UNCHANGED <<store, rows, evidence, radioAt, removing, turns, origin>>

At(w, pc) == job[w] # NoJob /\ job[w].pc = pc
Goto(w, pc) == job' = [job EXCEPT ![w].pc = pc]
Done(w) == job' = [job EXCEPT ![w] = NoJob]
OnlyStore == UNCHANGED <<rows, evidence, radioAt, removing, turns, overlapped>>

BindIdentity(w) ==
    /\ At(w, "queued") /\ Goto(w, "probe")
    /\ store' = BindIdentityByMAC(store, job[w].mac, job[w].addr, job[w].id)
    /\ OnlyStore /\ UNCHANGED origin

\* Nobody answers: the entry of the row is marked.
NoAnswer(w) ==
    /\ At(w, "probe") /\ radioAt[job[w].addr] = NoMAC
    /\ store' = SetStatusByMAC(store, job[w].mac, job[w].addr, "offline")
    /\ Done(w) /\ OnlyStore /\ UNCHANGED origin

\* A radio tells its own MAC, or, on AirMAX without an Ethernet port in the answer,
\* only the MAC of its wireless side or of the access point it hears.
Answers(radio) ==
    IF radio \in Airmax
    THEN {[own |-> o, others |-> x] : o \in {radio, NoMAC}, x \in {{}} \cup {{m} : m \in MACs}}
    ELSE {[own |-> o, others |-> {}] : o \in {radio, NoMAC}}

Answer(w, answer) ==
    LET j == job[w]  radio == radioAt[j.addr]
        found == IF radio \in Airmax
                 THEN canonicalizeDeviceMACPreferred(j.mac, answer.own, answer.others)
                 ELSE canonicalizeDeviceMAC(j.mac, {answer.own} \ {NoMAC})
    IN /\ At(w, "probe") /\ radio # NoMAC /\ answer \in Answers(radio)
       /\ job' = [job EXCEPT ![w] =
             IF found.mismatch
             THEN [j EXCEPT !.pc = "mismatch", !.own = answer.own, !.observed = found.observed]
             ELSE [j EXCEPT !.pc = "store", !.own = answer.own, !.canonical = found.canonical,
                            !.radio = radio]]
       /\ UNCHANGED <<store, rows, evidence, radioAt, removing, turns, overlapped, origin>>

\* Mutant of MarkMismatch: the status of the expected device is left as it was.
MarkMismatchNot(w) ==
    /\ At(w, "mismatch") /\ Goto(w, "persist")
    /\ UNCHANGED store
    /\ OnlyStore /\ UNCHANGED origin

MarkMismatch(w) ==
    /\ At(w, "mismatch") /\ Goto(w, "persist")
    /\ store' = SetStatusByMAC(store, job[w].mac, job[w].addr, "unknown")
    /\ OnlyStore /\ UNCHANGED origin

\* A foreign key refuses evidence for a row that is gone.
persistIdentityMismatch(w) ==
    LET j == job[w]
    IN /\ At(w, "persist") /\ Done(w)
       /\ evidence' = [evidence EXCEPT ![j.id] =
             IF rows[j.id] = NoRow THEN @
             ELSE [expected |-> j.mac, observed |-> j.observed, addr |-> j.addr]]
       /\ UNCHANGED <<store, rows, radioAt, removing, turns, overlapped, origin>>

\* Statistics are stored; the inventory is synchronised only when the device came online,
\* or, on AirMAX, when another column differs.
StoreAnswer(w) ==
    LET j == job[w]
        became == BecameOnline(store, j.canonical, j.addr)
        after == IF j.radio \in Airmax THEN "info" ELSE "clear"
    IN /\ At(w, "store")
       /\ store' = Update(store, j.canonical, j.addr)
       /\ origin' = IF j.own = NoMAC THEN origin ELSE [origin EXCEPT ![j.canonical] = j.radio]
       /\ \/ became /\ job' = [job EXCEPT ![w].pc = after, ![w].became = TRUE]
          \/ ~became /\ after = "info" /\ Goto(w, "info")
          \/ ~became /\ Done(w)
       /\ OnlyStore

\* The MAC of the row is written back unless another row has it.
updateAirMAXDeviceInfo(w) ==
    LET j == job[w]
    IN /\ At(w, "info")
       /\ rows' = [rows EXCEPT ![j.id] =
             IF @ = NoRow \/ Taken(j.canonical, j.id) THEN @ ELSE [@ EXCEPT !.mac = j.canonical]]
       /\ IF j.became THEN Goto(w, "clear") ELSE Done(w)
       /\ UNCHANGED <<store, evidence, radioAt, removing, turns, overlapped, origin>>

clearIdentityMismatch(w) ==
    /\ At(w, "clear") /\ Done(w)
    /\ evidence' = [evidence EXCEPT ![job[w].id] = NoEvidence]
    /\ UNCHANGED <<store, rows, radioAt, removing, turns, overlapped, origin>>

-----------------------------------------------------------------------------
(* Operators, and the site. *)

Turn == Bounded /\ turns < MaxTurns /\ turns' = turns + 1

\* A radio is mounted, replaced or taken down.
Mount(a, m) ==
    /\ Turn /\ radioAt[a] # m
    /\ radioAt' = [radioAt EXCEPT ![a] = m]
    /\ UNCHANGED <<store, rows, evidence, job, removing, overlapped, origin>>

\* The evidence must be of this MAC and this address, and the new MAC free.
LearnDeviceMAC(id, m) ==
    LET e == evidence[id]
    IN /\ Turn /\ rows[id] # NoRow /\ e # NoEvidence
       /\ e.expected = rows[id].mac /\ e.addr = rows[id].addr
       /\ m # rows[id].mac /\ m \in e.observed
       /\ ~Taken(m, id)
       /\ rows' = [rows EXCEPT ![id].mac = m]
       /\ evidence' = [evidence EXCEPT ![id] = NoEvidence]
       /\ removing' = removing \cup {rows[id].mac}
       /\ Touch(id, rows[id].mac)
       /\ UNCHANGED <<store, radioAt, job, origin>>

DeleteDevice(id) ==
    /\ Turn /\ rows[id] # NoRow
    /\ rows' = [rows EXCEPT ![id] = NoRow]
    /\ evidence' = [evidence EXCEPT ![id] = NoEvidence]
    /\ removing' = removing \cup {rows[id].mac}
    /\ Touch(id, rows[id].mac)
    /\ UNCHANGED <<store, radioAt, job, origin>>

\* Mutant of DropStatistics: the lookups are cleared, the entry is kept.
DropLookups(m) ==
    /\ m \in removing /\ removing' = removing \ {m}
    /\ store' = [RemoveByMAC(store, m) EXCEPT !.entry = store.entry]
    /\ UNCHANGED <<rows, evidence, radioAt, job, turns, overlapped, origin>>

\* The last step of both requests, after the commit.
DropStatistics(m) ==
    /\ m \in removing /\ removing' = removing \ {m}
    /\ store' = RemoveByMAC(store, m)
    /\ UNCHANGED <<rows, evidence, radioAt, job, turns, overlapped, origin>>

\* The radio found at the address: its row moves there, or a new row is made.
AddDevice(a, id) ==
    LET m == radioAt[a]
    IN /\ Turn /\ m # NoMAC
       /\ IF Taken(m, 0) THEN rows[id] # NoRow /\ rows[id].mac = m ELSE rows[id] = NoRow
       /\ rows' = [rows EXCEPT ![id] = [mac |-> m, addr |-> a]]
       /\ Touch(id, m)
       /\ UNCHANGED <<store, evidence, radioAt, job, removing, origin>>

-----------------------------------------------------------------------------
IdentityInit ==
    /\ StoreInit
    /\ radioAt \in [Sites -> MACs]
    /\ \/ rows = [k \in Ids |-> NoRow]
       \/ LET id == CHOOSE k \in Ids : TRUE  a == CHOOSE x \in Sites : TRUE
          IN rows = [k \in Ids |-> IF k = id THEN [mac |-> radioAt[a], addr |-> a] ELSE NoRow]
    /\ evidence = [id \in Ids |-> NoEvidence]
    /\ job = [w \in Pollers |-> NoJob]
    /\ removing = {} /\ turns = 0
    /\ overlapped = FALSE /\ origin = [m \in MACs |-> NoMAC]

PollStep(w) ==
    \/ BindIdentity(w) \/ NoAnswer(w) \/ \E a \in UNION {Answers(m) : m \in MACs} : Answer(w, a)
    \/ MarkMismatch(w) \/ persistIdentityMismatch(w)
    \/ StoreAnswer(w) \/ updateAirMAXDeviceInfo(w) \/ clearIdentityMismatch(w)

IdentityNext ==
    \/ \E w \in Pollers : PollStep(w) \/ \E id \in Ids : QueuePoll(w, id)
    \/ \E a \in Sites, m \in MACs \cup {NoMAC} : Mount(a, m)
    \/ \E id \in Ids :
          \/ DeleteDevice(id)
          \/ \E m \in MACs : LearnDeviceMAC(id, m)
          \/ \E a \in Sites : AddDevice(a, id)
    \/ \E m \in MACs : DropStatistics(m)

\* Polls end, requests end, and every row is polled again by the next cycle.
IdentityFairness ==
    /\ \A w \in Pollers : WF_<<store, identityVars>>(PollStep(w))
    /\ \A m \in MACs : WF_<<store, identityVars>>(DropStatistics(m))
    /\ \A id \in Ids : WF_<<store, identityVars>>(rows[id] # NoRow /\ ~Busy(id, rows[id].mac)
                                             /\ \E w \in Pollers : QueuePoll(w, id))

-----------------------------------------------------------------------------
\* Statistics are never stored under the MAC of another radio, whatever answers at the
\* address of a device, if the answer tells the radio's own MAC (canonical_mac.go).
StatsBelong == \A m \in MACs : origin[m] \in {m, NoMAC}

\* Once its requests are through, a deleted device or a replaced MAC leaves no entry that
\* alerts would read as the device, unless a poll was running (DeleteDevice, LearnDeviceMAC).
NoGhost ==
    \A m \in MACs \ removing :
        LET e == store.entry[m]
        IN e # NoEntry /\ e.id # 0 /\ ~overlapped
             => rows[e.id] # NoRow /\ rows[e.id].mac = m

\* The radio of the row is the one at its address, and says so when asked.
RightRadio(id) ==
    /\ rows[id] # NoRow /\ radioAt[rows[id].addr] = rows[id].mac
    /\ \A k \in Ids \ {id} : rows[k] = NoRow \/ rows[k].addr # rows[id].addr
    /\ \A w \in Pollers : At(w, "mismatch") \/ At(w, "store") => job[w].own # NoMAC

Settled(id) ==
    /\ rows[id] # NoRow /\ evidence[id] = NoEvidence
    /\ store.entry[rows[id].mac] # NoEntry /\ store.entry[rows[id].mac].status = "online"

\* When the radio of a row answers again, the row is online and the evidence of a
\* replacement is gone, unless polls of the row overlapped (clearIdentityMismatch runs
\* only when the device comes online).
MismatchSettles ==
    \A id \in Ids : <>[](RightRadio(id) /\ ~overlapped) => <>[]Settled(id)
=============================================================================
