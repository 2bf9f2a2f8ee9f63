--------------------------- MODULE StationTopology --------------------------
(***************************************************************************)
(* Which access point a station belongs to and whether it is online: the   *)
(* peer list of each access point is read by its own poll, accepted or     *)
(* held back (internal/poller/poller_core.go), put in the live store and   *)
(* then written row by row to the inventory (internal/poller/children.go), *)
(* while the polls of other access points do the same. The guard against   *)
(* loops in the inventory runs before each cycle.                          *)
(*                                                                         *)
(* A row keeps its role and its parent; the role of a radio is what it     *)
(* reports when polled. Firmware, site, SSID and names are left out, and   *)
(* so is the fate of stations whose access point fails (module Poller).    *)
(***************************************************************************)
EXTENDS Naturals, FiniteSets, TLC

CONSTANTS
    APs, Stations,
    Managed,         \* radios polled directly even below a parent
    Echo,            \* pairs <<x, y>>: the peers of access point x include y
    None,
    MaxRoams         \* bound on the moves of stations

VARIABLES
    heard,           \* the access point each station is associated with
    devices,         \* table devices: role and parent_id, or None
    status,          \* live status of the stations
    emptyPeerPolls,
    poll,            \* the poll of each access point
    glitched,        \* an access point whose last answer was wrongly empty
    roams

topologyVars == <<heard, devices, status, emptyPeerPolls, poll, glitched, roams>>

Radios == APs \cup Stations

Row == [role : {"", "ap", "sta"}, parent : Radios \cup {None}]

ASSUME TopologyAssumption ==
    /\ APs \cap Stations = {} /\ None \notin Radios \cup Row
    /\ Managed \subseteq Radios /\ Echo \subseteq APs \X APs
    /\ \A ap \in APs : <<ap, ap>> \notin Echo

NoPoll == [pc |-> "idle"]

-----------------------------------------------------------------------------
(* The cycle. *)

\* Rows the cycle polls directly.
Polled(r) == devices[r] # None /\ (devices[r].parent = None \/ r \in Managed)

HasRole(r, role) == r # None /\ devices[r] # None /\ devices[r].role = role

\* A parent that is itself, below an access point, or a station.
BadParent(r) ==
    /\ devices[r] # None /\ devices[r].parent # None
    /\ \/ devices[r].parent = r
       \/ HasRole(r, "ap")
       \/ HasRole(r, "sta") /\ HasRole(devices[r].parent, "sta")

\* Mutant of breakStaParentLoops: only a row that is its own parent is cleared.
breakSelfLoops ==
    /\ \E r \in Radios : BadParent(r) /\ devices[r].parent = r
    /\ devices' = [r \in Radios |-> IF BadParent(r) THEN [devices[r] EXCEPT !.parent = None] ELSE devices[r]]
    /\ UNCHANGED <<heard, status, emptyPeerPolls, poll, glitched, roams>>

breakStaParentLoops ==
    /\ \E r \in Radios : BadParent(r)
    /\ devices' = [r \in Radios |-> IF BadParent(r) THEN [devices[r] EXCEPT !.parent = None] ELSE devices[r]]
    /\ UNCHANGED <<heard, status, emptyPeerPolls, poll, glitched, roams>>

-----------------------------------------------------------------------------
(* The poll of an access point. *)

PeersOf(ap) == {s \in Stations : heard[s] = ap} \cup {y \in APs : <<ap, y>> \in Echo}

PollAt(ap, pc) == poll[ap].pc = pc
PollGoto(ap, pc) == poll' = [poll EXCEPT ![ap].pc = pc]

\* The device answers with its peers, or once in a row with none.
Fetch(ap) ==
    /\ PollAt(ap, "idle") /\ Polled(ap)
    /\ \E glitch \in {b \in BOOLEAN : b => ~glitched[ap]} :
          /\ glitched' = [glitched EXCEPT ![ap] = glitch]
          /\ poll' = [poll EXCEPT ![ap] = [pc |-> "accept", jobRole |-> devices[ap].role,
                                           peers |-> IF glitch THEN {} ELSE PeersOf(ap)]]
    /\ UNCHANGED <<heard, devices, status, emptyPeerPolls, roams>>

\* A list that is not empty counts at once, an empty one from the second in a row.
acceptPeerSnapshot(ap) ==
    /\ PollAt(ap, "accept")
    /\ LET seen == IF poll[ap].peers # {} THEN 0
                   ELSE IF emptyPeerPolls[ap] = 2 THEN 2 ELSE emptyPeerPolls[ap] + 1
       IN /\ emptyPeerPolls' = [emptyPeerPolls EXCEPT ![ap] = seen]
          /\ PollGoto(ap, IF poll[ap].peers = {} /\ seen < 2 THEN "self" ELSE "store")
    /\ UNCHANGED <<heard, devices, status, glitched, roams>>

\* UpdatePeers: every station of the list is online.
StorePeers(ap) ==
    /\ PollAt(ap, "store")
    /\ poll' = [poll EXCEPT ![ap] = [pc |-> "self", todo |-> @.peers] @@ @]
    /\ status' = [s \in Stations |-> IF s \in poll[ap].peers THEN "online" ELSE status[s]]
    /\ UNCHANGED <<heard, devices, emptyPeerPolls, glitched, roams>>

\* An access point has no parent.
ClearOwnParent(ap) ==
    /\ PollAt(ap, "self")
    /\ PollGoto(ap, IF "todo" \in DOMAIN poll[ap] THEN "row" ELSE "role")
    /\ devices' = [devices EXCEPT ![ap].parent = None]
    /\ UNCHANGED <<heard, status, emptyPeerPolls, glitched, roams>>

\* updateSTAsInDB reads the row of one peer after the other ...
LookupPeer(ap, r) ==
    /\ PollAt(ap, "row") /\ r \in poll[ap].todo
    /\ poll' = [poll EXCEPT ![ap] = [@ EXCEPT !.pc = "write", !.todo = @ \ {r}]
                                      @@ [peer |-> r, old |-> devices[r]]]
    /\ UNCHANGED <<heard, devices, status, emptyPeerPolls, glitched, roams>>

AsStation(ap) == [role |-> "sta", parent |-> ap]

\* Mutant of WrittenRow: the role of the row is not looked at.
WrittenRowAny(ap, old, now) == AsStation(ap)

\* ... and writes it: one known as an access point loses its parent, another becomes a
\* station of this one. Only the insert of a new row looks at the role again.
WrittenRow(ap, old, now) ==
    CASE old = None -> IF now # None /\ now.role = "ap" THEN [now EXCEPT !.parent = None]
                       ELSE AsStation(ap)
      [] old # None /\ now = None -> None
      [] old # None /\ now # None ->
            IF old.role = "ap" THEN [now EXCEPT !.parent = IF old.parent = None THEN @ ELSE None]
            ELSE AsStation(ap)

WritePeer(ap) ==
    LET p == poll[ap]  r == p.peer
    IN /\ PollAt(ap, "write")
       /\ poll' = [poll EXCEPT ![ap] = [pc |-> "row", jobRole |-> p.jobRole, peers |-> p.peers, todo |-> p.todo]]
       /\ devices' = [devices EXCEPT ![r] = WrittenRow(ap, p.old, @)]
       /\ status' = [s \in Stations |->
             IF s = r /\ (p.old = None \/ p.old.role # "ap") THEN "online" ELSE status[s]]
       /\ UNCHANGED <<heard, emptyPeerPolls, glitched, roams>>

\* The stations of this access point that are not in the list ...
FindMissing(ap) ==
    /\ PollAt(ap, "row") /\ poll[ap].todo = {}
    /\ poll' = [poll EXCEPT ![ap] = [@ EXCEPT !.pc = "mark"] @@
          [gone |-> {s \in Stations \ poll[ap].peers : HasRole(s, "sta") /\ devices[s].parent = ap}]]
    /\ UNCHANGED <<heard, devices, status, emptyPeerPolls, glitched, roams>>

\* ... are offline.
markMissingSTAsOffline(ap) ==
    /\ PollAt(ap, "mark") /\ PollGoto(ap, "role")
    /\ status' = [s \in Stations |-> IF s \in poll[ap].gone THEN "offline" ELSE status[s]]
    /\ UNCHANGED <<heard, devices, emptyPeerPolls, glitched, roams>>

\* A row that was not known as an access point when the poll was queued becomes one.
PromoteToAP(ap) ==
    /\ PollAt(ap, "role")
    /\ poll' = [poll EXCEPT ![ap] = NoPoll]
    /\ devices' = [devices EXCEPT ![ap] =
          IF poll[ap].jobRole = "ap" THEN @ ELSE [role |-> "ap", parent |-> None]]
    /\ UNCHANGED <<heard, status, emptyPeerPolls, glitched, roams>>

-----------------------------------------------------------------------------
\* A station without a parent is polled itself: it answers through its access point.
PollStation(s) ==
    /\ Polled(s)
    /\ devices' = [devices EXCEPT ![s].role = IF heard[s] = None THEN @ ELSE "sta"]
    /\ status' = [status EXCEPT ![s] = IF heard[s] = None THEN "offline" ELSE "online"]
    /\ UNCHANGED <<heard, emptyPeerPolls, poll, glitched, roams>>

Roam(s, ap) ==
    /\ roams < MaxRoams /\ heard[s] # ap
    /\ heard' = [heard EXCEPT ![s] = ap] /\ roams' = roams + 1
    /\ UNCHANGED <<devices, status, emptyPeerPolls, poll, glitched>>

\* The inventory is empty, or the access points are known, or one of them was taken for a
\* station of its own station by an earlier mistake that the guard against loops repairs.
TopologyInit ==
    /\ heard \in [Stations -> APs \cup {None}]
    /\ status = [s \in Stations |-> "none"]
    /\ \/ devices = [r \in Radios |-> None]
       \/ devices = [r \in Radios |-> IF r \in APs THEN [role |-> "ap", parent |-> None] ELSE None]
       \/ \E ap \in APs, s \in Stations :
             devices = [r \in Radios |-> CASE r = ap -> [role |-> "sta", parent |-> s]
                                           [] r = s -> [role |-> "sta", parent |-> ap]
                                           [] r \in APs \ {ap} -> [role |-> "ap", parent |-> None]
                                           [] r \in Stations \ {s} -> None]
    /\ emptyPeerPolls = [ap \in APs |-> 0]
    /\ poll = [ap \in APs |-> NoPoll]
    /\ glitched = [ap \in APs |-> FALSE] /\ roams = 0

PollSteps(ap) ==
    \/ Fetch(ap) \/ acceptPeerSnapshot(ap) \/ StorePeers(ap) \/ ClearOwnParent(ap)
    \/ (\E r \in Radios : LookupPeer(ap, r)) \/ WritePeer(ap) \/ FindMissing(ap)
    \/ markMissingSTAsOffline(ap) \/ PromoteToAP(ap)

TopologyNext ==
    \/ breakStaParentLoops
    \/ \E ap \in APs : PollSteps(ap)
    \/ \E s \in Stations : PollStation(s) \/ \E ap \in APs \cup {None} : Roam(s, ap)

\* Cycles follow each other, and every poll ends by its timeouts.
TopologyFairness ==
    /\ WF_topologyVars(breakStaParentLoops)
    /\ \A ap \in APs : WF_topologyVars(PollSteps(ap))
    /\ \A s \in Stations : WF_topologyVars(PollStation(s))

-----------------------------------------------------------------------------
\* A poll has read the row before it became the row of an access point, and will write it
\* as a station's: the update of a row that exists does not look at the role again.
ReadBefore(r) ==
    \E ap \in APs : /\ PollAt(ap, "write") /\ poll[ap].peer = r
                   /\ poll[ap].old # None /\ poll[ap].old.role # "ap"

Overtaken == \E ap \in APs : HasRole(ap, "ap") /\ ReadBefore(ap)

\* A device known as an access point is never made a station or given a parent because
\* another one lists it as a peer, unless the poll of that one has read its row before it
\* was promoted (children.go:170-190, 239-327).
NeverDemoted ==
    [][\A ap \in APs : HasRole(ap, "ap") /\ ~ReadBefore(ap)
          => devices'[ap] = [role |-> "ap", parent |-> None]]_topologyVars

\* Whatever polls overlapped with its moves, a station that stays with an access point of
\* the inventory ends below it and online, and one that has left ends not online, if no
\* promotion was overtaken by an older read of its row (children.go:61-513).
StationsSettle ==
    []~Overtaken => \A s \in Stations :
        /\ \A ap \in APs :
              <>[](heard[s] = ap /\ devices[ap] # None)
                => <>[](devices[s] = AsStation(ap) /\ status[s] = "online")
        /\ <>[](heard[s] = None) => <>[](status[s] # "online")
=============================================================================
