----------------------------- MODULE StatsStore -----------------------------
(***************************************************************************)
(* The store of live statistics, internal/stats/store.go: entries keyed by *)
(* MAC, or by address while no MAC is known, and the two lookup tables     *)
(* byMAC and byIP. Every operation runs under the lock of the store, so    *)
(* each is an operator from one value of the store to the next; their      *)
(* callers make them in any order.                                         *)
(*                                                                         *)
(* The key "ip:<address>" of an entry without a MAC is the address itself. *)
(***************************************************************************)
EXTENDS Naturals, Sequences, SequencesExt

CONSTANTS
    MACs, Addrs,
    Allowed,         \* addresses the IP filter lets through
    NoMAC, NoAddr, NoEntry,
    Ids              \* ids of inventory rows

Keys == MACs \cup Addrs
Statuses == {"none", "online", "unknown", "offline"}
Entries == [id : {0} \cup Ids, status : Statuses, addr : Addrs \cup {NoAddr}, child : BOOLEAN]
Blank == [id |-> 0, status |-> "none", addr |-> NoAddr, child |-> FALSE]

ASSUME StoreAssumption ==
    /\ MACs \cap Addrs = {} /\ Allowed \subseteq Addrs
    /\ NoMAC \notin MACs /\ NoAddr \notin Addrs /\ NoEntry \notin Entries
    /\ Ids # {} /\ 0 \notin Ids

Stores == [entry : [Keys -> Entries \cup {NoEntry}],
           byMAC : [MACs -> Addrs \cup {NoAddr}],
           byIP  : [Addrs -> MACs \cup {NoMAC}]]

NewStore == [entry |-> [k \in Keys |-> NoEntry],
             byMAC |-> [m \in MACs |-> NoAddr],
             byIP  |-> [a \in Addrs |-> NoMAC]]

-----------------------------------------------------------------------------
\* Mutant of Link: the MAC that held the address keeps it.
LinkOver(s, m, a) ==
    [s EXCEPT !.byMAC = [@ EXCEPT ![m] = a],
              !.byIP  = [x \in Addrs |->
                            IF x = a THEN m
                            ELSE IF s.byMAC[m] = x /\ s.byIP[x] = m THEN NoMAC ELSE s.byIP[x]]]

\* MAC m is at address a: the MAC that held the address loses it, and so does the
\* address that m held. Update, UpdatePeers, BindIdentityByMAC, SetStatusByMACChanged
\* and SetIPForMAC each spell it out.
Link(s, m, a) ==
    [s EXCEPT !.byMAC = [n \in MACs |->
                            IF n = m THEN a
                            ELSE IF s.byIP[a] = n /\ s.byMAC[n] = a THEN NoAddr
                            ELSE s.byMAC[n]],
              !.byIP  = [x \in Addrs |->
                            IF x = a THEN m
                            ELSE IF s.byMAC[m] = x /\ s.byIP[x] = m THEN NoMAC
                            ELSE s.byIP[x]]]

\* The MAC given, else the one the address maps to, else the address.
KeyOf(s, m, a) == IF m # NoMAC THEN m ELSE IF s.byIP[a] # NoMAC THEN s.byIP[a] ELSE a

EntryOr(s, k) == IF s.entry[k] = NoEntry THEN Blank ELSE s.entry[k]

\* A successful poll; the id of the entry, or of its placeholder, is kept. The second
\* result is whether the device came online.
Previous(s, m, a) ==
    IF m # NoMAC /\ s.entry[m] = NoEntry THEN EntryOr(s, a)
    ELSE EntryOr(s, IF m = NoMAC THEN a ELSE m)

BecameOnline(s, m, a) == Previous(s, m, a).status # "online"

Update(s, m, a) ==
    LET new == [id |-> Previous(s, m, a).id, status |-> "online", addr |-> a, child |-> FALSE]
    IN IF m = NoMAC
       THEN [s EXCEPT !.entry[a] = new]
       ELSE [Link(s, m, a) EXCEPT !.entry = [@ EXCEPT ![a] = NoEntry, ![m] = new]]

BindIdentityByMAC(s, m, a, id) ==
    LET k == KeyOf(s, m, a)
        bound == [EntryOr(s, k) EXCEPT !.id = id, !.addr = a]
    IN IF k \in MACs
       THEN [Link(s, k, a) EXCEPT !.entry = [@ EXCEPT ![a] = NoEntry, ![k] = bound]]
       ELSE [s EXCEPT !.entry[k] = bound]

SetStatusByMAC(s, m, a, status) ==
    LET k == KeyOf(s, m, a)
        new == [EntryOr(s, k) EXCEPT !.status = status, !.addr = a]
    IN [(IF k \in MACs THEN Link(s, k, a) ELSE s) EXCEPT !.entry[k] = new]

\* Seeding from a row of the inventory, if the filter lets the address through.
SetIPForMAC(s, m, a) ==
    LET moved == IF s.entry[m] = NoEntry THEN NoEntry ELSE [s.entry[m] EXCEPT !.addr = a]
    IN IF a \notin Allowed \/ s.byMAC[m] = a THEN s
       ELSE [Link(s, m, a) EXCEPT !.entry = [@ EXCEPT ![a] = NoEntry, ![m] = moved]]

\* One peer of a snapshot: its address counts only if the filter lets it through.
EffectiveIP(s, peer) ==
    IF peer.addr \in Allowed THEN peer.addr ELSE s.byMAC[peer.mac]

UpdatePeer(s, peer) ==
    LET a == EffectiveIP(s, peer)
        linked == IF a # NoAddr /\ a # s.byMAC[peer.mac] THEN Link(s, peer.mac, a) ELSE s
    IN [linked EXCEPT !.entry[peer.mac] =
            [EntryOr(s, peer.mac) EXCEPT !.status = "online", !.addr = a, !.child = TRUE]]

UpdatePeers(s, ap, a, peers) == FoldLeft(UpdatePeer, Link(s, ap, a), peers)

RemoveByMAC(s, m) ==
    [s EXCEPT !.byIP = [a \in Addrs |-> IF a = s.byMAC[m] /\ @[a] = m THEN NoMAC ELSE @[a]],
              !.byMAC[m] = NoAddr,
              !.entry[m] = NoEntry]

RemoveByIP(s, a) ==
    LET m == s.byIP[a]
    IN IF m = NoMAC THEN [s EXCEPT !.entry[a] = NoEntry]
       ELSE [s EXCEPT !.byIP[a] = NoMAC,
                      !.byMAC[m] = IF @ = a THEN NoAddr ELSE @,
                      !.entry[m] = NoEntry]

\* CleanStale drops an entry with a parent that was not seen for five minutes; the
\* address it clears is the one in the entry.
Dropped(s, m) ==
    [s EXCEPT !.byMAC[m] = NoAddr,
              !.byIP = [a \in Addrs |-> IF a = s.entry[m].addr /\ @[a] = m THEN NoMAC ELSE @[a]],
              !.entry[m] = NoEntry]

-----------------------------------------------------------------------------
(* The store under any sequence of calls. *)

VARIABLE store

Peers == [mac : MACs, addr : Addrs \cup {NoAddr}]
Snapshots == {<<>>} \cup {<<p>> : p \in Peers}

StoreInit == store = NewStore

CallUpdate(m, a) == store' = Update(store, m, a)
CallBind(m, a, id) == store' = BindIdentityByMAC(store, m, a, id)
CallSetStatus(m, a, st) == store' = SetStatusByMAC(store, m, a, st)
CallSetIP(m, a) == store' = SetIPForMAC(store, m, a)

\* A poll of an access point stores its own statistics and then those of its stations.
CallUpdatePeers(m, a, ps) ==
    /\ \A i \in DOMAIN ps : ps[i].mac # m
    /\ store' = UpdatePeers(Update(store, m, a), m, a, ps)

CallRemoveByMAC(m) == store' = RemoveByMAC(store, m)
CallRemove(a) == store' = RemoveByIP(store, a)

CleanStale(m) ==
    /\ store.entry[m] # NoEntry /\ store.entry[m].child
    /\ store' = Dropped(store, m)

StoreNext ==
    \/ \E m \in MACs \cup {NoMAC}, a \in Addrs :
          \/ CallUpdate(m, a)
          \/ CallBind(m, a, CHOOSE id \in Ids : TRUE)
          \/ CallSetStatus(m, a, "offline")
    \/ \E m \in MACs, a \in Addrs :
          CallSetIP(m, a) \/ \E ps \in Snapshots : CallUpdatePeers(m, a, ps)
    \/ \E m \in MACs : CallRemoveByMAC(m) \/ CleanStale(m)
    \/ \E a \in Addrs : CallRemove(a)

\* The two lookup tables are inverse to each other after any sequence of calls: an
\* address leads to one MAC, and that MAC to the address (store.go:590-1074, 1403-1433).
LookupsAgree ==
    \A m \in MACs, a \in Addrs : store.byMAC[m] = a <=> store.byIP[a] = m
=============================================================================
