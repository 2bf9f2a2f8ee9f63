--------------------------- MODULE InventoryProofs ---------------------------
(***************************************************************************)
(* Proofs about the inventory, for any devices, MACs, addresses and polls: *)
(* the live statistics stay where their lookups say, a deleted device      *)
(* leaves none behind, and an access point stays one.                      *)
(*                                                                         *)
(* Three layers: what every operation of the store keeps, as lemmas about  *)
(* the store alone; what a poll knows of its row and of the radio at each  *)
(* of its stages, which is what makes NoGhostEntry inductive; and what a   *)
(* walk over the stations of an access point has read of their roles.      *)
(***************************************************************************)
EXTENDS MCInventory, TLAPS

-----------------------------------------------------------------------------
(* The live store.                                                         *)

Agree(s) == \A m \in MACs, a \in Addrs : s.byMAC[m] = a <=> s.byIP[a] = m

(* An entry has the address its MAC is at: CleanStale clears the lookups   *)
(* of the address in the entry, and relies on it.                          *)
InPlaceFor(s, m) ==
    s.entry[m] # NoEntry /\ s.byMAC[m] # NoAddr => s.entry[m].addr = s.byMAC[m]

GoodStore(s) == s \in Stores /\ Agree(s) /\ \A m \in MACs : InPlaceFor(s, m)

-----------------------------------------------------------------------------
(* The identity of devices.                                                *)

Stages == {"queued", "probe", "mismatch", "persist", "store", "info", "clear"}

JobType == [pc : Stages, id : Ids, mac : MACs, addr : Sites, own : MACs \cup {NoMAC},
            observed : SUBSET MACs, canonical : MACs \cup {NoMAC},
            radio : MACs \cup {NoMAC}, became : BOOLEAN]

IdentityTypes ==
    /\ rows \in [Ids -> [mac : MACs, addr : Sites] \cup {NoRow}]
    /\ radioAt \in [Sites -> MACs \cup {NoMAC}]
    /\ job \in [Pollers -> JobType \cup {NoJob}]
    /\ origin \in [MACs -> MACs \cup {NoMAC}]

(* What a poll has learned is about the MAC it was queued for.             *)
TellsOwn(j) ==
    /\ j.pc \in {"store", "info"} => j.canonical = j.mac
    /\ j.pc = "store" /\ j.own # NoMAC => j.radio = j.mac

ToldOwn == \A w \in Pollers : job[w] # NoJob => TellsOwn(job[w])

(* Until something overlaps, a poll has the MAC of its row.                *)
RowsHeld ==
    ~overlapped => \A w \in Pollers : job[w] # NoJob =>
        rows[job[w].id] # NoRow /\ rows[job[w].id].mac = job[w].mac

(* Polls name a MAC, so they leave no entry under an address.              *)
NoPlaceholder == \A a \in Addrs : store.entry[a] = NoEntry

IdentityInv ==
    /\ GoodStore(store)
    /\ IdentityTypes /\ ToldOwn /\ RowsHeld /\ StatsBelong
    /\ part = "identity" => NoPlaceholder /\ NoGhost

-----------------------------------------------------------------------------
(* The topology.                                                           *)

TopologyInv ==
    /\ devices \in [Radios -> Row \cup {None}]
    /\ DOMAIN poll = APs
    /\ \A ap \in APs : poll[ap].pc # "idle" => devices[ap] # None
    /\ \A ap \in APs : HasRole(ap, "ap") => devices[ap].parent = None

-----------------------------------------------------------------------------
(* The fold over a list of peers, which has at most one here.              *)

(* The equation that the fold of UpdatePeers is chosen by.                 *)
Folding(it, base, ps) ==
    it = [t \in SUBSET DOMAIN ps |->
            IF t = {} THEN base ELSE UpdatePeer(it[t \ {Max(t)}], ps[Max(t)])]

(* The fold of UpdatePeers is a function of the community modules.         *)
LEMMA FoldOfPeers ==
  ASSUME NEW s, NEW m, NEW a, NEW ps
  PROVE  UpdatePeers(s, m, a, ps) = (CHOOSE it : Folding(it, Link(s, m, a), ps))[DOMAIN ps]
BY DEF UpdatePeers, FoldLeft, MapThenFoldSet, Folding

(* The function that is chosen is one, when there is one.                  *)
LEMMA FoldChosen ==
  ASSUME NEW base, NEW ps, NEW it, Folding(it, base, ps)
  PROVE  Folding(CHOOSE x : Folding(x, base, ps), base, ps)
BY Zenon

(* A list without peers leaves the link of the access point.               *)
LEMMA NoPeers ==
  ASSUME NEW s, NEW m, NEW a
  PROVE  UpdatePeers(s, m, a, <<>>) = Link(s, m, a)
<1> DEFINE base == Link(s, m, a)
           ps == <<>>
           it == [t \in SUBSET DOMAIN ps |-> base]
           f == CHOOSE x : Folding(x, base, ps)
<1>0. DOMAIN ps = {}
  OBVIOUS
<1>1. Folding(it, base, ps)
  BY <1>0 DEF Folding
<1>2. Folding(f, base, ps)
  BY <1>1, FoldChosen
<1>3. f[{}] = base
  <2> HIDE DEF f, base, ps
  <2> QED BY <1>0, <1>2 DEF Folding
<1> QED BY <1>0, <1>3, FoldOfPeers

(* The index a fold over one element ends at.                              *)
LEMMA MaxOne == Max({1}) = 1
BY DEF Max

(* A list of one peer is the link of the access point and then the peer.   *)
LEMMA OnePeer ==
  ASSUME NEW s, NEW m, NEW a, NEW p
  PROVE  UpdatePeers(s, m, a, <<p>>) = UpdatePeer(Link(s, m, a), p)
<1> DEFINE base == Link(s, m, a)
           ps == <<p>>
           it == [t \in SUBSET DOMAIN ps |-> IF t = {} THEN base ELSE UpdatePeer(base, p)]
           f == CHOOSE x : Folding(x, base, ps)
<1>0. DOMAIN ps = {1} /\ ps[1] = p
  OBVIOUS
<1>1. Folding(it, base, ps)
  <2>1. \A t \in SUBSET {1} : t = {} \/ t = {1}
    OBVIOUS
  <2>2. it[{}] = base
    BY <1>0
  <2> HIDE DEF base, ps
  <2>3. \A t \in SUBSET {1} : t # {} =>
          UpdatePeer(it[t \ {Max(t)}], ps[Max(t)]) = UpdatePeer(base, p)
    <3> SUFFICES UpdatePeer(it[{1} \ {Max({1})}], ps[Max({1})]) = UpdatePeer(base, p)
      BY <2>1
    <3>1. {1} \ {1} = {}
      OBVIOUS
    <3> HIDE DEF it
    <3> QED BY <2>2, <3>1, <1>0, MaxOne
  <2>4. it = [t \in SUBSET {1} |->
              IF t = {} THEN base ELSE UpdatePeer(it[t \ {Max(t)}], ps[Max(t)])]
    BY <2>3, <1>0, Zenon
  <2> HIDE DEF it
  <2> QED BY <2>4, <1>0 DEF Folding
<1>2. Folding(f, base, ps)
  BY <1>1, FoldChosen
<1>3. f[{1}] = UpdatePeer(base, p)
  <2> HIDE DEF f, base, ps
  <2>1. {1} \ {1} = {} /\ {1} # {} /\ {} \in SUBSET DOMAIN ps /\ {1} \in SUBSET DOMAIN ps
    BY <1>0
  <2>2. f[{}] = base
    BY <1>2, <2>1 DEF Folding
  <2>3. f[{1}] = UpdatePeer(f[{1} \ {Max({1})}], ps[Max({1})])
    BY <1>2, <2>1 DEF Folding
  <2> QED BY <2>1, <2>2, <2>3, <1>0, MaxOne
<1> QED BY <1>0, <1>3, FoldOfPeers

-----------------------------------------------------------------------------
(* What each operation makes of a store, for stores in general.            *)

(* A link leaves a store.                                                  *)
LEMMA LinkType ==
  ASSUME NEW s \in Stores, NEW m \in MACs, NEW a \in Addrs
  PROVE  Link(s, m, a) \in Stores
BY DEF Link, Stores

(* What a link does to the two lookups.                                    *)
LEMMA LinkFacts ==
  ASSUME NEW s \in Stores, NEW m \in MACs, NEW a \in Addrs
  PROVE  /\ Link(s, m, a).entry = s.entry
         /\ Link(s, m, a).byMAC =
              [n \in MACs |-> IF n = m THEN a
                              ELSE IF s.byIP[a] = n /\ s.byMAC[n] = a THEN NoAddr
                              ELSE s.byMAC[n]]
         /\ Link(s, m, a).byIP =
              [x \in Addrs |-> IF x = a THEN m
                               ELSE IF s.byMAC[m] = x /\ s.byIP[x] = m THEN NoMAC
                               ELSE s.byIP[x]]
BY DEF Link, Stores

(* A link leaves the two lookups inverse to each other.                    *)
LEMMA LinkAgrees ==
  ASSUME NEW s \in Stores, NEW m \in MACs, NEW a \in Addrs, Agree(s)
  PROVE  /\ Agree(Link(s, m, a))
         /\ Link(s, m, a).byMAC[m] = a
         /\ \A n \in MACs \ {m} : Link(s, m, a).byMAC[n] \in {s.byMAC[n], NoAddr}
<1> DEFINE t == Link(s, m, a)
<1>1. /\ \A n \in MACs : t.byMAC[n] = IF n = m THEN a
                              ELSE IF s.byIP[a] = n /\ s.byMAC[n] = a THEN NoAddr
                              ELSE s.byMAC[n]
      /\ \A x \in Addrs : t.byIP[x] = IF x = a THEN m
                               ELSE IF s.byMAC[m] = x /\ s.byIP[x] = m THEN NoMAC
                               ELSE s.byIP[x]
  <2>1. /\ t.byMAC = [n \in MACs |-> IF n = m THEN a
                              ELSE IF s.byIP[a] = n /\ s.byMAC[n] = a THEN NoAddr
                              ELSE s.byMAC[n]]
        /\ t.byIP = [x \in Addrs |-> IF x = a THEN m
                               ELSE IF s.byMAC[m] = x /\ s.byIP[x] = m THEN NoMAC
                               ELSE s.byIP[x]]
    BY LinkFacts
  <2> HIDE DEF t
  <2> QED BY <2>1
<1> HIDE DEF t
<1>2. Agree(t)
  BY <1>1, StoreAssumption DEF Agree
<1>3. t.byMAC[m] = a /\ \A n \in MACs \ {m} : t.byMAC[n] \in {s.byMAC[n], NoAddr}
  BY <1>1
<1> QED BY <1>2, <1>3 DEF t

(* What the operations that link go on from.                               *)
LinkedTo(s, l, m, a) ==
    /\ l \in Stores /\ l.entry = s.entry /\ Agree(l) /\ l.byMAC[m] = a
    /\ \A n \in MACs \ {m} : l.byMAC[n] \in {s.byMAC[n], NoAddr}

(* All that the operations below use of a link.                            *)
LEMMA Linked ==
  ASSUME NEW s \in Stores, NEW m \in MACs, NEW a \in Addrs, Agree(s)
  PROVE  LinkedTo(s, Link(s, m, a), m, a)
<1>1. Link(s, m, a) \in Stores
  BY LinkType, Zenon
<1>2. Link(s, m, a).entry = s.entry
  BY DEF Link, Stores
<1> QED BY <1>1, <1>2, LinkAgrees, Zenon DEF LinkedTo

(* A store whose entry of one MAC is replaced by one for where the MAC is. *)
LEMMA Replaced ==
  ASSUME NEW s \in Stores, NEW u \in Stores, NEW m \in MACs, GoodStore(s), Agree(u),
         \A n \in MACs \ {m} : u.entry[n] = s.entry[n] /\ u.byMAC[n] \in {s.byMAC[n], NoAddr},
         InPlaceFor(u, m)
  PROVE  GoodStore(u)
BY DEF GoodStore, InPlaceFor

(* The entry an update starts from, found or blank.                        *)
LEMMA EntryOrType ==
  ASSUME NEW s \in Stores, NEW k \in Keys
  PROVE  EntryOr(s, k) \in Entries
BY DEF EntryOr, Stores, Blank, Entries, Statuses

(* A MAC is linked to an address and gets an entry for it; an entry under  *)
(* the address is dropped, or not.                                         *)
Put(l, m, a, old, new) == [l EXCEPT !.entry = [@ EXCEPT ![a] = old, ![m] = new]]

HasPut(s, u, m, a, old, new) ==
    /\ GoodStore(u) /\ u.byMAC[m] = a
    /\ u.entry[m] = new /\ u.entry[a] = old
    /\ \A k \in Keys \ {a, m} : u.entry[k] = s.entry[k]

(* What a store holds after a link and an entry for it.                    *)
LEMMA PutLinked ==
  ASSUME NEW s, GoodStore(s), NEW l, NEW m \in MACs, NEW a \in Addrs, LinkedTo(s, l, m, a),
         NEW new \in Entries, new.addr = a,
         NEW old, old = s.entry[a] \/ old = NoEntry
  PROVE  HasPut(s, Put(l, m, a, old, new), m, a, old, new)
<1> DEFINE u == Put(l, m, a, old, new)
<1>0. s \in Stores /\ a \notin MACs /\ a \in Keys /\ m \in Keys
  BY StoreAssumption DEF GoodStore, Keys
<1>1. old \in Entries \cup {NoEntry}
  BY <1>0 DEF Stores
<1>2. /\ l \in Stores /\ l.entry = s.entry /\ Agree(l) /\ l.byMAC[m] = a
      /\ \A n \in MACs \ {m} : l.byMAC[n] \in {s.byMAC[n], NoAddr}
  BY DEF LinkedTo
<1>3. /\ u \in Stores /\ u.byMAC = l.byMAC /\ u.byIP = l.byIP
      /\ u.entry[m] = new /\ u.entry[a] = old
      /\ \A k \in Keys \ {a, m} : u.entry[k] = s.entry[k]
  BY <1>0, <1>1, <1>2 DEF Stores, Put
<1> HIDE DEF u
<1>4. Agree(u) /\ InPlaceFor(u, m)
  BY <1>2, <1>3 DEF Agree, InPlaceFor
<1>5. \A n \in MACs \ {m} : u.entry[n] = s.entry[n] /\ u.byMAC[n] \in {s.byMAC[n], NoAddr}
  BY <1>0, <1>2, <1>3 DEF Keys
<1>6. GoodStore(u)
  BY <1>0, <1>3, <1>4, <1>5, Replaced
<1> QED BY <1>2, <1>3, <1>6 DEF HasPut, u

(* Entries under an address have no part in the lookups.                   *)
LEMMA PutUnlinked ==
  ASSUME NEW s, GoodStore(s), NEW a \in Addrs, NEW new \in Entries \cup {NoEntry},
         NEW u, u = [s EXCEPT !.entry[a] = new]
  PROVE  GoodStore(u)
<1>0. s \in Stores /\ a \notin MACs /\ a \in Keys
  BY StoreAssumption DEF GoodStore, Keys
<1>1. u \in Stores /\ u.byMAC = s.byMAC /\ u.byIP = s.byIP
      /\ \A n \in MACs : u.entry[n] = s.entry[n]
  BY <1>0 DEF Stores, Keys
<1> QED BY <1>1 DEF GoodStore, Agree, InPlaceFor

(* What a call that names a MAC leaves of the entries.                     *)
Touches(s, u, m, a) ==
    /\ u.entry[m] # NoEntry
    /\ \A k \in Keys \ {m} : u.entry[k] \in {s.entry[k], NoEntry}

(* Update keeps the store in place.                                        *)
LEMMA UpdateGood ==
  ASSUME NEW s, GoodStore(s), NEW m \in MACs \cup {NoMAC}, NEW a \in Addrs
  PROVE  /\ GoodStore(Update(s, m, a))
         /\ m \in MACs => /\ Touches(s, Update(s, m, a), m, a)
                          /\ Update(s, m, a).byMAC[m] = a
                          /\ Update(s, m, a).entry[m].addr = a
                          /\ Update(s, m, a).entry[m].id = Previous(s, m, a).id
<1> DEFINE new == [id |-> Previous(s, m, a).id, status |-> "online", addr |-> a, child |-> FALSE]
<1>0. s \in Stores /\ Agree(s) /\ a \notin MACs /\ NoMAC \notin MACs /\ NoEntry \notin Entries
  BY StoreAssumption DEF GoodStore
<1>1. Previous(s, m, a) \in Entries
  BY EntryOrType, <1>0 DEF Previous, Keys
<1>2. new \in Entries /\ new.addr = a /\ new.id = Previous(s, m, a).id
  <2>1. Previous(s, m, a).id \in {0} \cup Ids
    BY <1>1 DEF Entries
  <2>2. new \in Entries
    BY <2>1 DEF Entries, Statuses
  <2> QED BY <2>2
<1> HIDE DEF new
<1>3. CASE m = NoMAC
  <2>1. Update(s, m, a) = [s EXCEPT !.entry[a] = new]
    BY <1>3 DEF Update, new
  <2> QED BY <1>0, <1>2, <1>3, <2>1, PutUnlinked
<1>4. CASE m \in MACs
  <2> DEFINE l == Link(s, m, a)
             u == Update(s, m, a)
  <2>1. u = Put(l, m, a, NoEntry, new)
    BY <1>0, <1>4 DEF Update, new, Put
  <2>2. LinkedTo(s, l, m, a)
    BY <1>0, <1>4, Linked, Zenon
  <2> HIDE DEF l, u
  <2>3. /\ GoodStore(u) /\ u.byMAC[m] = a
        /\ u.entry[m] = new /\ u.entry[a] = NoEntry
        /\ \A k \in Keys \ {a, m} : u.entry[k] = s.entry[k]
    <3>1. HasPut(s, u, m, a, NoEntry, new)
      BY <1>2, <1>4, <2>1, <2>2, PutLinked, Zenon
    <3> QED BY <3>1 DEF HasPut
  <2>4. Touches(s, u, m, a)
    BY <1>0, <1>2, <2>3 DEF Touches
  <2> QED BY <2>3, <2>4, <1>2 DEF u
<1> QED BY <1>3, <1>4

(* Bind keeps the store in place.                                          *)
LEMMA BindGood ==
  ASSUME NEW s, GoodStore(s), NEW m \in MACs \cup {NoMAC}, NEW a \in Addrs, NEW id \in Ids
  PROVE  /\ GoodStore(BindIdentityByMAC(s, m, a, id))
         /\ m \in MACs => /\ Touches(s, BindIdentityByMAC(s, m, a, id), m, a)
                          /\ BindIdentityByMAC(s, m, a, id).entry[m].id = id
<1> DEFINE k == KeyOf(s, m, a)
           bound == [EntryOr(s, k) EXCEPT !.id = id, !.addr = a]
           u == BindIdentityByMAC(s, m, a, id)
<1>0. s \in Stores /\ Agree(s) /\ a \notin MACs /\ NoMAC \notin MACs /\ NoEntry \notin Entries
  BY StoreAssumption DEF GoodStore
<1>1. k \in MACs \cup {a} /\ (m \in MACs => k = m)
  BY <1>0 DEF KeyOf, Stores
<1>2. bound \in Entries /\ bound.addr = a /\ bound.id = id
  <2>1. EntryOr(s, k) \in Entries
    BY <1>0, <1>1, EntryOrType DEF Keys
  <2> QED BY <2>1 DEF Entries
<1>3. CASE k \in MACs
  <2> DEFINE l == Link(s, k, a)
  <2>1. u = Put(l, k, a, NoEntry, bound)
    BY <1>3 DEF BindIdentityByMAC, Put
  <2>2. LinkedTo(s, l, k, a)
    BY <1>0, <1>3, Linked, Zenon
  <2> HIDE DEF k, bound, l, u
  <2>3. /\ GoodStore(u)
        /\ u.entry[k] = bound /\ u.entry[a] = NoEntry
        /\ \A x \in Keys \ {a, k} : u.entry[x] = s.entry[x]
    <3>1. HasPut(s, u, k, a, NoEntry, bound)
      BY <1>2, <1>3, <2>1, <2>2, PutLinked, Zenon
    <3> QED BY <3>1 DEF HasPut
  <2>4. Touches(s, u, k, a)
    BY <1>0, <1>2, <2>3 DEF Touches
  <2> QED BY <2>3, <2>4, <1>1, <1>2 DEF u
<1>4. CASE k = a
  <2>1. u = [s EXCEPT !.entry[a] = bound]
    BY <1>0, <1>4 DEF BindIdentityByMAC
  <2> HIDE DEF k, bound, u
  <2>2. GoodStore(u)
    BY <1>2, <2>1, PutUnlinked
  <2> QED BY <2>2, <1>0, <1>1, <1>4 DEF u
<1> QED BY <1>1, <1>3, <1>4

(* SetStatus keeps the store in place.                                     *)
LEMMA SetStatusGood ==
  ASSUME NEW s, GoodStore(s), NEW m \in MACs \cup {NoMAC}, NEW a \in Addrs,
         NEW st \in Statuses
  PROVE  /\ GoodStore(SetStatusByMAC(s, m, a, st))
         /\ m \in MACs => /\ Touches(s, SetStatusByMAC(s, m, a, st), m, a)
                          /\ SetStatusByMAC(s, m, a, st).entry[m].id = EntryOr(s, m).id
<1> DEFINE k == KeyOf(s, m, a)
           new == [EntryOr(s, k) EXCEPT !.status = st, !.addr = a]
           u == SetStatusByMAC(s, m, a, st)
<1>0. s \in Stores /\ Agree(s) /\ a \notin MACs /\ NoMAC \notin MACs /\ NoEntry \notin Entries
  BY StoreAssumption DEF GoodStore
<1>1. k \in MACs \cup {a} /\ (m \in MACs => k = m)
  BY <1>0 DEF KeyOf, Stores
<1>2. new \in Entries /\ new.addr = a /\ new.id = EntryOr(s, k).id
  <2>1. EntryOr(s, k) \in Entries
    BY <1>0, <1>1, EntryOrType DEF Keys
  <2> QED BY <2>1 DEF Entries
<1>3. CASE k \in MACs
  <2> DEFINE l == Link(s, k, a)
  <2>1. u = [l EXCEPT !.entry[k] = new]
    BY <1>3 DEF SetStatusByMAC
  <2>2. LinkedTo(s, l, k, a)
    BY <1>0, <1>3, Linked, Zenon
  <2> HIDE DEF k, new, l, u
  <2>3. u = Put(l, k, a, s.entry[a], new)
    BY <1>0, <1>3, <2>1, <2>2 DEF LinkedTo, Stores, Keys, Put
  <2>4. /\ GoodStore(u)
        /\ u.entry[k] = new /\ u.entry[a] = s.entry[a]
        /\ \A x \in Keys \ {a, k} : u.entry[x] = s.entry[x]
    <3>1. HasPut(s, u, k, a, s.entry[a], new)
      BY <1>2, <1>3, <2>3, <2>2, PutLinked, Zenon
    <3> QED BY <3>1 DEF HasPut
  <2>5. Touches(s, u, k, a)
    BY <1>0, <1>2, <2>4 DEF Touches
  <2> QED BY <2>4, <2>5, <1>1, <1>2 DEF u
<1>4. CASE k = a
  <2>1. u = [s EXCEPT !.entry[a] = new]
    BY <1>0, <1>4 DEF SetStatusByMAC
  <2> HIDE DEF k, new, u
  <2>2. GoodStore(u)
    BY <1>2, <2>1, PutUnlinked
  <2> QED BY <2>2, <1>0, <1>1, <1>4 DEF u
<1> QED BY <1>1, <1>3, <1>4

(* SetIPForMAC keeps the store in place.                                   *)
LEMMA SetIPGood ==
  ASSUME NEW s, GoodStore(s), NEW m \in MACs, NEW a \in Addrs
  PROVE  GoodStore(SetIPForMAC(s, m, a))
<1> DEFINE l == Link(s, m, a)
           u == SetIPForMAC(s, m, a)
<1>0. s \in Stores /\ Agree(s) /\ a \notin MACs /\ a \in Keys /\ m \in Keys
  BY StoreAssumption DEF GoodStore, Keys
<1>1. LinkedTo(s, l, m, a)
  BY <1>0, Linked, Zenon
<1>2. CASE a \notin Allowed \/ s.byMAC[m] = a
  BY <1>2 DEF SetIPForMAC
<1>3. CASE ~(a \notin Allowed \/ s.byMAC[m] = a)
  <2> DEFINE moved == IF s.entry[m] = NoEntry THEN NoEntry ELSE [s.entry[m] EXCEPT !.addr = a]
  <2>1. u = Put(l, m, a, NoEntry, moved)
    BY <1>3 DEF SetIPForMAC, Put
  <2> HIDE DEF l, u
  <2>2. l \in Stores /\ l.entry = s.entry /\ Agree(l)
    BY <1>1 DEF LinkedTo
  <2>3. CASE s.entry[m] = NoEntry
    <3>0. u = Put(l, m, a, NoEntry, NoEntry)
      BY <2>1, <2>3
    <3>1. /\ u \in Stores /\ u.byMAC = l.byMAC /\ u.byIP = l.byIP /\ u.entry[m] = NoEntry
          /\ \A n \in MACs \ {m} : u.entry[n] = s.entry[n]
      BY <1>0, <3>0, <2>2, <2>3 DEF Stores, Keys, Put
    <3>2. Agree(u) /\ InPlaceFor(u, m)
      BY <2>2, <3>1 DEF Agree, InPlaceFor
    <3>3. \A n \in MACs \ {m} : u.entry[n] = s.entry[n] /\ u.byMAC[n] \in {s.byMAC[n], NoAddr}
      BY <1>1, <3>1 DEF LinkedTo
    <3>4. GoodStore(u)
      BY <1>0, <3>1, <3>2, <3>3, Replaced
    <3> QED BY <3>4 DEF u
  <2>4. CASE s.entry[m] # NoEntry
    <3> DEFINE new == [s.entry[m] EXCEPT !.addr = a]
    <3>1. new \in Entries /\ new.addr = a
      <4>1. s.entry[m] \in Entries
        BY <1>0, <2>4 DEF Stores
      <4> QED BY <4>1 DEF Entries
    <3>2. u = Put(l, m, a, NoEntry, new)
      BY <2>1, <2>4
    <3> HIDE DEF new
    <3>3. HasPut(s, u, m, a, NoEntry, new)
      BY <1>1, <3>1, <3>2, PutLinked, Zenon
    <3> QED BY <3>3 DEF HasPut, u
  <2> QED BY <2>3, <2>4
<1> QED BY <1>2, <1>3

(* One peer of a list keeps the store in place.                            *)
LEMMA UpdatePeerGood ==
  ASSUME NEW s, GoodStore(s), NEW p \in Peers
  PROVE  GoodStore(UpdatePeer(s, p))
<1> DEFINE m == p.mac
           a == EffectiveIP(s, p)
           new == [EntryOr(s, m) EXCEPT !.status = "online", !.addr = a, !.child = TRUE]
           u == UpdatePeer(s, p)
<1>0. s \in Stores /\ Agree(s) /\ m \in MACs /\ m \in Keys
  BY DEF GoodStore, Keys, Peers
<1>1. a \in Addrs \cup {NoAddr} /\ (a = NoAddr => s.byMAC[m] = NoAddr)
  <2>1. s.byMAC[m] \in Addrs \cup {NoAddr}
    BY <1>0 DEF Stores
  <2> QED BY <2>1, StoreAssumption DEF EffectiveIP
<1>2. new \in Entries /\ new.addr = a
  <2>1. EntryOr(s, m) \in Entries
    BY <1>0, EntryOrType
  <2> HIDE DEF a
  <2> QED BY <1>1, <2>1 DEF Entries, Statuses
<1>3. CASE a # NoAddr /\ a # s.byMAC[m]
  <2> DEFINE l == Link(s, m, a)
  <2>1. u = [l EXCEPT !.entry[m] = new]
    BY <1>3 DEF UpdatePeer
  <2>2. a \in Addrs /\ a \in Keys /\ a # m
    BY <1>0, <1>1, <1>3, StoreAssumption DEF Keys
  <2>3. LinkedTo(s, l, m, a)
    BY <1>0, <2>2, Linked, Zenon
  <2> HIDE DEF m, a, new, l, u
  <2>4. u = Put(l, m, a, s.entry[a], new)
    BY <1>0, <2>1, <2>2, <2>3 DEF LinkedTo, Stores, Put
  <2>5. HasPut(s, u, m, a, s.entry[a], new)
    BY <1>0, <1>2, <2>2, <2>3, <2>4, PutLinked, Zenon
  <2> QED BY <2>5 DEF HasPut, u
<1>4. CASE a = s.byMAC[m]
  <2>1. u = [s EXCEPT !.entry[m] = new]
    BY <1>4 DEF UpdatePeer
  <2> HIDE DEF m, a, new, u
  <2>2. /\ u \in Stores /\ u.byMAC = s.byMAC /\ u.byIP = s.byIP /\ u.entry[m] = new
        /\ \A n \in MACs \ {m} : u.entry[n] = s.entry[n]
    BY <1>0, <1>2, <2>1 DEF Stores, Keys
  <2>3. Agree(u) /\ InPlaceFor(u, m)
    BY <1>0, <1>2, <1>4, <2>2 DEF Agree, InPlaceFor
  <2>4. GoodStore(u)
    BY <1>0, <2>2, <2>3, Replaced
  <2> QED BY <2>4 DEF u
<1> QED BY <1>1, <1>3, <1>4

(* A list of at most one peer keeps the store in place.                    *)
LEMMA UpdatePeersGood ==
  ASSUME NEW s, GoodStore(s), NEW m \in MACs, NEW a \in Addrs, NEW ps \in Snapshots
  PROVE  GoodStore(UpdatePeers(Update(s, m, a), m, a, ps))
<1> DEFINE t == Update(s, m, a)
           l == Link(t, m, a)
<1>1. GoodStore(t) /\ t.byMAC[m] = a /\ t.entry[m].addr = a
  BY UpdateGood
<1> HIDE DEF t
<1>2. t \in Stores /\ Agree(t)
  BY <1>1 DEF GoodStore
<1>3. LinkedTo(t, l, m, a)
  BY <1>2, Linked, Zenon
<1> HIDE DEF l
<1>4. GoodStore(l)
  <2>1. Agree(l) /\ InPlaceFor(l, m) /\ l \in Stores
    BY <1>1, <1>3 DEF LinkedTo, InPlaceFor
  <2>2. \A n \in MACs \ {m} : l.entry[n] = t.entry[n] /\ l.byMAC[n] \in {t.byMAC[n], NoAddr}
    BY <1>3 DEF LinkedTo
  <2> QED BY <1>1, <1>2, <2>1, <2>2, Replaced
<1>5. CASE ps = <<>>
  BY <1>4, <1>5, NoPeers DEF t, l
<1>6. CASE \E p \in Peers : ps = <<p>>
  <2>1. PICK p \in Peers : ps = <<p>>
    BY <1>6
  <2>2. UpdatePeers(t, m, a, ps) = UpdatePeer(l, p)
    BY <2>1, OnePeer DEF l
  <2>3. GoodStore(UpdatePeer(l, p))
    BY <1>4, UpdatePeerGood
  <2> QED BY <2>2, <2>3 DEF t
<1> QED BY <1>5, <1>6 DEF Snapshots

(* RemoveByMAC keeps the store in place.                                   *)
LEMMA RemoveByMACGood ==
  ASSUME NEW s, GoodStore(s), NEW m \in MACs
  PROVE  /\ GoodStore(RemoveByMAC(s, m))
         /\ RemoveByMAC(s, m).entry = [s.entry EXCEPT ![m] = NoEntry]
<1> DEFINE u == RemoveByMAC(s, m)
<1>0. s \in Stores /\ Agree(s) /\ m \in Keys
  BY DEF GoodStore, Keys
<1>1. /\ u \in Stores
      /\ u.entry = [s.entry EXCEPT ![m] = NoEntry]
      /\ u.byMAC = [s.byMAC EXCEPT ![m] = NoAddr]
      /\ u.byIP = [a \in Addrs |-> IF a = s.byMAC[m] /\ s.byIP[a] = m THEN NoMAC ELSE s.byIP[a]]
  BY <1>0 DEF RemoveByMAC, Stores
<1> HIDE DEF u
<1>2. Agree(u)
  BY <1>0, <1>1, StoreAssumption DEF Agree, Stores
<1>3. /\ InPlaceFor(u, m)
      /\ \A n \in MACs \ {m} : u.entry[n] = s.entry[n] /\ u.byMAC[n] = s.byMAC[n]
  BY <1>0, <1>1 DEF InPlaceFor, Stores, Keys
<1>4. GoodStore(u)
  BY <1>0, <1>1, <1>2, <1>3, Replaced
<1> QED BY <1>1, <1>4 DEF u

(* RemoveByIP keeps the store in place.                                    *)
LEMMA RemoveByIPGood ==
  ASSUME NEW s, GoodStore(s), NEW a \in Addrs
  PROVE  GoodStore(RemoveByIP(s, a))
<1> DEFINE m == s.byIP[a]
           u == RemoveByIP(s, a)
<1>0. s \in Stores /\ Agree(s) /\ m \in MACs \cup {NoMAC} /\ NoMAC \notin MACs
  BY StoreAssumption DEF GoodStore, Stores
<1>1. CASE m = NoMAC
  <2>1. u = [s EXCEPT !.entry[a] = NoEntry]
    BY <1>1 DEF RemoveByIP
  <2> QED BY <2>1, PutUnlinked
<1>2. CASE m \in MACs
  <2>1. /\ u \in Stores
        /\ u.entry = [s.entry EXCEPT ![m] = NoEntry]
        /\ u.byMAC = [s.byMAC EXCEPT ![m] = IF @ = a THEN NoAddr ELSE @]
        /\ u.byIP = [s.byIP EXCEPT ![a] = NoMAC]
    BY <1>0, <1>2 DEF RemoveByIP, Stores, Keys
  <2>2. s.byMAC[m] = a
    BY <1>0, <1>2 DEF Agree
  <2> HIDE DEF u, m
  <2>3. Agree(u)
    BY <1>0, <1>2, <2>1, <2>2, StoreAssumption DEF Agree, Stores
  <2>4. /\ InPlaceFor(u, m)
        /\ \A n \in MACs \ {m} : u.entry[n] = s.entry[n] /\ u.byMAC[n] = s.byMAC[n]
    BY <1>0, <1>2, <2>1 DEF InPlaceFor, Stores, Keys
  <2>5. GoodStore(u)
    BY <1>0, <1>2, <2>1, <2>3, <2>4, Replaced
  <2> QED BY <2>5 DEF u
<1> QED BY <1>0, <1>1, <1>2

(* CleanStale clears the address in the entry, which is the one the MAC is *)
(* at.                                                                     *)
LEMMA DroppedGood ==
  ASSUME NEW s, GoodStore(s), NEW m \in MACs, s.entry[m] # NoEntry
  PROVE  GoodStore(Dropped(s, m))
<1> DEFINE u == Dropped(s, m)
<1>0. s \in Stores /\ Agree(s) /\ m \in Keys /\ InPlaceFor(s, m)
  BY DEF GoodStore, Keys
<1>1. /\ u \in Stores
      /\ u.entry = [s.entry EXCEPT ![m] = NoEntry]
      /\ u.byMAC = [s.byMAC EXCEPT ![m] = NoAddr]
      /\ u.byIP = [a \in Addrs |-> IF a = s.entry[m].addr /\ s.byIP[a] = m THEN NoMAC ELSE s.byIP[a]]
  BY <1>0 DEF Dropped, Stores
<1> HIDE DEF u
<1>2. \A a \in Addrs : s.byIP[a] = m => a = s.entry[m].addr
  BY <1>0, StoreAssumption DEF Agree, InPlaceFor
<1>3. Agree(u)
  BY <1>0, <1>1, <1>2, StoreAssumption DEF Agree, Stores
<1>4. /\ InPlaceFor(u, m)
      /\ \A n \in MACs \ {m} : u.entry[n] = s.entry[n] /\ u.byMAC[n] = s.byMAC[n]
  BY <1>0, <1>1 DEF InPlaceFor, Stores, Keys
<1>5. GoodStore(u)
  BY <1>0, <1>1, <1>3, <1>4, Replaced
<1> QED BY <1>5 DEF u

-----------------------------------------------------------------------------
(* The store under any sequence of calls.                                  *)
LEMMA StoreStep ==
  ASSUME GoodStore(store), StoreNext
  PROVE  GoodStore(store')
<1>1. ASSUME NEW m \in MACs \cup {NoMAC}, NEW a \in Addrs, CallUpdate(m, a)
      PROVE GoodStore(store')
  BY <1>1, UpdateGood DEF CallUpdate
<1>2. ASSUME NEW m \in MACs \cup {NoMAC}, NEW a \in Addrs,
             CallBind(m, a, CHOOSE id \in Ids : TRUE)
      PROVE GoodStore(store')
  <2>1. (CHOOSE id \in Ids : TRUE) \in Ids
    BY StoreAssumption
  <2> QED BY <1>2, <2>1, BindGood DEF CallBind
<1>3. ASSUME NEW m \in MACs \cup {NoMAC}, NEW a \in Addrs, CallSetStatus(m, a, "offline")
      PROVE GoodStore(store')
  BY <1>3, SetStatusGood DEF CallSetStatus, Statuses
<1>4. ASSUME NEW m \in MACs, NEW a \in Addrs, CallSetIP(m, a) PROVE GoodStore(store')
  BY <1>4, SetIPGood DEF CallSetIP
<1>5. ASSUME NEW m \in MACs, NEW a \in Addrs, NEW ps \in Snapshots, CallUpdatePeers(m, a, ps)
      PROVE GoodStore(store')
  BY <1>5, UpdatePeersGood DEF CallUpdatePeers
<1>6. ASSUME NEW m \in MACs, CallRemoveByMAC(m) PROVE GoodStore(store')
  BY <1>6, RemoveByMACGood DEF CallRemoveByMAC
<1>7. ASSUME NEW m \in MACs, CleanStale(m) PROVE GoodStore(store')
  BY <1>7, DroppedGood DEF CleanStale
<1>8. ASSUME NEW a \in Addrs, CallRemove(a) PROVE GoodStore(store')
  BY <1>8, RemoveByIPGood DEF CallRemove
<1> QED BY <1>1, <1>2, <1>3, <1>4, <1>5, <1>6, <1>7, <1>8 DEF StoreNext

-----------------------------------------------------------------------------
(* The identity of devices, action by action.                              *)

(* The invariant holds of an empty store.                                  *)
LEMMA IdentityStarts ==
  ASSUME IdentityInit
  PROVE  IdentityInv
<1>1. /\ store = NewStore /\ radioAt \in [Sites -> MACs]
      /\ job = [w \in Pollers |-> NoJob] /\ origin = [m \in MACs |-> NoMAC]
  BY DEF IdentityInit, StoreInit
<1>2. GoodStore(store) /\ NoPlaceholder /\ NoGhost
  <2>1. /\ NewStore \in Stores /\ \A k \in Keys : NewStore.entry[k] = NoEntry
        /\ \A m \in MACs : NewStore.byMAC[m] = NoAddr
        /\ \A a \in Addrs : NewStore.byIP[a] = NoMAC
    BY DEF NewStore, Stores
  <2>2. Agree(store) /\ \A m \in MACs : InPlaceFor(store, m)
    BY <1>1, <2>1, StoreAssumption DEF Agree, InPlaceFor, Keys
  <2> QED BY <1>1, <2>1, <2>2 DEF GoodStore, NoPlaceholder, NoGhost, Keys
<1>3. rows \in [Ids -> [mac : MACs, addr : Sites] \cup {NoRow}]
  <2>1. CASE rows = [k \in Ids |-> NoRow]
    BY <2>1
  <2>2. CASE \E id \in Ids, a \in Sites : rows =
               [k \in Ids |-> IF k = id THEN [mac |-> radioAt[a], addr |-> a] ELSE NoRow]
    BY <1>1, <2>2
  <2>3. (CHOOSE k \in Ids : TRUE) \in Ids /\ (CHOOSE x \in Sites : TRUE) \in Sites
    BY StoreAssumption, IdentityAssumption
  <2> QED BY <2>1, <2>2, <2>3 DEF IdentityInit
<1>4. IdentityTypes
  BY <1>1, <1>3 DEF IdentityTypes
<1>5. ToldOwn /\ RowsHeld /\ StatsBelong
  BY <1>1 DEF ToldOwn, RowsHeld, StatsBelong
<1> QED BY <1>2, <1>4, <1>5 DEF IdentityInv

(* A step of a poll that leaves the inventory alone.                       *)
LEMMA JobMoves ==
  ASSUME IdentityTypes, ToldOwn, RowsHeld, NEW w \in Pollers, job[w] # NoJob, NEW new,
         new = NoJob \/ (/\ new \in JobType /\ new.id = job[w].id /\ new.mac = job[w].mac
                         /\ TellsOwn(new)),
         job' = [job EXCEPT ![w] = new], UNCHANGED <<rows, overlapped>>
  PROVE  job' \in [Pollers -> JobType \cup {NoJob}] /\ ToldOwn' /\ RowsHeld'
<1>1. job \in [Pollers -> JobType \cup {NoJob}]
  BY DEF IdentityTypes
<1>2. job' \in [Pollers -> JobType \cup {NoJob}]
  BY <1>1
<1>3. job'[w] = new /\ \A v \in Pollers \ {w} : job'[v] = job[v]
  BY <1>1
<1>4. ToldOwn'
  BY <1>3 DEF ToldOwn, TellsOwn
<1>5. RowsHeld'
  BY <1>3 DEF RowsHeld
<1> QED BY <1>2, <1>4, <1>5

(* A call for the MAC of a poll leaves entries of rows that are there.     *)
LEMMA GhostsKept ==
  ASSUME NEW m \in MACs, NEW a \in Addrs, Touches(store, store', m, a),
         NoPlaceholder, NoGhost, UNCHANGED <<rows, removing, overlapped>>,
         \/ store'.entry[m].id = 0
         \/ store.entry[m] # NoEntry /\ store'.entry[m].id = store.entry[m].id
         \/ ~overlapped => /\ rows[store'.entry[m].id] # NoRow
                           /\ rows[store'.entry[m].id].mac = m
  PROVE  NoPlaceholder' /\ NoGhost'
<1>1. \A k \in Keys \ {m} : store'.entry[k] \in {store.entry[k], NoEntry}
  BY DEF Touches
<1>2. m \notin Addrs /\ MACs \subseteq Keys /\ Addrs \subseteq Keys
  BY StoreAssumption DEF Keys
<1>3. NoPlaceholder'
  BY <1>1, <1>2 DEF NoPlaceholder
<1>4. NoGhost'
  BY <1>1, <1>2 DEF NoGhost
<1> QED BY <1>3, <1>4

IdentityHeld ==
    GoodStore(store) /\ IdentityTypes /\ ToldOwn /\ RowsHeld /\ StatsBelong
      /\ NoPlaceholder /\ NoGhost

(* What the MACs a poll was told come to.                                  *)
FoundBy(mac, radio, answer) ==
    IF radio \in Airmax THEN canonicalizeDeviceMACPreferred(mac, answer.own, answer.others)
    ELSE canonicalizeDeviceMAC(mac, {answer.own} \ {NoMAC})

SoundFinding(found, mac, radio, answer) ==
    /\ answer.own \in {radio, NoMAC}
    /\ found.observed \subseteq MACs /\ found.canonical = mac
    /\ ~found.mismatch => (answer.own # NoMAC => radio = mac)

(* What a poll makes of an answer is so of the radio that gave it.         *)
LEMMA AnswerTells ==
  ASSUME NEW mac \in MACs, NEW radio \in MACs, NEW answer \in Answers(radio)
  PROVE  SoundFinding(FoundBy(mac, radio, answer), mac, radio, answer)
<1> DEFINE found == FoundBy(mac, radio, answer)
<1> SUFFICES
         /\ answer.own \in {radio, NoMAC}
         /\ found.observed \subseteq MACs /\ found.canonical = mac
         /\ ~found.mismatch => (answer.own # NoMAC => radio = mac)
  BY DEF SoundFinding
<1>1. answer.own \in {radio, NoMAC} /\ answer.others \subseteq MACs
  BY DEF Answers
<1>2. NoMAC \notin MACs
  BY StoreAssumption
<1>3. CASE radio \in Airmax
  <2> DEFINE seen == ({answer.own} \cup answer.others) \ {NoMAC}
  <2>1. seen \subseteq MACs
    BY <1>1
  <2>2. CASE answer.own = NoMAC
    <3>1. found = canonicalizeDeviceMAC(mac, seen)
      BY <1>3, <2>2 DEF canonicalizeDeviceMACPreferred, FoundBy
    <3> HIDE DEF seen, found
    <3>2. found.observed = seen /\ found.canonical = mac
      BY <3>1 DEF canonicalizeDeviceMAC
    <3> QED BY <1>1, <2>1, <2>2, <3>2
  <2>3. CASE answer.own # NoMAC
    <3>1. found = [observed |-> seen, mismatch |-> answer.own # mac, canonical |-> mac]
      BY <1>3, <2>3 DEF canonicalizeDeviceMACPreferred, FoundBy
    <3> HIDE DEF seen, found
    <3>2. found.observed = seen /\ found.canonical = mac /\ (~found.mismatch => answer.own = mac)
      <4>1. found.observed = seen /\ found.canonical = mac
        BY <3>1
      <4>2. found.mismatch = (answer.own # mac)
        BY <3>1
      <4>3. ~found.mismatch => answer.own = mac
        BY <4>2, Zenon
      <4> QED BY <4>1, <4>3
    <3> QED BY <1>1, <2>1, <2>3, <3>2
  <2> QED BY <2>2, <2>3
<1>4. CASE radio \notin Airmax
  <2> DEFINE seen == {answer.own} \ {NoMAC}
  <2>1. seen \subseteq MACs
    BY <1>1
  <2>2. found = [observed |-> seen, mismatch |-> seen # {} /\ mac \notin seen, canonical |-> mac]
    BY <1>4 DEF canonicalizeDeviceMAC, FoundBy
  <2>3. found.observed = seen /\ found.canonical = mac
        /\ (~found.mismatch => seen = {} \/ mac \in seen)
    <3> HIDE DEF seen, found
    <3>1. found.observed = seen /\ found.canonical = mac
      BY <2>2
    <3>2. found.mismatch = (seen # {} /\ mac \notin seen)
      BY <2>2
    <3>3. ~found.mismatch => seen = {} \/ mac \in seen
      BY <3>2, Zenon
    <3> QED BY <3>1, <3>3
  <2>4. answer.own # NoMAC /\ (seen = {} \/ mac \in seen) => answer.own = mac
    OBVIOUS
  <2> HIDE DEF seen, found
  <2> QED BY <1>1, <2>1, <2>3, <2>4
<1> QED BY <1>3, <1>4

(* A poll keeps the invariant at each of its stages.                       *)
LEMMA PollStepHolds ==
  ASSUME IdentityHeld, NEW w \in Pollers, PollStep(w)
  PROVE  IdentityHeld'
<1> DEFINE j == job[w]
<1>0. /\ GoodStore(store) /\ IdentityTypes /\ ToldOwn /\ RowsHeld /\ StatsBelong
      /\ NoPlaceholder /\ NoGhost
  BY DEF IdentityHeld
<1>a. Sites \subseteq Addrs /\ MACs \cap Addrs = {} /\ NoMAC \notin MACs
  BY StoreAssumption, IdentityAssumption
<1>b. ASSUME j # NoJob
      PROVE  /\ j \in JobType /\ j.mac \in MACs /\ j.addr \in Sites /\ j.addr \in Addrs
             /\ j.id \in Ids /\ TellsOwn(j)
  BY <1>b, <1>0, <1>a DEF IdentityTypes, JobType, ToldOwn
<1>c. ASSUME j # NoJob
      PROVE  \/ EntryOr(store, j.mac).id = 0
             \/ store.entry[j.mac] # NoEntry /\ EntryOr(store, j.mac).id = store.entry[j.mac].id
  BY DEF EntryOr, Blank
<1>d. ASSUME j # NoJob, NEW pc \in Stages, pc \notin {"store", "info"}, Goto(w, pc),
             UNCHANGED <<rows, overlapped>>
      PROVE  job' \in [Pollers -> JobType \cup {NoJob}] /\ ToldOwn' /\ RowsHeld'
  <2> DEFINE new == [j EXCEPT !.pc = pc]
  <2>1. job' = [job EXCEPT ![w] = new]
    BY <1>0, <1>d DEF Goto
  <2>2. new \in JobType /\ new.id = j.id /\ new.mac = j.mac /\ new.pc = pc
    BY <1>b, <1>d DEF JobType
  <2>3. TellsOwn(new)
    BY <2>2, <1>d DEF TellsOwn
  <2> HIDE DEF new
  <2> QED BY <1>0, <1>d, <2>1, <2>2, <2>3, JobMoves
<1>e. ASSUME j # NoJob, Done(w), UNCHANGED <<rows, overlapped>>
      PROVE  job' \in [Pollers -> JobType \cup {NoJob}] /\ ToldOwn' /\ RowsHeld'
  BY <1>0, <1>e, JobMoves DEF Done
<1>f. ASSUME UNCHANGED <<rows, radioAt, origin>>, job' \in [Pollers -> JobType \cup {NoJob}]
      PROVE  IdentityTypes' /\ StatsBelong'
  BY <1>0, <1>f DEF IdentityTypes, StatsBelong
<1>1. CASE BindIdentity(w)
  <2>1. j # NoJob /\ Goto(w, "probe") /\ UNCHANGED <<rows, radioAt, removing, overlapped, origin>>
        /\ store' = BindIdentityByMAC(store, j.mac, j.addr, j.id)
    BY <1>1 DEF BindIdentity, At, OnlyStore
  <2>2. /\ GoodStore(store') /\ Touches(store, store', j.mac, j.addr)
        /\ store'.entry[j.mac].id = j.id
    BY <1>0, <1>b, <2>1, BindGood
  <2>3. job' \in [Pollers -> JobType \cup {NoJob}] /\ ToldOwn' /\ RowsHeld'
    BY <1>d, <2>1 DEF Stages
  <2>4. ~overlapped => rows[j.id] # NoRow /\ rows[j.id].mac = j.mac
    BY <1>0, <2>1 DEF RowsHeld
  <2>5. NoPlaceholder' /\ NoGhost'
    BY <1>0, <1>b, <2>1, <2>2, <2>4, GhostsKept
  <2> QED BY <1>f, <2>1, <2>2, <2>3, <2>5 DEF IdentityHeld
<1>2. CASE NoAnswer(w)
  <2>1. j # NoJob /\ Done(w) /\ UNCHANGED <<rows, radioAt, removing, overlapped, origin>>
        /\ store' = SetStatusByMAC(store, j.mac, j.addr, "offline")
    BY <1>2 DEF NoAnswer, At, OnlyStore
  <2>2. /\ GoodStore(store') /\ Touches(store, store', j.mac, j.addr)
        /\ store'.entry[j.mac].id = EntryOr(store, j.mac).id
    BY <1>0, <1>b, <2>1, SetStatusGood DEF Statuses
  <2>3. NoPlaceholder' /\ NoGhost'
    BY <1>0, <1>b, <1>c, <2>1, <2>2, GhostsKept
  <2> QED BY <1>e, <1>f, <2>1, <2>2, <2>3 DEF IdentityHeld
<1>3. CASE \E a \in UNION {Answers(m) : m \in MACs} : Answer(w, a)
  <2>1. PICK answer : Answer(w, answer)
    BY <1>3
  <2> DEFINE radio == radioAt[j.addr]
             found == FoundBy(j.mac, radio, answer)
             new == IF found.mismatch
                    THEN [j EXCEPT !.pc = "mismatch", !.own = answer.own, !.observed = found.observed]
                    ELSE [j EXCEPT !.pc = "store", !.own = answer.own, !.canonical = found.canonical,
                                   !.radio = radio]
  <2>2. /\ j # NoJob /\ radio # NoMAC /\ answer \in Answers(radio)
        /\ job' = [job EXCEPT ![w] = new]
        /\ UNCHANGED <<store, rows, radioAt, removing, overlapped, origin>>
    BY <2>1 DEF Answer, At, FoundBy
  <2>3. radio \in MACs
    BY <1>0, <1>b, <2>2 DEF IdentityTypes
  <2>4. /\ answer.own \in {radio, NoMAC}
        /\ found.observed \subseteq MACs /\ found.canonical = j.mac
        /\ ~found.mismatch => (answer.own # NoMAC => radio = j.mac)
    <3>1. SoundFinding(found, j.mac, radio, answer)
      BY <1>b, <2>2, <2>3, AnswerTells, Zenon
    <3> HIDE DEF found, radio
    <3> QED BY <3>1 DEF SoundFinding
  <2> HIDE DEF found, radio
  <2>5. /\ new \in JobType /\ new.id = j.id /\ new.mac = j.mac
        /\ new.pc # "info"
        /\ new.pc = "store" => /\ ~found.mismatch /\ new.canonical = found.canonical
                               /\ new.own = answer.own /\ new.radio = radio
    <3>1. CASE found.mismatch
      BY <1>b, <2>2, <2>3, <2>4, <3>1 DEF JobType, Stages
    <3>2. CASE ~found.mismatch
      BY <1>b, <2>2, <2>3, <2>4, <3>2 DEF JobType, Stages
    <3> QED BY <3>1, <3>2
  <2> HIDE DEF new
  <2>6. TellsOwn(new)
    BY <2>4, <2>5 DEF TellsOwn
  <2>7. job' \in [Pollers -> JobType \cup {NoJob}] /\ ToldOwn' /\ RowsHeld'
    BY <1>0, <2>2, <2>5, <2>6, JobMoves
  <2>8. NoPlaceholder' /\ NoGhost' /\ GoodStore(store')
    BY <1>0, <2>2 DEF NoPlaceholder, NoGhost
  <2> QED BY <1>f, <2>2, <2>7, <2>8 DEF IdentityHeld
<1>4. CASE MarkMismatch(w)
  <2>1. j # NoJob /\ Goto(w, "persist") /\ UNCHANGED <<rows, radioAt, removing, overlapped, origin>>
        /\ store' = SetStatusByMAC(store, j.mac, j.addr, "unknown")
    BY <1>4 DEF MarkMismatch, At, OnlyStore
  <2>2. /\ GoodStore(store') /\ Touches(store, store', j.mac, j.addr)
        /\ store'.entry[j.mac].id = EntryOr(store, j.mac).id
    BY <1>0, <1>b, <2>1, SetStatusGood DEF Statuses
  <2>3. NoPlaceholder' /\ NoGhost'
    BY <1>0, <1>b, <1>c, <2>1, <2>2, GhostsKept
  <2>4. job' \in [Pollers -> JobType \cup {NoJob}] /\ ToldOwn' /\ RowsHeld'
    BY <1>d, <2>1 DEF Stages
  <2> QED BY <1>f, <2>1, <2>2, <2>3, <2>4 DEF IdentityHeld
<1>5. CASE persistIdentityMismatch(w) \/ clearIdentityMismatch(w)
  <2>1. j # NoJob /\ Done(w) /\ UNCHANGED <<store, rows, radioAt, removing, overlapped, origin>>
    BY <1>5 DEF persistIdentityMismatch, clearIdentityMismatch, At
  <2>2. NoPlaceholder' /\ NoGhost' /\ GoodStore(store')
    BY <1>0, <2>1 DEF NoPlaceholder, NoGhost
  <2> QED BY <1>e, <1>f, <2>1, <2>2 DEF IdentityHeld
<1>6. CASE StoreAnswer(w)
  <2>1. /\ j # NoJob /\ j.pc = "store"
        /\ store' = Update(store, j.canonical, j.addr)
        /\ origin' = IF j.own = NoMAC THEN origin ELSE [origin EXCEPT ![j.canonical] = j.radio]
        /\ UNCHANGED <<rows, radioAt, removing, overlapped>>
    BY <1>6 DEF StoreAnswer, At, OnlyStore
  <2>2. j.canonical = j.mac /\ (j.own # NoMAC => j.radio = j.mac)
    BY <1>b, <2>1 DEF TellsOwn
  <2>3. /\ GoodStore(store') /\ Touches(store, store', j.mac, j.addr)
        /\ store'.entry[j.mac].id = Previous(store, j.mac, j.addr).id
    BY <1>0, <1>b, <2>1, <2>2, UpdateGood
  <2>4. \/ Previous(store, j.mac, j.addr).id = 0
        \/ /\ store.entry[j.mac] # NoEntry
           /\ Previous(store, j.mac, j.addr).id = store.entry[j.mac].id
    BY <1>0, <1>a, <1>b, <2>1 DEF Previous, EntryOr, Blank, NoPlaceholder
  <2>5. NoPlaceholder' /\ NoGhost'
    BY <1>0, <1>b, <2>1, <2>3, <2>4, GhostsKept
  <2>6. StatsBelong' /\ origin' \in [MACs -> MACs \cup {NoMAC}]
    BY <1>0, <1>b, <2>1, <2>2 DEF StatsBelong, IdentityTypes
  <2>7. job' \in [Pollers -> JobType \cup {NoJob}] /\ ToldOwn' /\ RowsHeld'
    <3>1. CASE \E pc \in {"info", "clear"} : job' = [job EXCEPT ![w].pc = pc, ![w].became = TRUE]
      <4>1. PICK pc \in {"info", "clear"} : job' = [job EXCEPT ![w].pc = pc, ![w].became = TRUE]
        BY <3>1
      <4> DEFINE new == [j EXCEPT !.pc = pc, !.became = TRUE]
      <4>2. job' = [job EXCEPT ![w] = new]
        BY <4>1, <1>0 DEF IdentityTypes
      <4>3. new \in JobType /\ new.id = j.id /\ new.mac = j.mac /\ new.pc # "store"
            /\ new.canonical = j.canonical
        BY <1>b, <2>1, <4>1 DEF JobType, Stages
      <4> HIDE DEF new
      <4>4. TellsOwn(new)
        BY <2>2, <4>3 DEF TellsOwn
      <4> QED BY <1>0, <2>1, <4>2, <4>3, <4>4, JobMoves
    <3>2. CASE Goto(w, "info")
      <4> DEFINE new == [j EXCEPT !.pc = "info"]
      <4>1. job' = [job EXCEPT ![w] = new]
        BY <1>0, <3>2 DEF Goto
      <4>2. new \in JobType /\ new.id = j.id /\ new.mac = j.mac /\ new.pc # "store"
            /\ new.canonical = j.canonical
        BY <1>b, <2>1 DEF JobType, Stages
      <4> HIDE DEF new
      <4>3. TellsOwn(new)
        BY <2>2, <4>2 DEF TellsOwn
      <4> QED BY <1>0, <2>1, <4>1, <4>2, <4>3, JobMoves
    <3>3. CASE Done(w)
      BY <1>e, <2>1, <3>3
    <3> QED BY <1>6, <3>1, <3>2, <3>3 DEF StoreAnswer
  <2>8. IdentityTypes'
    BY <1>0, <2>1, <2>6, <2>7 DEF IdentityTypes
  <2> QED BY <2>3, <2>5, <2>6, <2>7, <2>8 DEF IdentityHeld
<1>7. CASE updateAirMAXDeviceInfo(w)
  <2>1. /\ j # NoJob /\ j.pc = "info"
        /\ rows' = [rows EXCEPT ![j.id] =
              IF @ = NoRow \/ Taken(j.canonical, j.id) THEN @ ELSE [@ EXCEPT !.mac = j.canonical]]
        /\ UNCHANGED <<store, radioAt, removing, overlapped, origin>>
        /\ Goto(w, "clear") \/ Done(w)
    BY <1>7 DEF updateAirMAXDeviceInfo, At
  <2>2. j.canonical = j.mac
    BY <1>b, <2>1 DEF TellsOwn
  <2>3. rows' \in [Ids -> [mac : MACs, addr : Sites] \cup {NoRow}]
    <3>1. rows \in [Ids -> [mac : MACs, addr : Sites] \cup {NoRow}]
      BY <1>0 DEF IdentityTypes
    <3> QED BY <1>b, <2>1, <2>2, <3>1
  <2>4. ~overlapped => rows' = rows
    <3>1. rows \in [Ids -> [mac : MACs, addr : Sites] \cup {NoRow}]
      BY <1>0 DEF IdentityTypes
    <3>2. ~overlapped => rows[j.id] # NoRow /\ rows[j.id].mac = j.mac
      BY <1>0, <2>1 DEF RowsHeld
    <3> QED BY <1>b, <2>1, <2>2, <3>1, <3>2
  <2>5. /\ job' \in [Pollers -> JobType \cup {NoJob}] /\ ToldOwn'
        /\ \A v \in Pollers : job'[v] = NoJob \/ job'[v] = job[v]
                              \/ (job[v] # NoJob /\ job'[v].id = job[v].id /\ job'[v].mac = job[v].mac)
    <3>1. job \in [Pollers -> JobType \cup {NoJob}]
      BY <1>0 DEF IdentityTypes
    <3>2. CASE Goto(w, "clear")
      <4> DEFINE new == [j EXCEPT !.pc = "clear"]
      <4>1. job' = [job EXCEPT ![w] = new]
        BY <3>1, <3>2 DEF Goto
      <4>2. new \in JobType /\ new.id = j.id /\ new.mac = j.mac /\ new.pc = "clear"
        BY <1>b, <2>1 DEF JobType, Stages
      <4> HIDE DEF new
      <4>3. job'[w] = new /\ \A v \in Pollers \ {w} : job'[v] = job[v]
        BY <3>1, <4>1
      <4> QED BY <1>0, <2>1, <3>1, <4>1, <4>2, <4>3 DEF ToldOwn, TellsOwn
    <3>3. CASE Done(w)
      <4>1. job' = [job EXCEPT ![w] = NoJob]
        BY <3>3 DEF Done
      <4>2. job'[w] = NoJob /\ \A v \in Pollers \ {w} : job'[v] = job[v]
        BY <3>1, <4>1
      <4> QED BY <1>0, <3>1, <4>1, <4>2 DEF ToldOwn
    <3> QED BY <2>1, <3>2, <3>3
  <2>6. RowsHeld' /\ NoGhost'
    <3>1. CASE overlapped
      BY <2>1, <3>1 DEF RowsHeld, NoGhost
    <3>2. CASE ~overlapped
      <4>1. RowsHeld'
        BY <1>0, <2>4, <2>5, <3>2 DEF RowsHeld
      <4>2. NoGhost'
        BY <1>0, <2>1, <2>4, <3>2 DEF NoGhost
      <4> QED BY <4>1, <4>2
    <3> QED BY <3>1, <3>2
  <2>7. IdentityTypes' /\ StatsBelong' /\ NoPlaceholder' /\ GoodStore(store')
    BY <1>0, <2>1, <2>3, <2>5 DEF IdentityTypes, StatsBelong, NoPlaceholder
  <2> QED BY <2>5, <2>6, <2>7 DEF IdentityHeld
<1> QED BY <1>1, <1>2, <1>3, <1>4, <1>5, <1>6, <1>7 DEF PollStep

(* A request that changes a row while no poll has it, or while one does    *)
(* and the overlap is noted.                                               *)
LEMMA RowChanges ==
  ASSUME IdentityHeld, NEW id \in Ids, NEW m \in MACs, Touch(id, m),
         NEW r \in [mac : MACs, addr : Sites] \cup {NoRow},
         rows' = [rows EXCEPT ![id] = r], UNCHANGED <<store, radioAt, job, origin>>,
         removing \subseteq removing',
         rows[id] # NoRow => \/ r # NoRow /\ r.mac = rows[id].mac
                             \/ rows[id].mac \in removing'
  PROVE  IdentityHeld'
<1>0. /\ GoodStore(store) /\ IdentityTypes /\ ToldOwn /\ RowsHeld /\ StatsBelong
      /\ NoPlaceholder /\ NoGhost
  BY DEF IdentityHeld
<1>1. ~overlapped' => ~overlapped /\ ~Busy(id, m)
  BY Zenon DEF Touch
<1>2. rows \in [Ids -> [mac : MACs, addr : Sites] \cup {NoRow}]
  BY <1>0 DEF IdentityTypes
<1>3. rows'[id] = r /\ \A k \in Ids \ {id} : rows'[k] = rows[k]
  BY <1>2
<1>4. ~overlapped' => \A w \in Pollers : job[w] # NoJob => job[w].id \in Ids \ {id}
  BY <1>0, <1>1 DEF Busy, IdentityTypes, JobType
<1>5. RowsHeld'
  BY <1>0, <1>1, <1>3, <1>4 DEF RowsHeld
<1>6. \A n \in MACs : store.entry[n] # NoEntry => store.entry[n].id \in {0} \cup Ids
  BY <1>0 DEF GoodStore, Stores, Keys, Entries
<1>7. NoGhost'
  <2> SUFFICES ASSUME NEW n \in MACs, n \notin removing', store.entry[n] # NoEntry,
                      store.entry[n].id # 0, ~overlapped'
               PROVE  rows'[store.entry[n].id] # NoRow /\ rows'[store.entry[n].id].mac = n
    BY DEF NoGhost
  <2>1. rows[store.entry[n].id] # NoRow /\ rows[store.entry[n].id].mac = n
    BY <1>0, <1>1 DEF NoGhost
  <2> QED BY <1>3, <1>6, <2>1
<1>8. IdentityTypes' /\ ToldOwn' /\ StatsBelong' /\ NoPlaceholder' /\ GoodStore(store')
  <2>1. IdentityTypes'
    BY <1>0, <1>2 DEF IdentityTypes
  <2>2. ToldOwn' /\ StatsBelong' /\ NoPlaceholder' /\ GoodStore(store')
    BY <1>0 DEF ToldOwn, StatsBelong, NoPlaceholder
  <2> QED BY <2>1, <2>2
<1> QED BY <1>5, <1>7, <1>8 DEF IdentityHeld

(* Every step keeps the invariant of devices and store.                    *)
LEMMA IdentityStep ==
  ASSUME IdentityHeld, IdentityNext
  PROVE  IdentityHeld'
<1>0. /\ GoodStore(store) /\ IdentityTypes /\ ToldOwn /\ RowsHeld /\ StatsBelong
      /\ NoPlaceholder /\ NoGhost
  BY DEF IdentityHeld
<1>a. rows \in [Ids -> [mac : MACs, addr : Sites] \cup {NoRow}]
  BY <1>0 DEF IdentityTypes
<1>1. ASSUME NEW w \in Pollers, NEW id \in Ids, QueuePoll(w, id) PROVE IdentityHeld'
  <2> DEFINE new == SnapshotRow(id)
  <2>1. /\ job' = [job EXCEPT ![w] = new] /\ rows[id] # NoRow /\ Touch(id, rows[id].mac)
        /\ UNCHANGED <<store, rows, radioAt, removing, origin>>
    BY <1>1 DEF QueuePoll
  <2>2. ~overlapped' => ~overlapped
    BY <2>1, Zenon DEF Touch
  <2>3. new \in JobType /\ new.id = id /\ new.mac = rows[id].mac /\ new.pc = "queued"
    <3>1. rows[id].mac \in MACs /\ rows[id].addr \in Sites
      BY <1>a, <2>1
    <3> QED BY <3>1 DEF SnapshotRow, JobType, Stages
  <2> HIDE DEF new
  <2>4. job \in [Pollers -> JobType \cup {NoJob}]
    BY <1>0 DEF IdentityTypes
  <2>5. /\ job' \in [Pollers -> JobType \cup {NoJob}]
        /\ job'[w] = new /\ \A v \in Pollers \ {w} : job'[v] = job[v]
    BY <2>1, <2>3, <2>4
  <2>6. TellsOwn(new)
    BY <2>3 DEF TellsOwn
  <2>7. ToldOwn'
    BY <1>0, <2>5, <2>6 DEF ToldOwn, TellsOwn
  <2>8. RowsHeld'
    BY <1>0, <2>1, <2>2, <2>3, <2>5 DEF RowsHeld
  <2>9. NoGhost'
    BY <1>0, <2>1, <2>2 DEF NoGhost
  <2>10. IdentityTypes' /\ StatsBelong' /\ NoPlaceholder' /\ GoodStore(store')
    BY <1>0, <2>1, <2>5 DEF IdentityTypes, StatsBelong, NoPlaceholder
  <2> QED BY <2>7, <2>8, <2>9, <2>10 DEF IdentityHeld
<1>2. ASSUME NEW a \in Sites, NEW m \in MACs \cup {NoMAC}, Mount(a, m) PROVE IdentityHeld'
  <2>1. radioAt' = [radioAt EXCEPT ![a] = m] /\ UNCHANGED <<store, rows, job, removing, overlapped, origin>>
    BY <1>2 DEF Mount
  <2>2. IdentityTypes'
    BY <1>0, <2>1 DEF IdentityTypes
  <2>3. ToldOwn' /\ RowsHeld' /\ StatsBelong' /\ NoPlaceholder' /\ NoGhost' /\ GoodStore(store')
    BY <1>0, <2>1 DEF ToldOwn, RowsHeld, StatsBelong, NoPlaceholder, NoGhost
  <2> QED BY <2>2, <2>3 DEF IdentityHeld
<1>3. ASSUME NEW id \in Ids, DeleteDevice(id) PROVE IdentityHeld'
  <2>1. /\ rows[id] # NoRow /\ rows' = [rows EXCEPT ![id] = NoRow]
        /\ removing' = removing \cup {rows[id].mac} /\ Touch(id, rows[id].mac)
        /\ UNCHANGED <<store, radioAt, job, origin>>
    BY <1>3 DEF DeleteDevice
  <2>2. rows[id].mac \in MACs
    BY <1>a, <2>1
  <2> QED BY <2>1, <2>2, RowChanges
<1>4. ASSUME NEW id \in Ids, NEW m \in MACs, LearnDeviceMAC(id, m) PROVE IdentityHeld'
  <2> DEFINE r == [rows[id] EXCEPT !.mac = m]
  <2>1. /\ rows[id] # NoRow /\ rows' = [rows EXCEPT ![id].mac = m]
        /\ removing' = removing \cup {rows[id].mac} /\ Touch(id, rows[id].mac)
        /\ UNCHANGED <<store, radioAt, job, origin>>
    BY <1>4 DEF LearnDeviceMAC
  <2>2. rows[id].mac \in MACs /\ r \in [mac : MACs, addr : Sites] /\ rows' = [rows EXCEPT ![id] = r]
    BY <1>a, <2>1
  <2> HIDE DEF r
  <2> QED BY <2>1, <2>2, RowChanges
<1>5. ASSUME NEW id \in Ids, NEW a \in Sites, AddDevice(a, id) PROVE IdentityHeld'
  <2> DEFINE m == radioAt[a]
             r == [mac |-> m, addr |-> a]
  <2>1. /\ m # NoMAC /\ rows' = [rows EXCEPT ![id] = r] /\ Touch(id, m)
        /\ rows[id] # NoRow => rows[id].mac = m
        /\ UNCHANGED <<store, radioAt, job, removing, origin>>
    BY <1>5 DEF AddDevice
  <2>2. m \in MACs
    BY <1>0, <2>1 DEF IdentityTypes
  <2>3. r \in [mac : MACs, addr : Sites] /\ r.mac = m
    BY <2>2
  <2>4. r # NoRow
    BY <2>3, IdentityAssumption
  <2> HIDE DEF m, r
  <2> QED BY <2>1, <2>2, <2>3, <2>4, RowChanges
<1>6. ASSUME NEW m \in MACs, DropStatistics(m) PROVE IdentityHeld'
  <2>1. /\ m \in removing /\ removing' = removing \ {m} /\ store' = RemoveByMAC(store, m)
        /\ UNCHANGED <<rows, radioAt, job, overlapped, origin>>
    BY <1>6 DEF DropStatistics
  <2>2. GoodStore(store') /\ store'.entry = [store.entry EXCEPT ![m] = NoEntry]
    BY <1>0, <2>1, RemoveByMACGood
  <2>3. \A k \in Keys : store'.entry[k] = IF k = m THEN NoEntry ELSE store.entry[k]
    BY <1>0, <2>2 DEF GoodStore, Stores
  <2>4. NoPlaceholder' /\ NoGhost'
    BY <1>0, <2>1, <2>3 DEF NoPlaceholder, NoGhost, Keys
  <2>5. IdentityTypes' /\ ToldOwn' /\ RowsHeld' /\ StatsBelong'
    BY <1>0, <2>1 DEF IdentityTypes, ToldOwn, RowsHeld, StatsBelong
  <2> QED BY <2>2, <2>4, <2>5 DEF IdentityHeld
<1> QED BY <1>1, <1>2, <1>3, <1>4, <1>5, <1>6, PollStepHolds DEF IdentityNext

(* Every part of the inventory keeps the invariant.                        *)
LEMMA IdentityInvariant == InventorySpec => []IdentityInv
<1>1. InventoryInit => IdentityInv
  BY IdentityStarts DEF InventoryInit
<1>2. IdentityInv /\ [InventoryNext]_inventoryVars => IdentityInv'
  <2> SUFFICES ASSUME IdentityInv, [InventoryNext]_inventoryVars PROVE IdentityInv'
    OBVIOUS
  <2> USE DEF IdentityInv
  <2>1. ASSUME UNCHANGED identityVars
        PROVE  IdentityTypes' /\ ToldOwn' /\ RowsHeld' /\ StatsBelong'
    BY <2>1 DEF identityVars, IdentityTypes, ToldOwn, RowsHeld, StatsBelong
  <2>2. ASSUME UNCHANGED <<store, identityVars, part>> PROVE IdentityInv'
    <3>1. (part = "identity" => NoPlaceholder /\ NoGhost)'
      BY <2>2 DEF identityVars, NoPlaceholder, NoGhost
    <3> QED BY <2>1, <2>2, <3>1
  <2>3. CASE part = "store" /\ StoreNext /\ UNCHANGED <<identityVars, topologyVars, part>>
    <3>1. GoodStore(store')
      BY <2>3, StoreStep
    <3> QED BY <2>1, <2>3, <3>1
  <2>4. CASE part = "identity" /\ IdentityNext /\ UNCHANGED <<topologyVars, part>>
    <3>1. IdentityHeld'
      BY <2>4, IdentityStep DEF IdentityHeld
    <3> QED BY <3>1 DEF IdentityHeld
  <2>5. CASE part = "topology" /\ TopologyNext /\ UNCHANGED <<store, identityVars, part>>
    BY <2>2, <2>5
  <2>6. CASE UNCHANGED inventoryVars
    BY <2>2, <2>6 DEF inventoryVars
  <2> QED BY <2>3, <2>4, <2>5, <2>6 DEF InventoryNext
<1> QED BY <1>1, <1>2, PTL DEF InventorySpec

(* The lookups of the live store are inverse to each other after any       *)
(* sequence of calls, with any number of MACs and addresses, and           *)
(* statistics are under the MAC of the radio that answered                 *)
(* (internal/stats/store.go, internal/poller/canonical_mac.go).            *)
THEOREM StoreInPlace == InventorySpec => []EntriesInPlace
<1>1. IdentityInv => EntriesInPlace
  BY DEF IdentityInv, GoodStore, Agree, EntriesInPlace, LookupsAgree
<1> QED BY <1>1, IdentityInvariant, PTL

(* A deleted device or a replaced MAC leaves no entry behind once its      *)
(* request is through, whatever polls come and go without overlapping it   *)
(* (cmd/server/api.go, identity_mismatch_api.go).                          *)
THEOREM DeletedLeaveNothing == InventorySpec => []NoGhostEntry
<1>1. IdentityInv => NoGhostEntry
  BY DEF IdentityInv, NoGhostEntry
<1> QED BY <1>1, IdentityInvariant, PTL

-----------------------------------------------------------------------------
(* The topology of stations.                                               *)

(* Every step keeps the invariant of the roles.                            *)
LEMMA TopologyStep ==
  ASSUME TopologyInv, TopologyNext
  PROVE  /\ TopologyInv'
         /\ \A ap \in APs : HasRole(ap, "ap") /\ ~ReadBefore(ap)
              => devices'[ap] = [role |-> "ap", parent |-> None]
<1>0. /\ devices \in [Radios -> Row \cup {None}] /\ DOMAIN poll = APs
      /\ \A ap \in APs : poll[ap].pc # "idle" => devices[ap] # None
      /\ \A ap \in APs : HasRole(ap, "ap") => devices[ap].parent = None
  BY DEF TopologyInv
<1>a. APs \subseteq Radios /\ Stations \subseteq Radios /\ APs \cap Stations = {}
      /\ None \notin Row /\ None \notin APs
  BY TopologyAssumption DEF Radios
<1>b. \A ap \in APs : HasRole(ap, "ap") => devices[ap] = [role |-> "ap", parent |-> None]
  BY <1>0, <1>a DEF HasRole, Row
<1>1. ASSUME UNCHANGED devices, DOMAIN poll' = APs,
             \A ap \in APs : poll'[ap].pc # "idle" => devices[ap] # None
      PROVE  /\ TopologyInv'
             /\ \A ap \in APs : HasRole(ap, "ap") /\ ~ReadBefore(ap)
                  => devices'[ap] = [role |-> "ap", parent |-> None]
  BY <1>0, <1>b, <1>1 DEF TopologyInv, HasRole
(* One row is written, by a poll that goes on or ends.                     *)
<1>2. ASSUME NEW r \in Radios, NEW row \in Row, devices' = [devices EXCEPT ![r] = row],
             DOMAIN poll' = APs,
             \A ap \in APs : poll'[ap].pc # "idle" => poll[ap].pc # "idle",
             r \in APs /\ row.role = "ap" => row.parent = None,
             r \in APs /\ HasRole(r, "ap") /\ ~ReadBefore(r)
               => row = [role |-> "ap", parent |-> None]
      PROVE  /\ TopologyInv'
             /\ \A ap \in APs : HasRole(ap, "ap") /\ ~ReadBefore(ap)
                  => devices'[ap] = [role |-> "ap", parent |-> None]
  <2>1. devices' \in [Radios -> Row \cup {None}]
    BY <1>0, <1>2
  <2>2. devices'[r] = row /\ row # None /\ \A q \in Radios \ {r} : devices'[q] = devices[q]
    BY <1>0, <1>a, <1>2
  <2>3. \A ap \in APs : poll'[ap].pc # "idle" => devices'[ap] # None
    BY <1>0, <1>a, <1>2, <2>2
  <2>4. \A ap \in APs : HasRole(ap, "ap")' => devices'[ap].parent = None
    BY <1>0, <1>a, <1>2, <2>2 DEF HasRole
  <2> QED BY <1>2, <1>a, <1>b, <2>1, <2>2, <2>3, <2>4 DEF TopologyInv
(* One poll moves and no row is written.                                   *)
<1>3. ASSUME NEW ap \in APs, NEW x, poll' = [poll EXCEPT ![ap] = x], devices[ap] # None,
             UNCHANGED devices
      PROVE  /\ TopologyInv'
             /\ \A q \in APs : HasRole(q, "ap") /\ ~ReadBefore(q)
                  => devices'[q] = [role |-> "ap", parent |-> None]
  <2>1. DOMAIN poll' = APs /\ \A q \in APs \ {ap} : poll'[q] = poll[q]
    BY <1>0, <1>3
  <2>2. \A q \in APs : poll'[q].pc # "idle" => devices[q] # None
    BY <1>0, <1>3, <2>1
  <2> QED BY <1>1, <1>3, <2>1, <2>2
<1>4. ASSUME NEW ap \in APs, poll[ap].pc # "idle", NEW x, poll' = [poll EXCEPT ![ap] = x]
      PROVE  /\ devices[ap] \in Row /\ DOMAIN poll' = APs
             /\ \A q \in APs : poll'[q].pc # "idle" => poll[q].pc # "idle"
  <2>1. DOMAIN poll' = APs /\ \A q \in APs \ {ap} : poll'[q] = poll[q]
    BY <1>0, <1>4
  <2> QED BY <1>0, <1>a, <1>4, <2>1
<1>5. CASE breakStaParentLoops
  <2>1. /\ devices' = [r \in Radios |-> IF BadParent(r) THEN [devices[r] EXCEPT !.parent = None]
                                        ELSE devices[r]]
        /\ poll' = poll
    BY <1>5 DEF breakStaParentLoops
  <2>2. \A r \in Radios : BadParent(r) => devices[r] \in Row
    BY <1>0 DEF BadParent
  <2>3. \A r \in Radios : BadParent(r) =>
          /\ [devices[r] EXCEPT !.parent = None] \in Row
          /\ [devices[r] EXCEPT !.parent = None].role = devices[r].role
          /\ [devices[r] EXCEPT !.parent = None].parent = None
    BY <2>2 DEF Row
  <2>4. devices' \in [Radios -> Row \cup {None}]
    BY <1>0, <2>1, <2>3
  <2>5. \A ap \in APs : HasRole(ap, "ap") => devices'[ap] = devices[ap]
    BY <1>0, <1>a, <2>1 DEF BadParent
  <2>6. \A ap \in APs : /\ devices[ap] # None => devices'[ap] # None
                        /\ HasRole(ap, "ap")' => HasRole(ap, "ap")
    BY <1>0, <1>a, <2>1, <2>2, <2>3 DEF HasRole
  <2>7. TopologyInv'
    BY <1>0, <2>1, <2>4, <2>5, <2>6 DEF TopologyInv
  <2> QED BY <1>b, <2>5, <2>7
<1>6. ASSUME NEW ap \in APs, PollSteps(ap)
      PROVE  /\ TopologyInv'
             /\ \A q \in APs : HasRole(q, "ap") /\ ~ReadBefore(q)
                  => devices'[q] = [role |-> "ap", parent |-> None]
  <2>1. CASE Fetch(ap)
    <3>1. devices[ap] # None /\ UNCHANGED devices
      BY <2>1 DEF Fetch, Polled
    <3>2. \E x : poll' = [poll EXCEPT ![ap] = x]
      BY <2>1 DEF Fetch
    <3> QED BY <1>3, <3>1, <3>2
  <2>2. CASE \/ acceptPeerSnapshot(ap) \/ StorePeers(ap) \/ FindMissing(ap)
             \/ markMissingSTAsOffline(ap) \/ \E r \in Radios : LookupPeer(ap, r)
    <3>1. devices[ap] # None /\ UNCHANGED devices
      BY <1>0, <2>2 DEF acceptPeerSnapshot, StorePeers, FindMissing, markMissingSTAsOffline,
                        LookupPeer, PollAt
    <3>2. \E x : poll' = [poll EXCEPT ![ap] = x]
      BY <2>2 DEF acceptPeerSnapshot, StorePeers, FindMissing, markMissingSTAsOffline,
                  LookupPeer, PollGoto
    <3> QED BY <1>3, <3>1, <3>2
  <2>3. CASE ClearOwnParent(ap)
    <3> DEFINE row == [devices[ap] EXCEPT !.parent = None]
    <3>1. poll[ap].pc # "idle" /\ devices' = [devices EXCEPT ![ap].parent = None]
      BY <2>3 DEF ClearOwnParent, PollAt
    <3>2. \E x : poll' = [poll EXCEPT ![ap] = x]
      BY <2>3 DEF ClearOwnParent, PollGoto
    <3>3. /\ devices[ap] \in Row /\ DOMAIN poll' = APs
          /\ \A q \in APs : poll'[q].pc # "idle" => poll[q].pc # "idle"
      BY <1>4, <3>1, <3>2
    <3>4. row \in Row /\ row.parent = None /\ row.role = devices[ap].role
      BY <3>3 DEF Row
    <3>5. devices' = [devices EXCEPT ![ap] = row]
      BY <1>0, <1>a, <3>1
    <3>6. HasRole(ap, "ap") => row = [role |-> "ap", parent |-> None]
      BY <1>b
    <3> HIDE DEF row
    <3> QED BY <1>2, <1>a, <3>3, <3>4, <3>5, <3>6
  <2>4. CASE WritePeer(ap)
    <3> DEFINE r == poll[ap].peer
               old == poll[ap].old
               row == WrittenRow(ap, old, devices[r])
    <3>1. PollAt(ap, "write") /\ poll[ap].pc # "idle" /\ devices' = [devices EXCEPT ![r] = row]
      BY <2>4 DEF WritePeer, PollAt
    <3>2. \E x : poll' = [poll EXCEPT ![ap] = x]
      BY <2>4 DEF WritePeer
    <3>3. /\ devices[ap] \in Row /\ DOMAIN poll' = APs
          /\ \A q \in APs : poll'[q].pc # "idle" => poll[q].pc # "idle"
      BY <1>4, <3>1, <3>2
    <3>4. CASE r \notin Radios \/ (old # None /\ devices[r] = None)
      <4>1. UNCHANGED devices
        BY <1>0, <3>1, <3>4 DEF WrittenRow
      <4>2. \A q \in APs : poll'[q].pc # "idle" => devices[q] # None
        BY <1>0, <3>3
      <4> QED BY <1>1, <3>3, <4>1, <4>2
    <3>5. CASE r \in Radios /\ (old = None \/ devices[r] # None)
      <4>1. AsStation(ap) \in Row /\ AsStation(ap).role = "sta"
        BY <1>a DEF AsStation, Row
      <4>2. devices[r] \in Row \cup {None}
        BY <1>0, <3>5
      <4>3. \/ row = AsStation(ap) /\ (old # None \/ ~HasRole(r, "ap"))
                                   /\ (old # None => old.role # "ap")
            \/ /\ devices[r] # None
               /\ \/ row = [devices[r] EXCEPT !.parent = None]
                  \/ row = devices[r] /\ row = [devices[r] EXCEPT !.parent = devices[r].parent]
        <5>1. CASE old = None
          BY <1>a, <3>5, <5>1 DEF WrittenRow, HasRole
        <5>2. CASE old # None
          BY <1>a, <3>5, <4>2, <5>2 DEF WrittenRow, HasRole, Row
        <5> QED BY <5>1, <5>2
      <4> HIDE DEF row
      <4>4. CASE row = AsStation(ap) /\ (old # None \/ ~HasRole(r, "ap"))
                                     /\ (old # None => old.role # "ap")
        <5>1. r \in APs /\ HasRole(r, "ap") => ReadBefore(r)
          BY <3>1, <4>4 DEF ReadBefore
        <5>2. row \in Row /\ row.role # "ap"
          BY <4>1, <4>4
        <5> HIDE DEF r, old
        <5> QED BY <1>2, <3>1, <3>3, <3>5, <5>1, <5>2
      <4>5. CASE devices[r] # None /\ row = [devices[r] EXCEPT !.parent = None]
        <5>1. devices[r] \in Row
          BY <4>2, <4>5
        <5>2. row \in Row /\ row.parent = None
          BY <5>1, <4>5 DEF Row
        <5>3. r \in APs /\ HasRole(r, "ap") => row = [role |-> "ap", parent |-> None]
          BY <1>b, <4>5
        <5> HIDE DEF r
        <5> QED BY <1>2, <3>1, <3>3, <3>5, <5>2, <5>3
      <4>6. CASE devices[r] # None /\ row = devices[r]
        <5>1. UNCHANGED devices
          BY <1>0, <3>1, <4>6
        <5>2. \A q \in APs : poll'[q].pc # "idle" => devices[q] # None
          BY <1>0, <3>3
        <5> QED BY <1>1, <3>3, <5>1, <5>2
      <4> QED BY <4>3, <4>4, <4>5, <4>6
    <3> QED BY <3>4, <3>5
  <2>5. CASE PromoteToAP(ap)
    <3> DEFINE row == IF poll[ap].jobRole = "ap" THEN devices[ap] ELSE [role |-> "ap", parent |-> None]
    <3>1. /\ poll[ap].pc # "idle" /\ devices' = [devices EXCEPT ![ap] = row]
          /\ poll' = [poll EXCEPT ![ap] = NoPoll]
      BY <2>5 DEF PromoteToAP, PollAt
    <3>2. /\ devices[ap] \in Row /\ DOMAIN poll' = APs
          /\ \A q \in APs : poll'[q].pc # "idle" => poll[q].pc # "idle"
      BY <1>4, <3>1
    <3>3. /\ row \in Row /\ (row.role = "ap" => row.parent = None)
          /\ HasRole(ap, "ap") => row = [role |-> "ap", parent |-> None]
      <4>1. [role |-> "ap", parent |-> None] \in Row
        BY DEF Row
      <4>2. devices[ap].role = "ap" => HasRole(ap, "ap")
        BY <1>a, <3>2 DEF HasRole
      <4> QED BY <1>b, <3>2, <4>1, <4>2
    <3> HIDE DEF row
    <3> QED BY <1>2, <1>a, <3>1, <3>2, <3>3
  <2> QED BY <1>6, <2>1, <2>2, <2>3, <2>4, <2>5 DEF PollSteps
<1>7. ASSUME NEW st \in Stations, PollStation(st)
      PROVE  /\ TopologyInv'
             /\ \A q \in APs : HasRole(q, "ap") /\ ~ReadBefore(q)
                  => devices'[q] = [role |-> "ap", parent |-> None]
  <2> DEFINE row == [devices[st] EXCEPT !.role = IF heard[st] = None THEN @ ELSE "sta"]
  <2>1. devices[st] # None /\ poll' = poll
        /\ devices' = [devices EXCEPT ![st].role = IF heard[st] = None THEN @ ELSE "sta"]
    BY <1>7 DEF PollStation, Polled
  <2>2. devices[st] \in Row
    BY <1>0, <1>a, <2>1
  <2>3. row \in Row
    BY <2>2 DEF Row
  <2>4. devices' = [devices EXCEPT ![st] = row]
    BY <1>0, <1>a, <2>1
  <2> HIDE DEF row
  <2> QED BY <1>0, <1>2, <1>a, <2>1, <2>3, <2>4
<1>8. ASSUME NEW st \in Stations, NEW ap \in APs \cup {None}, Roam(st, ap)
      PROVE  /\ TopologyInv'
             /\ \A q \in APs : HasRole(q, "ap") /\ ~ReadBefore(q)
                  => devices'[q] = [role |-> "ap", parent |-> None]
  BY <1>0, <1>1, <1>8 DEF Roam
<1> QED BY <1>5, <1>6, <1>7, <1>8 DEF TopologyNext

(* The invariant of the roles holds at the start.                          *)
LEMMA TopologyStarts ==
  ASSUME TopologyInit
  PROVE  TopologyInv
<1>a. APs \subseteq Radios /\ Stations \subseteq Radios /\ APs \cap Stations = {}
      /\ None \notin Row
  BY TopologyAssumption DEF Radios
<1>1. poll = [ap \in APs |-> NoPoll]
  BY DEF TopologyInit
<1>2. DOMAIN poll = APs /\ \A ap \in APs : poll[ap].pc = "idle"
  BY <1>1 DEF NoPoll
<1>3. [role |-> "ap", parent |-> None] \in Row /\ \A q \in Radios : [role |-> "sta", parent |-> q] \in Row
  BY DEF Row
<1>4. /\ devices \in [Radios -> Row \cup {None}]
      /\ \A ap \in APs : HasRole(ap, "ap") => devices[ap].parent = None
  <2>1. CASE devices = [r \in Radios |-> None]
    BY <1>a, <2>1 DEF HasRole
  <2>2. CASE devices = [r \in Radios |-> IF r \in APs THEN [role |-> "ap", parent |-> None] ELSE None]
    BY <1>a, <1>3, <2>2 DEF HasRole
  <2>3. CASE \E ap \in APs, s \in Stations :
               devices = [r \in Radios |-> CASE r = ap -> [role |-> "sta", parent |-> s]
                                             [] r = s -> [role |-> "sta", parent |-> ap]
                                             [] r \in APs \ {ap} -> [role |-> "ap", parent |-> None]
                                             [] r \in Stations \ {s} -> None]
    <3>1. PICK ap \in APs, s \in Stations :
            devices = [r \in Radios |-> CASE r = ap -> [role |-> "sta", parent |-> s]
                                          [] r = s -> [role |-> "sta", parent |-> ap]
                                          [] r \in APs \ {ap} -> [role |-> "ap", parent |-> None]
                                          [] r \in Stations \ {s} -> None]
      BY <2>3
    <3>2. \A r \in Radios : devices[r] = IF r = ap THEN [role |-> "sta", parent |-> s]
                                   ELSE IF r = s THEN [role |-> "sta", parent |-> ap]
                                   ELSE IF r \in APs THEN [role |-> "ap", parent |-> None] ELSE None
      BY <1>a, <3>1 DEF Radios
    <3>3. devices \in [Radios -> Row \cup {None}]
      <4>1. \A r \in Radios : devices[r] \in Row \cup {None}
        BY <1>a, <1>3, <3>2
      <4> QED BY <3>1, <4>1
    <3>4. \A q \in APs : HasRole(q, "ap") => devices[q].parent = None
      BY <1>a, <3>2 DEF HasRole
    <3> QED BY <3>3, <3>4
  <2> QED BY <2>1, <2>2, <2>3 DEF TopologyInit
<1> QED BY <1>2, <1>4 DEF TopologyInv

(* A device known as an access point is never demoted or given a parent    *)
(* because others list it, for any inventory and any set of radios that    *)
(* list each other, unless its row was read before its promotion and is    *)
(* written after (internal/poller/children.go:170-190).                    *)
THEOREM AccessPointsStay == InventorySpec => NeverDemoted
<1>1. InventoryInit => TopologyInv
  BY TopologyStarts DEF InventoryInit
<1>2. TopologyInv /\ [InventoryNext]_inventoryVars
      => /\ TopologyInv'
         /\ [\A ap \in APs : HasRole(ap, "ap") /\ ~ReadBefore(ap)
               => devices'[ap] = [role |-> "ap", parent |-> None]]_topologyVars
  <2> SUFFICES ASSUME TopologyInv, [InventoryNext]_inventoryVars
               PROVE  /\ TopologyInv'
                      /\ [\A ap \in APs : HasRole(ap, "ap") /\ ~ReadBefore(ap)
                            => devices'[ap] = [role |-> "ap", parent |-> None]]_topologyVars
    OBVIOUS
  <2>1. CASE TopologyNext
    BY <2>1, TopologyStep
  <2>2. CASE UNCHANGED topologyVars
    BY <2>2 DEF topologyVars, TopologyInv, HasRole
  <2> QED BY <2>1, <2>2 DEF InventoryNext, inventoryVars
<1> QED BY <1>1, <1>2, PTL DEF InventorySpec, NeverDemoted

=============================================================================
