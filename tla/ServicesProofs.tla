--------------------------- MODULE ServicesProofs ---------------------------
(***************************************************************************)
(* Proofs about two services that keep a copy of what the operator set and *)
(* act on the copy: the sysmon-web client, for any settings and any number *)
(* of changes, faults and calls, and the pinned certificates, for any      *)
(* devices, addresses and certificates and any number of operations at     *)
(* once; about the logs of the debug console, for any sizes of a log and   *)
(* of its entries and any number of writers; and about the hub of the open *)
(* pages, for any pages, broadcasters and sizes of the buffers.            *)
(***************************************************************************)
EXTENDS SysmonClient, WebSocketHub, TlsTrust, UltraDebug, NaturalsInduction, WellFoundedInduction, TLAPS

-----------------------------------------------------------------------------
(* The sysmon-web client.                                                  *)


SysmonSpec == SysmonInit /\ [][SysmonNext]_sysmonVars

AnyConfig == {normalizeConfig(c) : c \in Configs \cup {FirstConfig}} \cup {NoCfg}
ConnType == [cfg : AnyConfig, gen : Nat, state : {"open", "closing", "closed"}]
UserType ==
    [pc : {"idle", "want", "ensure", "dial", "install", "pick", "wire", "replied", "tried"},
     snap : AnyConfig, gen : Nat, line : {"none", "connect", "PING", "ALERT", "QUIT"},
     conn : Nat, stale : BOOLEAN, res : {"ok", "refused", "error"}]

SysmonTypes ==
    /\ cfg \in AnyConfig /\ generation \in Nat
    /\ conns \in Seq(ConnType) /\ session \in Nat
    /\ me \in [Users -> UserType]

\* Past "want" a user holds opMu: there is one of them.
OnTheWire == \A u \in Users : me[u].pc \notin {"idle", "want"} => opMu = u

\* A user's own connection exists; one it has dialled is not the installed one,
\* and is still open, and of the settings it was dialled for, before install.
OwnConn ==
    \A u \in Users :
        /\ me[u].pc \in {"wire", "replied"} => me[u].conn \in DOMAIN conns
        /\ me[u].pc = "tried" /\ me[u].conn # 0 => me[u].conn \in DOMAIN conns \ {session}
        /\ me[u].pc = "install" =>
               /\ me[u].conn \in DOMAIN conns \ {session}
               /\ conns[me[u].conn] = [cfg |-> me[u].snap, gen |-> me[u].gen, state |-> "open"]

\* The test takes no part in ensureConnected, and dials with no connection of
\* its own in hand.
TestDials ==
    /\ me["test"].pc # "ensure"
    /\ me["test"].pc = "want" => me["test"].line = "QUIT"
    /\ me["test"].pc = "dial" => me["test"].conn = 0

\* ShownIsCurrent, and that the installed connection has not been let go of.
Installed ==
    /\ session # 0 => /\ session \in DOMAIN conns /\ cfg.enabled
                      /\ conns[session] = [cfg |-> cfg, gen |-> generation, state |-> "open"]
    /\ lastError # NoCfg => lastError = cfg

SysmonInv == SysmonTypes /\ OnTheWire /\ OwnConn /\ TestDials /\ Installed

-----------------------------------------------------------------------------
\* What closing a connection does to the list of them.
LEMMA ConnUpdate ==
    ASSUME conns \in Seq(ConnType), NEW k \in DOMAIN conns, NEW x \in {"open", "closing", "closed"}
    PROVE  /\ Conn(k, x) \in Seq(ConnType) /\ DOMAIN Conn(k, x) = DOMAIN conns
           /\ \A j \in DOMAIN conns \ {k} : Conn(k, x)[j] = conns[j]
<1>1. conns[k] \in ConnType
  OBVIOUS
<1>2. [conns[k] EXCEPT !.state = x] \in ConnType
  BY <1>1 DEF ConnType
<1> QED BY <1>2 DEF Conn

\* Letting go of the installed connection leaves the others as they are.
LEMMA DetachOthers ==
    ASSUME SysmonTypes, Installed, Detach
    PROVE  /\ session' = 0 /\ conns' \in Seq(ConnType) /\ DOMAIN conns' = DOMAIN conns
           /\ \A j \in DOMAIN conns \ {session} : conns'[j] = conns[j]
<1>1. CASE session = 0
  BY <1>1 DEF Detach, SysmonTypes
<1>2. CASE session # 0
  BY <1>2, ConnUpdate DEF Detach, SysmonTypes, Installed
<1> QED BY <1>1, <1>2

(* A dialled connection comes last.                                        *)
LEMMA DialAppends ==
    ASSUME SysmonTypes, NEW c \in ConnType, conns' = Append(conns, c)
    PROVE  /\ conns' \in Seq(ConnType) /\ Len(conns) \in Nat
           /\ DOMAIN conns = 1..Len(conns) /\ DOMAIN conns' = 1..(Len(conns) + 1)
           /\ conns'[Len(conns) + 1] = c /\ \A j \in DOMAIN conns : conns'[j] = conns[j]
BY DEF SysmonTypes

(* An idle user.                                                           *)
LEMMA IdleType == Idle \in UserType
BY DEF Idle, UserType, AnyConfig

-----------------------------------------------------------------------------
(* The invariant holds before the first connection.                        *)
LEMMA SysmonInitInv == SysmonInit => SysmonInv
<1> SUFFICES ASSUME SysmonInit PROVE SysmonInv
  OBVIOUS
<1>1. SysmonTypes
  BY IdleType DEF SysmonInit, SysmonTypes, AnyConfig
<1>2. OnTheWire /\ OwnConn /\ TestDials /\ Installed
  BY DEF SysmonInit, OnTheWire, OwnConn, TestDials, Installed, Idle, Users
<1> QED BY <1>1, <1>2 DEF SysmonInv

\* The record of u is replaced by r, and only that.
Replaced(u, r) == /\ r \in UserType /\ me' \in [Users -> UserType] /\ me'[u] = r
                  /\ \A v \in Users \ {u} : me'[v] = me[v]

(* One user moves.                                                         *)
LEMMA Replacing ==
    ASSUME SysmonTypes, NEW u \in Users, NEW r \in UserType, me' = [me EXCEPT ![u] = r]
    PROVE  Replaced(u, r)
BY DEF SysmonTypes, Replaced

\* It is enough to look at the user who holds opMu: the others are not past
\* "want".
LEMMA HolderMoves ==
    ASSUME SysmonInv, NEW u \in Users, NEW r \in UserType, Replaced(u, r),
           me[u].pc \notin {"idle", "want"}, cfg' = cfg, generation' = generation,
           conns' \in Seq(ConnType), session' \in Nat,
           r.pc = "idle" \/ (r.pc # "want" /\ opMu' = u),
           r.pc \in {"wire", "replied"} => r.conn \in DOMAIN conns',
           r.pc = "tried" /\ r.conn # 0 => r.conn \in DOMAIN conns' \ {session'},
           r.pc = "install" =>
               /\ r.conn \in DOMAIN conns' \ {session'}
               /\ conns'[r.conn] = [cfg |-> r.snap, gen |-> r.gen, state |-> "open"],
           u = "test" => r.pc # "ensure" /\ (r.pc = "dial" => r.conn = 0),
           Installed'
    PROVE  SysmonInv'
<1>1. \A v \in Users \ {u} : me'[v] = me[v] /\ me[v].pc \in {"idle", "want"}
  BY DEF SysmonInv, OnTheWire, Replaced
<1>2. SysmonTypes'
  BY DEF SysmonInv, SysmonTypes, Replaced
<1>3. OnTheWire'
  BY <1>1 DEF OnTheWire, Replaced
<1>4. OwnConn'
  BY <1>1 DEF OwnConn, Replaced
<1>5. TestDials'
  BY DEF SysmonInv, TestDials, Replaced, Users
<1> QED BY <1>2, <1>3, <1>4, <1>5 DEF SysmonInv

\* The steps of one user, while it waits for opMu and while it holds it.
LEMMA AcquireInv ==
    ASSUME SysmonInv, NEW u \in Users, Acquire(u) PROVE SysmonInv'
<1> DEFINE x == IF me[u].line \in {"connect", "ALERT"} THEN "ensure" ELSE "pick"
           r == [me[u] EXCEPT !.pc = x]
<1>1. me[u] \in UserType /\ r \in UserType /\ r.pc = x /\ x \in {"ensure", "pick"}
  BY DEF SysmonInv, SysmonTypes, UserType
<1>2. u = "test" => x = "pick"
  BY DEF SysmonInv, TestDials, Acquire
<1>3. me' = [me EXCEPT ![u] = r]
  BY DEF Acquire, Goto
<1> HIDE DEF r, x
<1>4. Replaced(u, r)
  BY <1>1, <1>3, Replacing DEF SysmonInv
<1>5. \A v \in Users \ {u} : me'[v] = me[v] /\ me[v].pc \in {"idle", "want"}
  BY <1>4, SysmonAssumption DEF SysmonInv, OnTheWire, Acquire, Replaced
<1>6. SysmonTypes' /\ Installed'
  BY <1>4 DEF SysmonInv, SysmonTypes, Installed, Acquire, Replaced
<1>7. OnTheWire'
  BY <1>4, <1>5 DEF OnTheWire, Acquire, Replaced
<1>8. OwnConn'
  BY <1>1, <1>4, <1>5 DEF OwnConn, Replaced
<1>9. TestDials'
  BY <1>1, <1>2, <1>4 DEF SysmonInv, TestDials, Replaced, Users
<1> QED BY <1>6, <1>7, <1>8, <1>9 DEF SysmonInv

(* ensure looks for a connection and finds one or none.                    *)
LEMMA EnsureInv ==
    ASSUME SysmonInv, NEW u \in Users, ensureConnected(u) PROVE SysmonInv'
<1>1. me[u] \in UserType /\ SysmonTypes /\ me[u].pc = "ensure" /\ opMu = u /\ u # "test"
  BY DEF SysmonInv, SysmonTypes, ensureConnected, OnTheWire, TestDials
<1>2. conns' \in Seq(ConnType) /\ session' \in Nat /\ Installed'
      /\ UNCHANGED <<cfg, generation>>
  BY DEF SysmonInv, SysmonTypes, Installed, ensureConnected
<1>3. CASE Return(u)
  BY <1>1, <1>2, <1>3, IdleType, Replacing, HolderMoves DEF Return, Idle
<1>4. CASE Goto(u, "pick") /\ UNCHANGED opMu
  <2> DEFINE r == [me[u] EXCEPT !.pc = "pick"]
  <2>1. r \in UserType /\ r.pc = "pick"
    BY <1>1 DEF UserType
  <2>2. me' = [me EXCEPT ![u] = r]
    BY <1>4 DEF Goto
  <2> HIDE DEF r
  <2> QED BY <1>1, <1>2, <1>4, <2>1, <2>2, Replacing, HolderMoves
<1>5. CASE me' = [me EXCEPT ![u].pc = "dial", ![u].gen = generation] /\ UNCHANGED opMu
  <2> DEFINE r == [me[u] EXCEPT !.pc = "dial", !.gen = generation]
  <2>1. r \in UserType /\ r.pc = "dial"
    BY <1>1 DEF UserType, SysmonTypes
  <2>2. me' = [me EXCEPT ![u] = r]
    BY <1>1, <1>5 DEF SysmonTypes
  <2> HIDE DEF r
  <2> QED BY <1>1, <1>2, <1>5, <2>1, <2>2, Replacing, HolderMoves
<1> QED BY <1>3, <1>4, <1>5 DEF ensureConnected, Ensured

(* dial adds a connection that is not installed.                           *)
LEMMA DialInv ==
    ASSUME SysmonInv, NEW u \in Users, dialAndHandshake(u) PROVE SysmonInv'
<1>1. me[u] \in UserType /\ SysmonTypes /\ me[u].pc = "dial" /\ opMu = u
      /\ UNCHANGED <<cfg, generation, session>> /\ Installed /\ session' \in Nat
  BY DEF SysmonInv, SysmonTypes, dialAndHandshake, OnTheWire
<1>2. CASE UNCHANGED conns
  <2>1. Installed' /\ conns' \in Seq(ConnType)
    BY <1>1, <1>2 DEF dialAndHandshake, setLastError, sameConfig, Installed, SysmonTypes
  <2>2. CASE Return(u)
    BY <1>1, <2>1, <2>2, IdleType, Replacing, HolderMoves DEF Return, Idle
  <2>3. CASE u = "test" /\ Goto(u, "tried") /\ UNCHANGED opMu
    <3> DEFINE r == [me[u] EXCEPT !.pc = "tried"]
    <3>1. r \in UserType /\ r.pc = "tried" /\ r.conn = 0
      BY <1>1, <2>3 DEF UserType, SysmonInv, TestDials
    <3>2. me' = [me EXCEPT ![u] = r]
      BY <2>3 DEF Goto
    <3> HIDE DEF r
    <3> QED BY <1>1, <2>1, <2>3, <3>1, <3>2, Replacing, HolderMoves
  <2>4. CASE conns' = Append(conns, [cfg |-> me[u].snap, gen |-> me[u].gen, state |-> "open"])
    <3>1. [cfg |-> me[u].snap, gen |-> me[u].gen, state |-> "open"] \in ConnType
      BY <1>1 DEF UserType, ConnType
    <3> QED BY <1>1, <1>2, <2>4, <3>1, DialAppends DEF SysmonTypes
  <2> QED BY <2>2, <2>3, <2>4 DEF dialAndHandshake
<1>3. CASE /\ conns' = Append(conns, [cfg |-> me[u].snap, gen |-> me[u].gen, state |-> "open"])
           /\ me' = [me EXCEPT ![u].pc = IF u = "test" THEN "tried" ELSE "install",
                               ![u].conn = Len(conns) + 1]
           /\ UNCHANGED <<opMu, lastError>>
  <2> DEFINE c == [cfg |-> me[u].snap, gen |-> me[u].gen, state |-> "open"]
             x == IF u = "test" THEN "tried" ELSE "install"
             r == [me[u] EXCEPT !.pc = x, !.conn = Len(conns) + 1]
  <2>1. c \in ConnType
    BY <1>1 DEF UserType, ConnType
  <2>2. /\ conns' \in Seq(ConnType) /\ Len(conns) \in Nat
        /\ DOMAIN conns = 1..Len(conns) /\ DOMAIN conns' = 1..(Len(conns) + 1)
        /\ conns'[Len(conns) + 1] = c /\ \A j \in DOMAIN conns : conns'[j] = conns[j]
    BY <1>1, <1>3, <2>1, DialAppends
  <2>3. session \in 0..Len(conns)
    BY <1>1, <2>2 DEF Installed
  <2>4. Installed'
    BY <1>1, <1>3, <2>2 DEF Installed
  <2>5. /\ r \in UserType /\ r.conn = Len(conns) + 1 /\ r.snap = me[u].snap /\ r.gen = me[u].gen
        /\ r.pc = x /\ x \in {"tried", "install"}
    <3>1. x \in {"tried", "install"}
      OBVIOUS
    <3>2. Len(conns) + 1 \in Nat
      BY <2>2
    <3> HIDE DEF x, c
    <3> QED BY <1>1, <3>1, <3>2 DEF UserType
  <2>6. me' = [me EXCEPT ![u] = r]
    BY <1>1, <1>3 DEF SysmonTypes
  <2>7. c = [cfg |-> r.snap, gen |-> r.gen, state |-> "open"]
    BY <2>5
  <2> HIDE DEF r, c, x
  <2>8. Replaced(u, r)
    BY <1>1, <2>5, <2>6, Replacing
  <2>9. r.conn \in DOMAIN conns' \ {session'}
    BY <1>1, <2>2, <2>3, <2>5
  <2>10. conns'[r.conn] = [cfg |-> r.snap, gen |-> r.gen, state |-> "open"]
    BY <2>2, <2>5, <2>7
  <2> QED BY <1>1, <1>3, <2>2, <2>4, <2>5, <2>8, <2>9, <2>10, HolderMoves
<1> QED BY <1>2, <1>3 DEF dialAndHandshake

(* install keeps a connection only if its settings are in force.           *)
LEMMA InstallInv ==
    ASSUME SysmonInv, NEW u \in Users, install(u) PROVE SysmonInv'
<1> DEFINE k == me[u].conn
<1>1. /\ me[u] \in UserType /\ SysmonTypes /\ me[u].pc = "install" /\ opMu = u /\ Installed
      /\ k \in DOMAIN conns \ {session}
      /\ conns[k] = [cfg |-> me[u].snap, gen |-> me[u].gen, state |-> "open"]
      /\ UNCHANGED <<cfg, generation>>
  BY DEF SysmonInv, SysmonTypes, install, OnTheWire, OwnConn
<1>2. u # "test" \/ Ensured(u) \/ Return(u)
  BY DEF install
<1>3. conns' \in Seq(ConnType) /\ session' \in Nat /\ DOMAIN conns' = DOMAIN conns
  BY <1>1, ConnUpdate DEF install, SysmonTypes
<1>4. Installed'
  <2>1. CASE conns' = Conn(k, "closed") /\ UNCHANGED <<session, lastError>>
    BY <1>1, <2>1, ConnUpdate DEF Installed, SysmonTypes
  <2>2. CASE /\ session' = k /\ lastError' = NoCfg /\ UNCHANGED conns
             /\ generation = me[u].gen /\ cfg = me[u].snap /\ cfg.enabled
    BY <1>1, <2>2 DEF Installed
  <2> QED BY <2>1, <2>2 DEF install, sameConfig
<1>5. CASE Return(u)
  BY <1>1, <1>3, <1>4, <1>5, IdleType, Replacing, HolderMoves DEF Return, Idle
<1>6. CASE Goto(u, "pick") /\ UNCHANGED opMu
  <2> DEFINE r == [me[u] EXCEPT !.pc = "pick"]
  <2>1. r \in UserType /\ r.pc = "pick"
    BY <1>1 DEF UserType
  <2>2. me' = [me EXCEPT ![u] = r]
    BY <1>6 DEF Goto
  <2> HIDE DEF r
  <2> QED BY <1>1, <1>3, <1>4, <1>6, <2>1, <2>2, Replacing, HolderMoves
<1> QED BY <1>5, <1>6 DEF install, Ensured

\* What a failed command leaves its user with.
LEMMA FailedMoves ==
    ASSUME SysmonInv, NEW u \in Users, Failed(u), me[u].pc \in {"pick", "replied"},
           cfg' = cfg, generation' = generation, conns' \in Seq(ConnType), session' \in Nat,
           Installed'
    PROVE  SysmonInv'
<1>1. me[u] \in UserType /\ SysmonTypes /\ opMu = u
  BY DEF SysmonInv, SysmonTypes, OnTheWire
<1>2. CASE Return(u)
  BY <1>1, <1>2, IdleType, Replacing, HolderMoves DEF Return, Idle
<1>3. CASE me' = [me EXCEPT ![u].pc = "dial", ![u].conn = 0] /\ UNCHANGED opMu
  <2> DEFINE r == [me[u] EXCEPT !.pc = "dial", !.conn = 0]
  <2>1. r \in UserType /\ r.pc = "dial" /\ r.conn = 0
    BY <1>1 DEF UserType
  <2>2. me' = [me EXCEPT ![u] = r]
    BY <1>1, <1>3 DEF SysmonTypes
  <2> HIDE DEF r
  <2> QED BY <1>1, <1>3, <2>1, <2>2, Replacing, HolderMoves
<1>4. CASE /\ u = "send" /\ me' = [me EXCEPT ![u].pc = "ensure", ![u].stale = FALSE]
           /\ UNCHANGED opMu
  <2> DEFINE r == [me[u] EXCEPT !.pc = "ensure", !.stale = FALSE]
  <2>1. r \in UserType /\ r.pc = "ensure"
    BY <1>1 DEF UserType
  <2>2. me' = [me EXCEPT ![u] = r]
    BY <1>1, <1>4 DEF SysmonTypes
  <2> HIDE DEF r
  <2> QED BY <1>1, <1>4, <2>1, <2>2, Replacing, HolderMoves
<1> QED BY <1>2, <1>3, <1>4 DEF Failed

(* commandCurrent picks the installed connection.                          *)
LEMMA CommandCurrentInv ==
    ASSUME SysmonInv, NEW u \in Users, commandCurrent(u) PROVE SysmonInv'
<1>1. /\ me[u] \in UserType /\ SysmonTypes /\ me[u].pc = "pick" /\ opMu = u /\ Installed
      /\ UNCHANGED <<cfg, generation, session, conns, lastError>>
  BY DEF SysmonInv, SysmonTypes, commandCurrent, OnTheWire
<1>2. conns' \in Seq(ConnType) /\ session' \in Nat /\ Installed'
  BY <1>1 DEF SysmonTypes, Installed
<1>3. CASE Failed(u)
  BY <1>1, <1>2, <1>3, FailedMoves
<1>4. CASE /\ session # 0 /\ me' = [me EXCEPT ![u].pc = "wire", ![u].conn = session]
           /\ UNCHANGED opMu
  <2> DEFINE r == [me[u] EXCEPT !.pc = "wire", !.conn = session]
  <2>1. r \in UserType /\ r.pc = "wire" /\ r.conn = session
    BY <1>1 DEF UserType, SysmonTypes
  <2>2. me' = [me EXCEPT ![u] = r]
    BY <1>1, <1>4 DEF SysmonTypes
  <2>3. session \in DOMAIN conns'
    BY <1>1, <1>4 DEF Installed
  <2> HIDE DEF r
  <2> QED BY <1>1, <1>2, <1>4, <2>1, <2>2, <2>3, Replacing, HolderMoves
<1> QED BY <1>3, <1>4 DEF commandCurrent

(* command waits for the answer.                                           *)
LEMMA CommandInv ==
    ASSUME SysmonInv, NEW u \in Users, command(u) PROVE SysmonInv'
<1>1. /\ me[u] \in UserType /\ SysmonTypes /\ me[u].pc = "wire" /\ opMu = u /\ Installed
      /\ me[u].conn \in DOMAIN conns
      /\ UNCHANGED <<cfg, generation, session, conns, lastError, opMu>>
  BY DEF SysmonInv, SysmonTypes, command, OnTheWire, OwnConn
<1>2. conns' \in Seq(ConnType) /\ session' \in Nat /\ Installed'
  BY <1>1 DEF SysmonTypes, Installed
<1>3. PICK res \in {"ok", "refused", "error"} :
        me' = [me EXCEPT ![u].pc = "replied", ![u].res = res]
  BY DEF command
<1> DEFINE r == [me[u] EXCEPT !.pc = "replied", !.res = res]
<1>4. r \in UserType /\ r.pc = "replied" /\ r.conn = me[u].conn
  BY <1>1 DEF UserType
<1>5. me' = [me EXCEPT ![u] = r]
  BY <1>1, <1>3 DEF SysmonTypes
<1> HIDE DEF r
<1> QED BY <1>1, <1>2, <1>4, <1>5, Replacing, HolderMoves

(* A failed command lets go of its own connection only.                    *)
LEMMA RepliedInv ==
    ASSUME SysmonInv, NEW u \in Users, replied(u) PROVE SysmonInv'
<1> DEFINE k == me[u].conn
<1>1. /\ me[u] \in UserType /\ SysmonTypes /\ me[u].pc = "replied" /\ opMu = u /\ Installed
      /\ k \in DOMAIN conns /\ UNCHANGED <<cfg, generation>>
  BY DEF SysmonInv, SysmonTypes, replied, OnTheWire, OwnConn
<1>2. conns' \in Seq(ConnType) /\ session' \in Nat /\ DOMAIN conns' = DOMAIN conns
  BY <1>1, ConnUpdate DEF replied, SysmonTypes
<1>3. /\ session' \in {0, session}
      /\ session' # 0 => conns'[session'] = conns[session]
  <2>1. CASE conns' = conns
    BY <2>1 DEF replied
  <2>2. CASE /\ conns' = Conn(k, "closed") /\ session # k /\ session' = session
    BY <1>1, <2>2, ConnUpdate DEF SysmonTypes, Installed
  <2>3. CASE session = k /\ session' = 0
    BY <2>3
  <2> QED BY <2>1, <2>2, <2>3 DEF replied
<1>4. lastError' \in {lastError, NoCfg} \/ (session = k /\ lastError' = conns[k].cfg)
  BY DEF replied
<1>5. k \in Nat \ {0}
  BY <1>1 DEF SysmonTypes
<1>6. Installed'
  BY <1>1, <1>2, <1>3, <1>4, <1>5 DEF Installed
<1>7. CASE Failed(u)
  BY <1>1, <1>2, <1>6, <1>7, FailedMoves
<1>8. CASE Return(u)
  BY <1>1, <1>2, <1>6, <1>8, IdleType, Replacing, HolderMoves DEF Return, Idle
<1>9. CASE me' = [me EXCEPT ![u].pc = "pick", ![u].stale = FALSE] /\ UNCHANGED opMu
  <2> DEFINE r == [me[u] EXCEPT !.pc = "pick", !.stale = FALSE]
  <2>1. r \in UserType /\ r.pc = "pick"
    BY <1>1 DEF UserType
  <2>2. me' = [me EXCEPT ![u] = r]
    BY <1>1, <1>9 DEF SysmonTypes
  <2> HIDE DEF r
  <2> QED BY <1>1, <1>2, <1>6, <1>9, <2>1, <2>2, Replacing, HolderMoves
<1> QED BY <1>7, <1>8, <1>9 DEF replied

(* A test closes the connection it has dialled.                            *)
LEMMA TriedInv == SysmonInv /\ Tried => SysmonInv'
<1> SUFFICES ASSUME SysmonInv, Tried PROVE SysmonInv'
  OBVIOUS
<1> DEFINE k == me["test"].conn
<1>1. /\ "test" \in Users /\ SysmonTypes /\ me["test"].pc = "tried" /\ opMu = "test" /\ Installed
      /\ k # 0 => k \in DOMAIN conns \ {session}
      /\ UNCHANGED <<cfg, generation, session>>
  BY DEF SysmonInv, SysmonTypes, Tried, OnTheWire, OwnConn, Users
<1>2. conns' \in Seq(ConnType) /\ session' \in Nat
  BY <1>1, ConnUpdate DEF Tried, SysmonTypes
<1>3. Installed'
  <2>1. lastError' \in {lastError, NoCfg} \/ lastError' = cfg
    BY DEF Tried, recordTest, sameConfig
  <2>2. session # 0 => session \in DOMAIN conns' /\ conns'[session] = conns[session]
    BY <1>1, ConnUpdate DEF Tried, SysmonTypes, Installed
  <2> QED BY <1>1, <2>1, <2>2 DEF Installed
<1>4. me' = [me EXCEPT !["test"] = Idle]
  BY DEF Tried, Return
<1> QED BY <1>1, <1>2, <1>3, <1>4, IdleType, Replacing, HolderMoves DEF Idle

\* The steps that need no lock.  A user that begins is idle before it, and
\* wants opMu after.
LEMMA BeginsInv ==
    ASSUME SysmonInv, NEW u \in Users, NEW r \in UserType, me[u].pc = "idle",
           me' = [me EXCEPT ![u] = r], r.pc = "want", u = "test" => r.line = "QUIT",
           UNCHANGED <<cfg, generation, session, conns, opMu, lastError>>
    PROVE  SysmonInv'
<1>1. Replaced(u, r)
  BY Replacing DEF SysmonInv
<1>2. SysmonTypes' /\ Installed'
  BY <1>1 DEF SysmonInv, SysmonTypes, Installed, Replaced
<1>3. OnTheWire'
  BY <1>1 DEF SysmonInv, OnTheWire, Replaced
<1>4. OwnConn'
  BY <1>1 DEF SysmonInv, OwnConn, Replaced
<1>5. TestDials'
  BY <1>1 DEF SysmonInv, TestDials, Replaced, Users
<1> QED BY <1>2, <1>3, <1>4, <1>5 DEF SysmonInv

\* Letting go of the connection: every user's own is another one, or is only
\* asked to exist.
LEMMA DetachInv ==
    ASSUME SysmonInv, Detach, UNCHANGED <<me, opMu>>, cfg' \in AnyConfig, generation' \in Nat,
           lastError' # NoCfg => lastError' = cfg'
    PROVE  SysmonInv'
<1>1. /\ session' = 0 /\ conns' \in Seq(ConnType) /\ DOMAIN conns' = DOMAIN conns
      /\ \A j \in DOMAIN conns \ {session} : conns'[j] = conns[j]
  BY DetachOthers DEF SysmonInv
<1>2. SysmonTypes' /\ OnTheWire' /\ TestDials' /\ Installed'
  BY <1>1 DEF SysmonInv, SysmonTypes, OnTheWire, TestDials, Installed
<1>3. 0 \notin DOMAIN conns
  BY DEF SysmonInv, SysmonTypes
<1>4. OwnConn'
  BY <1>1, <1>3 DEF SysmonInv, OwnConn
<1> QED BY <1>2, <1>4 DEF SysmonInv

\* Every step keeps the invariant.
LEMMA SysmonStepInv == SysmonInv /\ [SysmonNext]_sysmonVars => SysmonInv'
<1> SUFFICES ASSUME SysmonInv, [SysmonNext]_sysmonVars PROVE SysmonInv'
  OBVIOUS
<1>1. CASE Maintain
  <2>0. cfg \in AnyConfig /\ generation \in Nat /\ (lastError # NoCfg => lastError = cfg)
    BY DEF SysmonInv, SysmonTypes, Installed
  <2>1. CASE Detach /\ UNCHANGED me
    BY <1>1, <2>0, <2>1, DetachInv DEF Maintain
  <2>2. ASSUME NEW line \in {"connect", "PING", "none"}, UNCHANGED <<session, conns>>,
               me' = [me EXCEPT !["loop"] = [Idle EXCEPT !.pc = "want", !.snap = cfg,
                                                         !.line = line]]
        PROVE  SysmonInv'
    <3> DEFINE r == [Idle EXCEPT !.pc = "want", !.snap = cfg, !.line = line]
    <3>1. r \in UserType /\ r.pc = "want"
      BY <2>0, IdleType DEF UserType, Idle
    <3>2. "loop" \in Users /\ "loop" # "test"
      BY DEF Users
    <3> HIDE DEF r
    <3> QED BY <1>1, <2>2, <3>1, <3>2, BeginsInv DEF Maintain, r
  <2> QED BY <1>1, <2>1, <2>2 DEF Maintain
<1>2. CASE StopRun
  BY <1>2, DetachInv DEF StopRun, SysmonInv, SysmonTypes, Installed
<1>3. CASE Send
  <2>1. PICK stale \in BOOLEAN :
          me' = [me EXCEPT !["send"] = [Idle EXCEPT !.pc = "want", !.snap = cfg,
                                                    !.line = "ALERT", !.stale = stale]]
    BY <1>3 DEF Send
  <2> DEFINE r == [Idle EXCEPT !.pc = "want", !.snap = cfg, !.line = "ALERT", !.stale = stale]
  <2>2. r \in UserType /\ r.pc = "want"
    BY IdleType DEF UserType, Idle, SysmonInv, SysmonTypes
  <2>3. "send" \in Users /\ "send" # "test"
    BY DEF Users
  <2> HIDE DEF r
  <2> QED BY <1>3, <2>1, <2>2, <2>3, BeginsInv DEF Send, r
<1>4. CASE Test
  <2>1. CASE UNCHANGED me
    <3>1. lastError' \in {lastError, NoCfg} \/ lastError' = cfg
      BY <1>4 DEF Test, recordTest, sameConfig
    <3> QED
      BY <1>4, <2>1, <3>1 DEF Test, SysmonInv, SysmonTypes, OnTheWire, OwnConn, TestDials, Installed
  <2>2. CASE /\ me' = [me EXCEPT !["test"] = [Idle EXCEPT !.pc = "want", !.snap = cfg,
                                                          !.gen = generation, !.line = "QUIT"]]
             /\ UNCHANGED lastError
    <3> DEFINE r == [Idle EXCEPT !.pc = "want", !.snap = cfg, !.gen = generation,
                                 !.line = "QUIT"]
    <3>1. r \in UserType /\ r.pc = "want" /\ r.line = "QUIT"
      BY IdleType DEF UserType, Idle, SysmonInv, SysmonTypes
    <3>2. "test" \in Users
      BY DEF Users
    <3> HIDE DEF r
    <3> QED BY <1>4, <2>2, <3>1, <3>2, BeginsInv DEF Test, r
  <2> QED BY <1>4, <2>1, <2>2 DEF Test
<1>5. ASSUME NEW c \in Configs, UpdateConfig(c) PROVE SysmonInv'
  BY <1>5, DetachInv DEF UpdateConfig, SysmonInv, SysmonTypes, AnyConfig
<1>6. ASSUME NEW k \in DOMAIN conns, CloseSocket(k) PROVE SysmonInv'
  <2>1. /\ conns' \in Seq(ConnType) /\ DOMAIN conns' = DOMAIN conns
        /\ \A j \in DOMAIN conns \ {k} : conns'[j] = conns[j]
    BY <1>6, ConnUpdate DEF CloseSocket, SysmonInv, SysmonTypes
  <2>2. conns[k].state # "open" /\ UNCHANGED <<cfg, generation, session, lastError, opMu, me>>
    BY <1>6 DEF CloseSocket
  <2>3. SysmonTypes' /\ OnTheWire' /\ TestDials'
    BY <2>1, <2>2 DEF SysmonInv, SysmonTypes, OnTheWire, TestDials
  <2>4. OwnConn'
    BY <2>1, <2>2 DEF SysmonInv, OwnConn
  <2>5. Installed'
    BY <2>1, <2>2 DEF SysmonInv, Installed
  <2> QED BY <2>3, <2>4, <2>5 DEF SysmonInv
<1>7. ASSUME NEW u \in Users, UserStep(u) PROVE SysmonInv'
  BY <1>7, AcquireInv, EnsureInv, DialInv, InstallInv, CommandCurrentInv, CommandInv,
     RepliedInv DEF UserStep
<1>8. CASE UNCHANGED sysmonVars
  BY <1>8 DEF sysmonVars, SysmonInv, SysmonTypes, OnTheWire, OwnConn, TestDials, Installed
<1> QED
  BY <1>1, <1>2, <1>3, <1>4, <1>5, <1>6, <1>7, <1>8, TriedInv
  DEF SysmonNext, SysmonStep, CloseStep

\* Whatever UpdateConfig comes between: the connection that is installed was
\* dialled for the settings in force and has not been closed, and the error
\* shown is about those settings.
THEOREM SessionIsCurrent == SysmonSpec => []ShownIsCurrent
<1>1. SysmonInv => ShownIsCurrent
  BY DEF SysmonInv, Installed, ShownIsCurrent
<1> QED BY SysmonInitInv, SysmonStepInv, <1>1, PTL DEF SysmonSpec

-----------------------------------------------------------------------------
(* The pinned certificates.  The copy can be stale only on a device that   *)
(* two writers met on, so the invariant is stated device by device: how    *)
(* far the one writer past its rows has still to go, and that whatever the *)
(* caches hold as verified has been approved.                              *)

TlsSpec == TlsInit /\ [][TlsNext]_tlsVars

TlsTypes ==
    /\ rows \in RowsType /\ ip \in [Devices -> IPs] /\ cert \in [IPs -> Prints]
    /\ byDeviceID \in [Devices -> ObjectType \cup {NoCert}]
    /\ byIP \in [IPs -> EntryType \cup {NoCert}]
    /\ deviceIDByIP \in [IPs -> Devices \cup {NoCert}]
    /\ task \in [Workers -> TaskType \cup LoadType \cup {NoTask}]
    /\ transport \in TransportType \cup {NoTransport}
    /\ mode \in Modes

\* What an operation of each kind is on, and where it can be.
Shaped(t) ==
    /\ t.op \in {"pin", "verify", "unpin", "change"} => \E d \in Devices : t.devs = {d}
    /\ t.op \in {"unpin_group", "verify_all", "load"} => t.devs = Devices
    /\ t.op \in {"pin", "change"} => t.fp \in Prints
    /\ t.op # "autopin"
    /\ t.stage = "query" => t.op = "verify_all"
    /\ t.stage = "cache" => t.op # "verify_all"

Pointers ==
    /\ \A d \in Devices : byDeviceID[d] # NoCert => byDeviceID[d].dev = d
    /\ \A i \in IPs : byIP[i] # NoCert /\ byIP[i].shared => byDeviceID[byIP[i].dev] # NoCert
    /\ \A i \in IPs : deviceIDByIP[i] # NoCert => byIP[i] # NoCert
    /\ \A d \in Devices : rows[d] # NoCert /\ rows[d].verified => <<d, rows[d].fp>> \in approved

Past(s, d) == task[s] # NoTask /\ d \in task[s].devs /\ task[s].stage # "row"
Copy(d, r) == IF r = NoCert THEN NoCert ELSE Object(d, r.fp, r.verified)

\* What is left to do makes the cache a copy of the row.
Pending(t, d, r, o) ==
    CASE t.op = "pin" -> r # NoCert /\ r.fp = t.fp /\ r.verified = t.verify
      [] t.op = "verify" -> r # NoCert /\ o # NoCert /\ r.verified /\ r.fp = o.fp
      [] t.op = "change" -> \/ r = NoCert /\ o = NoCert
                            \/ r # NoCert /\ o # NoCert /\ r.fp = t.fp /\ ~r.verified
      [] t.op \in {"unpin", "unpin_group"} -> r = NoCert
      [] t.op = "verify_all" -> r = NoCert => o = NoCert
      [] t.op = "load" -> t.rows[d] = r /\ (r = NoCert => o = NoCert)

OneWriter(d) ==
    /\ \A s, o \in Workers : Past(s, d) /\ Past(o, d) => s = o
    /\ (\A s \in Workers : ~Past(s, d)) => byDeviceID[d] = Copy(d, rows[d])
    /\ \A s \in Workers : Past(s, d) => Pending(task[s], d, rows[d], byDeviceID[d])

Approved(d) ==
    /\ byDeviceID[d] # NoCert /\ byDeviceID[d].verified => <<d, byDeviceID[d].fp>> \in approved
    /\ \A i \in IPs : byIP[i] # NoCert /\ ~byIP[i].shared /\ byIP[i].dev = d /\ byIP[i].verified
                        => <<d, byIP[i].fp>> \in approved
    /\ \A a \in accepted : a[1] = d => a \in approved

TlsInv ==
    /\ TlsTypes /\ Pointers
    /\ \A s \in Workers : task[s] # NoTask => Shaped(task[s])
    /\ \A d \in Devices \ overlapped : OneWriter(d) /\ Approved(d)

-----------------------------------------------------------------------------
EntryOK(e) ==
    e # NoCert /\ ~e.shared /\ e.verified /\ e.dev \notin overlapped => <<e.dev, e.fp>> \in approved

(* Nothing is pinned at the start.                                         *)
LEMMA TlsStarts == TlsInit => TlsInv
<1> SUFFICES ASSUME TlsInit PROVE TlsInv
  OBVIOUS
<1>1. TlsTypes
  BY TlsAssumption DEF TlsInit, TlsTypes, RowsType, Modes
<1>2. Pointers /\ \A s \in Workers : task[s] = NoTask
  BY DEF TlsInit, Pointers
<1>3. \A d \in Devices : OneWriter(d) /\ Approved(d)
  BY <1>2 DEF TlsInit, OneWriter, Approved, Past, Copy
<1> QED BY <1>1, <1>2, <1>3 DEF TlsInv

\* An operation that begins has written nothing.
LEMMA OperationStarts ==
    ASSUME TlsInv, NEW s \in Workers, NEW t \in TaskType, Shaped(t), t.stage = "row",
           task[s] = NoTask, task' = [task EXCEPT ![s] = t],
           UNCHANGED <<rows, byDeviceID, byIP, deviceIDByIP, approved, overlapped>>
    PROVE  /\ task' \in [Workers -> TaskType \cup LoadType \cup {NoTask}]
           /\ Pointers'
           /\ \A o \in Workers : task'[o] # NoTask => Shaped(task'[o])
           /\ \A d \in Devices \ overlapped' : OneWriter(d)'
<1>1. task \in [Workers -> TaskType \cup LoadType \cup {NoTask}] /\ Pointers
  BY DEF TlsInv, TlsTypes
<1>2. \A o \in Workers, d \in Devices : Past(o, d)' <=> Past(o, d)
  BY <1>1 DEF Past
<1>3. \A o \in Workers, d \in Devices : Past(o, d) => task'[o] = task[o]
  BY <1>1 DEF Past
<1>4. \A d \in Devices \ overlapped : OneWriter(d)'
  BY <1>2, <1>3 DEF TlsInv, OneWriter
<1> QED BY <1>1, <1>4 DEF TlsInv, Pointers

(* A step that neither writes nor begins an operation.                     *)
LEMMA NoOperation ==
    ASSUME TlsInv, UNCHANGED <<rows, byDeviceID, byIP, deviceIDByIP, approved, overlapped, task>>
    PROVE  /\ Pointers'
           /\ \A o \in Workers : task'[o] # NoTask => Shaped(task'[o])
           /\ \A d \in Devices \ overlapped' : OneWriter(d)'
<1>1. \A d \in Devices \ overlapped : OneWriter(d)'
  BY DEF TlsInv, OneWriter, Past
<1> QED BY <1>1 DEF TlsInv, Pointers

\* The devices and the operator's settings are not what the property is about.
LEMMA OutsideStep ==
    ASSUME TlsInv, UNCHANGED <<rows, byDeviceID, byIP, deviceIDByIP, approved, accepted, overlapped, task>>,
           ip' \in [Devices -> IPs], cert' \in [IPs -> Prints], mode' \in Modes,
           transport' \in TransportType \cup {NoTransport}
    PROVE  TlsInv'
<1>1. TlsTypes'
  BY DEF TlsInv, TlsTypes
<1>2. \A d \in Devices \ overlapped' : Approved(d)'
  BY DEF TlsInv, Approved
<1> QED BY <1>1, <1>2, NoOperation DEF TlsInv

(* The operator's operations begin.                                        *)
LEMMA OperateStep ==
    ASSUME TlsInv, NEW s \in Workers, Operate(s) PROVE TlsInv'
<1>1. /\ rows \in RowsType /\ ip \in [Devices -> IPs] /\ cert \in [IPs -> Prints]
      /\ task[s] = NoTask
      /\ UNCHANGED <<mode, rows, ip, cert, byDeviceID, byIP, deviceIDByIP, transport, approved, accepted, overlapped>>
  BY DEF TlsInv, TlsTypes, Operate, FreeSlot
<1>2. ASSUME NEW t \in TaskType, Shaped(t), t.stage = "row", Start(s, t) PROVE TlsInv'
  <2>1. /\ task' \in [Workers -> TaskType \cup LoadType \cup {NoTask}]
        /\ Pointers'
        /\ \A o \in Workers : task'[o] # NoTask => Shaped(task'[o])
        /\ \A d \in Devices \ overlapped' : OneWriter(d)'
    BY <1>1, <1>2, OperationStarts DEF Start
  <2>2. TlsTypes'
    BY <1>1, <2>1 DEF TlsInv, TlsTypes
  <2>3. \A d \in Devices \ overlapped' : Approved(d)'
    BY <1>1 DEF TlsInv, Approved
  <2> QED BY <2>1, <2>2, <2>3 DEF TlsInv
<1>3. ASSUME NEW d \in Devices, NEW v \in BOOLEAN, PinCertFromDevice(s, d, v) PROVE TlsInv'
  <2> DEFINE t == [Task("pin", {d}) EXCEPT !.fp = cert[ip[d]], !.verify = v]
  <2>1. t \in TaskType /\ t.stage = "row" /\ Shaped(t)
    BY <1>1 DEF Task, TaskType, Shaped
  <2>2. Start(s, t)
    BY <1>3 DEF PinCertFromDevice
  <2> HIDE DEF t
  <2> QED BY <1>2, <2>1, <2>2
<1>4. ASSUME NEW op \in {"verify", "unpin"}, NEW d \in Devices, Start(s, Task(op, {d})) PROVE TlsInv'
  <2>1. Task(op, {d}) \in TaskType /\ Task(op, {d}).stage = "row" /\ Shaped(Task(op, {d}))
    BY <1>1 DEF Task, TaskType, Shaped
  <2> QED BY <1>2, <1>4, <2>1
<1>5. ASSUME NEW op \in {"unpin_group", "verify_all"}, Start(s, Task(op, Devices)) PROVE TlsInv'
  <2>1. Task(op, Devices) \in TaskType /\ Task(op, Devices).stage = "row" /\ Shaped(Task(op, Devices))
    BY <1>1 DEF Task, TaskType, Shaped
  <2> QED BY <1>2, <1>5, <2>1
<1> QED BY <1>3, <1>4, <1>5 DEF Operate, BulkLearnCerts

-----------------------------------------------------------------------------
\* The row an operation leaves of each device.
LEMMA RowsWritten ==
    ASSUME TlsInv, NEW s \in Workers, WriteRows(s)
    PROVE  LET t == task[s]
           IN  /\ t \in TaskType /\ Shaped(t) /\ t.stage = "row" /\ t # NoTask
               /\ rows' \in RowsType
               /\ \A d \in Devices \ t.devs : rows'[d] = rows[d]
               /\ \A d \in t.devs :
                    CASE t.op = "pin" -> rows'[d] # NoCert /\ rows'[d].fp = t.fp /\ rows'[d].verified = t.verify
                      [] t.op \in {"verify", "verify_all"} ->
                           /\ (rows'[d] = NoCert) <=> (rows[d] = NoCert)
                           /\ rows[d] # NoCert => rows'[d].fp = rows[d].fp /\ rows'[d].verified
                      [] t.op = "change" ->
                           /\ (rows'[d] = NoCert) <=> (rows[d] = NoCert)
                           /\ rows[d] # NoCert => rows'[d].fp = t.fp /\ ~rows'[d].verified
                      [] t.op \in {"unpin", "unpin_group"} -> rows'[d] = NoCert
<1> DEFINE t == task[s]
<1>1. t \in TaskType \cup LoadType /\ t # NoTask /\ Shaped(t) /\ rows \in RowsType /\ t.stage = "row"
  BY DEF TlsInv, TlsTypes, WriteRows, FreeSlot
<1>2. t \in TaskType
  BY <1>1 DEF LoadType
<1>3. \A fp \in Prints, v, c \in BOOLEAN : Row(fp, v, c) \in RowType /\ Row(fp, v, c) # NoCert
  BY TlsAssumption DEF Row, RowType
<1>4. \A d \in Devices : rows[d] # NoCert => rows[d].fp \in Prints /\ rows[d].verified \in BOOLEAN /\ rows[d].changed \in BOOLEAN
  BY <1>1 DEF RowsType, RowType
<1>5. CASE t.op = "pin"
  <2>1. PICK d \in Devices : t.devs = {d}
    BY <1>1, <1>5 DEF Shaped
  <2>2. (CHOOSE e \in t.devs : TRUE) = d
    BY <2>1
  <2> DEFINE c == /\ ~t.verify /\ rows[d] # NoCert
                  /\ rows[d].fp # t.fp \/ rows[d].changed
  <2>3. rows' = [rows EXCEPT ![d] = Row(t.fp, t.verify, c)]
    BY <1>5, <2>2 DEF WriteRows, PinRow
  <2>4. c \in BOOLEAN
    BY Zenon
  <2>5. t.fp \in Prints /\ t.verify \in BOOLEAN
    BY <1>1, <1>2, <1>5 DEF Shaped, TaskType
  <2> HIDE DEF c
  <2>6. /\ Row(t.fp, t.verify, c) \in RowType /\ Row(t.fp, t.verify, c) # NoCert
        /\ Row(t.fp, t.verify, c).fp = t.fp /\ Row(t.fp, t.verify, c).verified = t.verify
    BY <1>3, <2>4, <2>5 DEF Row
  <2> QED BY <1>1, <1>2, <1>5, <2>1, <2>3, <2>6 DEF RowsType
<1>6. CASE t.op \in {"verify", "verify_all"}
  <2>1. rows' = [d \in Devices |-> IF d \in t.devs /\ rows[d] # NoCert THEN Row(rows[d].fp, TRUE, FALSE) ELSE rows[d]]
    BY <1>6 DEF WriteRows, VerifyRows
  <2>2. rows' \in RowsType
    BY <1>1, <1>3, <1>4, <2>1 DEF RowsType
  <2>3. \A d \in Devices : rows[d] # NoCert => /\ Row(rows[d].fp, TRUE, FALSE) # NoCert
                                              /\ Row(rows[d].fp, TRUE, FALSE).fp = rows[d].fp
                                              /\ Row(rows[d].fp, TRUE, FALSE).verified
    BY <1>3, <1>4 DEF Row
  <2> QED BY <1>1, <1>2, <1>6, <2>1, <2>2, <2>3 DEF TaskType
<1>7. CASE t.op \in {"unpin", "unpin_group"}
  BY <1>1, <1>2, <1>7 DEF WriteRows, RowsType, TaskType
<1>8. CASE t.op = "change"
  <2>1. rows' = [d \in Devices |-> IF d \in t.devs /\ rows[d] # NoCert THEN Row(t.fp, FALSE, TRUE) ELSE rows[d]]
    BY <1>8 DEF WriteRows, recordCertChange
  <2>2. /\ Row(t.fp, FALSE, TRUE) \in RowType /\ Row(t.fp, FALSE, TRUE) # NoCert
        /\ Row(t.fp, FALSE, TRUE).fp = t.fp /\ ~Row(t.fp, FALSE, TRUE).verified
    BY <1>1, <1>3, <1>8 DEF Row, Shaped
  <2> QED BY <1>1, <1>2, <1>8, <2>1, <2>2 DEF TaskType, RowsType
<1> QED BY <1>1, <1>2, <1>5, <1>6, <1>7, <1>8 DEF TaskType, Shaped

(* The rows are written: the writer is the only one, or the device counts as overlapped.*)
LEMMA WriteRowsStep ==
    ASSUME TlsInv, NEW s \in Workers, WriteRows(s) PROVE TlsInv'
<1> DEFINE t == task[s]
<1>1. /\ t \in TaskType /\ Shaped(t) /\ t.stage = "row" /\ t # NoTask
      /\ rows' \in RowsType
      /\ \A d \in Devices \ t.devs : rows'[d] = rows[d]
  BY RowsWritten
<1>2. /\ UNCHANGED <<mode, ip, cert, byDeviceID, byIP, deviceIDByIP, transport, accepted>>
      /\ overlapped' = overlapped \cup Written(s)
      /\ approved \subseteq approved'
      /\ \A d \in Devices : rows'[d] # NoCert /\ rows'[d].verified => <<d, rows'[d].fp>> \in approved'
  <2>1. /\ UNCHANGED <<mode, ip, cert, byDeviceID, byIP, deviceIDByIP, transport, accepted>>
        /\ overlapped' = overlapped \cup Written(s)
    BY DEF WriteRows
  <2>2. approved' = approved \cup {<<d, rows'[d].fp>> : d \in {e \in Devices : rows'[e] # NoCert /\ rows'[e].verified}}
    BY Zenon DEF WriteRows
  <2> QED BY <2>1, <2>2
<1> DEFINE next == [t EXCEPT !.stage = IF t.op = "verify_all" THEN "query" ELSE "cache"]
<1>3. /\ next \in TaskType /\ Shaped(next) /\ next.stage # "row" /\ next.devs = t.devs
      /\ next.op = t.op /\ next.fp = t.fp /\ next.verify = t.verify
  BY <1>1 DEF TaskType, Shaped
<1>4. \/ /\ task' = [task EXCEPT ![s] = next]
         /\ t.op = "verify" => rows'[CHOOSE d \in t.devs : TRUE] # NoCert
      \/ /\ task' = [task EXCEPT ![s] = NoTask] /\ t.op = "verify"
         /\ rows'[CHOOSE d \in t.devs : TRUE] = NoCert
  BY DEF WriteRows
<1> HIDE DEF next
<1>5. task \in [Workers -> TaskType \cup LoadType \cup {NoTask}]
  BY DEF TlsInv, TlsTypes
<1>6. task' \in [Workers -> TaskType \cup LoadType \cup {NoTask}] /\ \A o \in Workers \ {s} : task'[o] = task[o]
  BY <1>3, <1>4, <1>5
<1>7. TlsTypes'
  BY <1>1, <1>2, <1>6 DEF TlsInv, TlsTypes
<1>8. Pointers'
  BY <1>2 DEF TlsInv, Pointers
<1>9. \A o \in Workers : task'[o] # NoTask => Shaped(task'[o])
  BY <1>3, <1>4, <1>5 DEF TlsInv
<1>10. \A d \in Devices \ overlapped' : Approved(d)'
  BY <1>2 DEF TlsInv, Approved
<1>11. ASSUME NEW d \in Devices \ overlapped' PROVE OneWriter(d)'
  <2>1. d \notin overlapped /\ OneWriter(d)
    BY <1>2 DEF TlsInv
  <2>2. \A o \in Workers \ {s} : Past(o, d)' <=> Past(o, d)
    BY <1>6 DEF Past
  <2>3. CASE d \notin t.devs
    <3>1. ~Past(s, d) /\ ~Past(s, d)'
      BY <1>1, <1>3, <1>4, <1>5, <2>3 DEF Past
    <3> QED BY <1>1, <1>2, <1>6, <2>1, <2>2, <2>3, <3>1 DEF OneWriter
  <2>4. CASE d \in t.devs
    <3>1. \A o \in Workers : ~Past(o, d)
      BY <1>1, <1>2, <2>4 DEF Past, Written
    <3>2. byDeviceID[d] = Copy(d, rows[d])
      BY <2>1, <3>1 DEF OneWriter
    <3>3. CASE /\ task' = [task EXCEPT ![s] = next]
               /\ t.op = "verify" => rows'[CHOOSE x \in t.devs : TRUE] # NoCert
      <4>1. Pending(next, d, rows'[d], byDeviceID[d])
        <5>1. rows[d] # NoCert => byDeviceID[d] # NoCert /\ byDeviceID[d].fp = rows[d].fp
          <6>1. rows[d] \in RowType \cup {NoCert}
            BY DEF TlsInv, TlsTypes, RowsType
          <6>2. ASSUME rows[d] # NoCert PROVE Object(d, rows[d].fp, rows[d].verified) \in ObjectType
            BY <6>1, <6>2 DEF Object, ObjectType, RowType
          <6> QED BY <3>2, <6>2, TlsAssumption DEF Copy, Object
        <5>2. rows[d] = NoCert => byDeviceID[d] = NoCert
          BY <3>2 DEF Copy
        <5>3. CASE t.op = "pin"
          BY <1>3, <2>4, <5>3, RowsWritten DEF Pending
        <5>4. CASE t.op = "verify"
          <6>1. PICK e \in Devices : t.devs = {e}
            BY <1>1, <5>4 DEF Shaped
          <6>2. (CHOOSE x \in t.devs : TRUE) = d
            BY <2>4, <6>1
          <6>3. rows'[d] # NoCert
            BY <3>3, <5>4, <6>2
          <6> QED BY <1>3, <2>4, <5>1, <5>4, <6>3, RowsWritten DEF Pending
        <5>5. CASE t.op = "verify_all"
          BY <1>3, <2>4, <5>2, <5>5, RowsWritten DEF Pending
        <5>6. CASE t.op = "change"
          BY <1>3, <2>4, <5>1, <5>2, <5>6, RowsWritten DEF Pending
        <5>7. CASE t.op \in {"unpin", "unpin_group"}
          BY <1>3, <2>4, <5>7, RowsWritten DEF Pending
        <5> QED BY <1>1, <5>3, <5>4, <5>5, <5>6, <5>7 DEF TaskType, Shaped
      <4>2. task'[s] = next /\ Past(s, d)'
        BY <1>3, <1>5, <2>4, <3>3, TlsAssumption DEF Past
      <4> QED BY <1>2, <2>2, <3>1, <4>1, <4>2 DEF OneWriter
    <3>4. CASE task' = [task EXCEPT ![s] = NoTask] /\ t.op = "verify" /\ rows'[CHOOSE x \in t.devs : TRUE] = NoCert
      <4>1. PICK e \in Devices : t.devs = {e}
        BY <1>1, <3>4 DEF Shaped
      <4>2. rows'[d] = NoCert
        BY <2>4, <3>4, <4>1
      <4>3. rows[d] = NoCert
        BY <2>4, <3>4, <4>2, RowsWritten
      <4>4. ~Past(s, d)'
        BY <1>5, <3>4 DEF Past
      <4> QED BY <1>2, <2>2, <3>1, <3>2, <4>2, <4>3, <4>4 DEF OneWriter
    <3> QED BY <1>4, <3>3, <3>4
  <2> QED BY <2>3, <2>4
<1> QED BY <1>7, <1>8, <1>9, <1>10, <1>11 DEF TlsInv

(* The query of loadCerts sees the rows its own update left.               *)
LEMMA LoadQueryStep ==
    ASSUME TlsInv, NEW s \in Workers, LoadQuery(s) PROVE TlsInv'
<1> DEFINE t == [op |-> "load", devs |-> task[s].devs, stage |-> "cache", rows |-> rows, ip |-> ip]
<1>1. /\ task[s] # NoTask /\ task[s].stage = "query" /\ task[s].op = "verify_all" /\ task[s].devs = Devices
      /\ task \in [Workers -> TaskType \cup LoadType \cup {NoTask}]
      /\ task' = [task EXCEPT ![s] = t]
      /\ UNCHANGED <<mode, rows, ip, cert, byDeviceID, byIP, deviceIDByIP, transport, approved, accepted, overlapped>>
  BY DEF TlsInv, TlsTypes, LoadQuery, FreeSlot, Shaped
<1>2. t \in LoadType /\ Shaped(t) /\ t.devs = Devices /\ t.stage = "cache" /\ t.op = "load" /\ t.rows = rows
  BY <1>1 DEF LoadType, Shaped, TlsInv, TlsTypes
<1> HIDE DEF t
<1>3. TlsTypes' /\ Pointers' /\ \A o \in Workers : task'[o] # NoTask => Shaped(task'[o])
  <2>1. task' \in [Workers -> TaskType \cup LoadType \cup {NoTask}]
    BY <1>1, <1>2
  <2>2. TlsTypes'
    BY <1>1, <2>1 DEF TlsInv, TlsTypes
  <2>3. Pointers'
    BY <1>1 DEF TlsInv, Pointers
  <2> QED BY <1>1, <1>2, <2>2, <2>3 DEF TlsInv
<1>4. \A d \in Devices \ overlapped' : Approved(d)'
  BY <1>1 DEF TlsInv, Approved
<1>5. ASSUME NEW d \in Devices \ overlapped PROVE OneWriter(d)'
  <2>1. OneWriter(d) /\ Past(s, d)
    BY <1>1 DEF TlsInv, Past
  <2>2. \A o \in Workers : Past(o, d)' <=> Past(o, d)
    BY <1>1, <1>2, TlsAssumption DEF Past
  <2>3. Pending(t, d, rows[d], byDeviceID[d])
    <3>1. Pending(task[s], d, rows[d], byDeviceID[d])
      BY <2>1 DEF OneWriter
    <3>2. rows[d] = NoCert => byDeviceID[d] = NoCert
      BY <1>1, <3>1 DEF Pending
    <3> QED BY <1>2, <3>2 DEF Pending
  <2> QED BY <1>1, <2>1, <2>2, <2>3 DEF OneWriter
<1> QED BY <1>1, <1>3, <1>4, <1>5 DEF TlsInv

-----------------------------------------------------------------------------
\* An address that the device's object leaves keeps what the object said.
LEMMA LeftBehind ==
    ASSUME TlsInv, NEW ds \in SUBSET Devices, NEW i \in IPs
    PROVE  /\ Left(ds)[i] \in EntryType \cup {NoCert} /\ EntryOK(Left(ds)[i])
           /\ Left(ds)[i] = NoCert <=> byIP[i] = NoCert
           /\ Left(ds)[i] # NoCert /\ Left(ds)[i].shared =>
                Left(ds)[i].dev \notin ds /\ byDeviceID[Left(ds)[i].dev] # NoCert
<1>1. byIP[i] \in EntryType \cup {NoCert} /\ (byIP[i] # NoCert /\ byIP[i].shared => byDeviceID[byIP[i].dev] # NoCert)
  BY DEF TlsInv, TlsTypes, Pointers
<1>2. \A d \in Devices : /\ byDeviceID[d] # NoCert => byDeviceID[d] \in ObjectType
                         /\ d \notin overlapped => Approved(d)
  BY DEF TlsInv, TlsTypes
<1>3. CASE byIP[i] # NoCert /\ byIP[i].shared /\ byIP[i].dev \in ds
  <2> DEFINE d == byIP[i].dev
             e == [dev |-> d, shared |-> FALSE, fp |-> byDeviceID[d].fp, verified |-> byDeviceID[d].verified]
  <2>1. Left(ds)[i] = e
    BY <1>3 DEF Left, AtIP
  <2>2. d \in Devices /\ byDeviceID[d] \in ObjectType /\ byDeviceID[d] # NoCert
    BY <1>1, <1>2, <1>3 DEF EntryType
  <2>3. e \in EntryType /\ ~e.shared
    BY <2>2 DEF EntryType, ObjectType
  <2>4. EntryOK(e)
    BY <1>2, <2>2 DEF EntryOK, Approved
  <2> HIDE DEF e
  <2> QED BY <1>3, <2>1, <2>3, <2>4, TlsAssumption
<1>4. CASE ~(byIP[i] # NoCert /\ byIP[i].shared /\ byIP[i].dev \in ds)
  <2>1. Left(ds)[i] = byIP[i]
    BY <1>4 DEF Left
  <2>2. EntryOK(byIP[i])
    BY <1>1, <1>2 DEF EntryOK, Approved, EntryType
  <2> QED BY <1>1, <1>4, <2>1, <2>2
<1> QED BY <1>3, <1>4

\* What a write of the cache leaves: the devices of the operation have a copy of
\* their row if that was all that was left to do, every address points to an
\* object or keeps what an approved one said.
ObjectsDone(t) ==
    /\ byDeviceID' \in [Devices -> ObjectType \cup {NoCert}]
    /\ \A d \in Devices : byDeviceID'[d] # NoCert => byDeviceID'[d].dev = d
    /\ \A d \in Devices \ t.devs : byDeviceID'[d] = byDeviceID[d]
    /\ \A d \in t.devs : Pending(t, d, rows[d], byDeviceID[d]) => byDeviceID'[d] = Copy(d, rows[d])

AddressesDone ==
    /\ byIP' \in [IPs -> EntryType \cup {NoCert}]
    /\ deviceIDByIP' \in [IPs -> Devices \cup {NoCert}]
    /\ \A i \in IPs :
         /\ EntryOK(byIP'[i])
         /\ byIP'[i] # NoCert /\ byIP'[i].shared => byDeviceID'[byIP'[i].dev] # NoCert
         /\ deviceIDByIP'[i] # NoCert => byIP'[i] # NoCert

\* The types the cache starts from, and the entry that points to an object.
LEMMA CacheTypes ==
    ASSUME TlsInv
    PROVE  /\ byDeviceID \in [Devices -> ObjectType \cup {NoCert}]
           /\ \A d \in Devices : byDeviceID[d] # NoCert => byDeviceID[d].dev = d
           /\ byIP \in [IPs -> EntryType \cup {NoCert}]
           /\ deviceIDByIP \in [IPs -> Devices \cup {NoCert}]
           /\ \A i \in IPs : /\ deviceIDByIP[i] # NoCert => byIP[i] # NoCert
                             /\ EntryOK(byIP[i])
                             /\ byIP[i] # NoCert /\ byIP[i].shared => byDeviceID[byIP[i].dev] # NoCert
<1>1. \A i \in IPs : EntryOK(byIP[i])
  <2> TAKE i \in IPs
  <2>1. byIP[i] \in EntryType \cup {NoCert}
    BY DEF TlsInv, TlsTypes
  <2>2. \A d \in Devices \ overlapped : Approved(d)
    BY DEF TlsInv
  <2> QED BY <2>1, <2>2 DEF EntryOK, Approved, EntryType
<1> QED BY <1>1 DEF TlsInv, TlsTypes, Pointers

(* A cached certificate.                                                   *)
LEMMA ObjectFacts ==
    ASSUME NEW d \in Devices, NEW fp \in Prints, NEW v \in BOOLEAN
    PROVE  /\ Object(d, fp, v) \in ObjectType /\ Object(d, fp, v) # NoCert
           /\ Object(d, fp, v).dev = d /\ Object(d, fp, v).fp = fp /\ Object(d, fp, v).verified = v
BY TlsAssumption DEF Object, ObjectType

(* An entry that points to the object of a device.                         *)
LEMMA SharedFacts ==
    ASSUME NEW d \in Devices
    PROVE  /\ Shared(d) \in EntryType /\ Shared(d) # NoCert /\ EntryOK(Shared(d))
           /\ Shared(d).dev = d
<1>1. Shared(d) \in EntryType
  BY DEF Shared, EntryType
<1>2. Shared(d).dev = d /\ Shared(d).shared
  BY DEF Shared
<1> QED BY <1>1, <1>2, TlsAssumption DEF EntryOK

(* A pin replaces the object of its device.                                *)
LEMMA PinDone ==
    ASSUME TlsInv, NEW t \in TaskType, Shaped(t), t.op = "pin", PinCache(t)
    PROVE  ObjectsDone(t) /\ AddressesDone
<1>1. PICK d \in Devices : t.devs = {d}
  BY DEF Shaped
<1>2. (CHOOSE e \in t.devs : TRUE) = d
  BY <1>1
<1>3. /\ byDeviceID' = [byDeviceID EXCEPT ![d] = Object(d, t.fp, t.verify)]
      /\ byIP' = [Left({d}) EXCEPT ![t.ip[d]] = Shared(d)]
      /\ deviceIDByIP' = [deviceIDByIP EXCEPT ![t.ip[d]] = d]
  BY <1>2 DEF PinCache
<1>4. t.fp \in Prints /\ t.verify \in BOOLEAN /\ t.ip \in [Devices -> IPs]
  BY DEF Shaped, TaskType
<1>5. Object(d, t.fp, t.verify) \in ObjectType /\ Object(d, t.fp, t.verify) # NoCert /\ Object(d, t.fp, t.verify).dev = d
  BY <1>4, ObjectFacts
<1>6. Pending(t, d, rows[d], byDeviceID[d]) => Object(d, t.fp, t.verify) = Copy(d, rows[d])
  BY DEF Pending, Copy
<1>7. ObjectsDone(t)
  BY <1>1, <1>3, <1>5, <1>6, CacheTypes DEF ObjectsDone
<1>8. DOMAIN Left({d}) = IPs /\ Left({d}) = [i \in IPs |-> Left({d})[i]]
  BY DEF Left
<1>9. \A i \in IPs : byIP'[i] = IF i = t.ip[d] THEN Shared(d) ELSE Left({d})[i]
  BY <1>3, <1>4, <1>8
<1>10. DOMAIN byIP' = IPs /\ byIP' = [i \in IPs |-> byIP'[i]]
  BY <1>3, <1>8
<1>11. \A i \in IPs :
         /\ byIP'[i] \in EntryType \cup {NoCert} /\ EntryOK(byIP'[i])
         /\ byIP'[i] # NoCert /\ byIP'[i].shared => byDeviceID'[byIP'[i].dev] # NoCert
         /\ deviceIDByIP'[i] # NoCert => byIP'[i] # NoCert
  <2> TAKE i \in IPs
  <2>1. CASE i = t.ip[d]
    <3>1. byIP'[i] = Shared(d)
      BY <1>9, <2>1
    <3>2. byDeviceID'[d] # NoCert
      BY <1>3, <1>5, CacheTypes
    <3> QED BY <3>1, <3>2, SharedFacts
  <2>2. CASE i # t.ip[d]
    <3>1. byIP'[i] = Left({d})[i] /\ deviceIDByIP'[i] = deviceIDByIP[i]
      BY <1>3, <1>9, <2>2, CacheTypes
    <3>2. byIP'[i] # NoCert /\ byIP'[i].shared => byIP'[i].dev \in Devices \ {d} /\ byDeviceID[byIP'[i].dev] # NoCert
      BY <3>1, LeftBehind DEF EntryType
    <3>3. \A e \in Devices \ {d} : byDeviceID'[e] = byDeviceID[e]
      BY <1>3, CacheTypes
    <3> QED BY <3>1, <3>2, <3>3, LeftBehind, CacheTypes
  <2> QED BY <2>1, <2>2
<1>12. deviceIDByIP' \in [IPs -> Devices \cup {NoCert}]
  BY <1>3, CacheTypes
<1>13. byIP' \in [IPs -> EntryType \cup {NoCert}]
  BY <1>10, <1>11
<1> QED BY <1>7, <1>11, <1>12, <1>13 DEF AddressesDone

(* A verification or a change is made in the object.                       *)
LEMMA InPlaceDone ==
    ASSUME TlsInv, NEW t \in TaskType, Shaped(t), t.op \in {"verify", "change"}, InPlace(t)
    PROVE  ObjectsDone(t) /\ AddressesDone
<1>1. /\ byDeviceID' = [d \in Devices |->
           IF d \notin t.devs \/ byDeviceID[d] = NoCert THEN byDeviceID[d]
           ELSE IF t.op = "verify" THEN Object(d, byDeviceID[d].fp, TRUE) ELSE Object(d, t.fp, FALSE)]
      /\ UNCHANGED <<byIP, deviceIDByIP>>
  BY DEF InPlace
<1>2. \A d \in Devices : byDeviceID[d] # NoCert => byDeviceID[d].fp \in Prints
  BY CacheTypes DEF ObjectType
<1>3. \A d \in Devices : byDeviceID'[d] =
        IF d \notin t.devs \/ byDeviceID[d] = NoCert THEN byDeviceID[d]
        ELSE IF t.op = "verify" THEN Object(d, byDeviceID[d].fp, TRUE) ELSE Object(d, t.fp, FALSE)
  BY <1>1
<1>4. t.op = "change" => t.fp \in Prints
  BY DEF Shaped
<1>5. \A d \in Devices : /\ byDeviceID'[d] \in ObjectType \cup {NoCert}
                         /\ byDeviceID'[d] # NoCert => byDeviceID'[d].dev = d
                         /\ byDeviceID'[d] = NoCert <=> byDeviceID[d] = NoCert
  <2> TAKE d \in Devices
  <2>1. CASE d \notin t.devs \/ byDeviceID[d] = NoCert
    <3>1. byDeviceID'[d] = byDeviceID[d]
      BY <1>3, <2>1
    <3>2. byDeviceID[d] \in ObjectType \cup {NoCert} /\ (byDeviceID[d] # NoCert => byDeviceID[d].dev = d)
      BY CacheTypes
    <3> QED BY <3>1, <3>2
  <2>2. CASE d \in t.devs /\ byDeviceID[d] # NoCert /\ t.op = "verify"
    <3>1. byDeviceID[d].fp \in Prints
      BY <1>2, <2>2
    <3>2. /\ Object(d, byDeviceID[d].fp, TRUE) \in ObjectType /\ Object(d, byDeviceID[d].fp, TRUE) # NoCert
          /\ Object(d, byDeviceID[d].fp, TRUE).dev = d
      BY <3>1, ObjectFacts
    <3> QED BY <1>3, <2>2, <3>2
  <2>3. CASE d \in t.devs /\ byDeviceID[d] # NoCert /\ t.op = "change"
    <3>1. /\ Object(d, t.fp, FALSE) \in ObjectType /\ Object(d, t.fp, FALSE) # NoCert
          /\ Object(d, t.fp, FALSE).dev = d
      BY <1>4, <2>3, ObjectFacts
    <3> QED BY <1>3, <2>3, <3>1
  <2> QED BY <2>1, <2>2, <2>3
<1>6. ASSUME NEW d \in Devices, d \in t.devs, Pending(t, d, rows[d], byDeviceID[d])
      PROVE  byDeviceID'[d] = Copy(d, rows[d])
  <2>1. rows[d] # NoCert => rows[d].verified \in BOOLEAN
    BY DEF TlsInv, TlsTypes, RowsType, RowType
  <2> QED BY <1>3, <1>6, <2>1 DEF Pending, Copy
<1>7. byDeviceID' \in [Devices -> ObjectType \cup {NoCert}]
  BY <1>1, <1>5
<1>8. t.devs \subseteq Devices
  BY DEF TaskType
<1>9. ObjectsDone(t)
  BY <1>3, <1>5, <1>6, <1>7, <1>8 DEF ObjectsDone
<1>10. \A i \in IPs : byIP[i] # NoCert => byIP[i].dev \in Devices
  BY CacheTypes DEF EntryType
<1> QED BY <1>1, <1>5, <1>9, <1>10, CacheTypes DEF AddressesDone

(* An unpin forgets the object of its devices.                             *)
LEMMA UnpinDone ==
    ASSUME TlsInv, NEW t \in TaskType, Shaped(t), t.op \in {"unpin", "unpin_group"}, UnpinCache(t)
    PROVE  ObjectsDone(t) /\ AddressesDone
<1>1. byDeviceID' = [d \in Devices |-> IF d \in t.devs THEN NoCert ELSE byDeviceID[d]]
  BY DEF UnpinCache
<1>2. t.devs \subseteq Devices
  BY DEF TaskType
<1>3. \A d \in t.devs : Pending(t, d, rows[d], byDeviceID[d]) => rows[d] = NoCert
  BY DEF Pending
<1>4. ObjectsDone(t)
  BY <1>1, <1>2, <1>3, CacheTypes DEF ObjectsDone, Copy
<1>5. PICK gone \in SUBSET IPs :
        /\ byIP' = [i \in IPs |-> IF i \in gone THEN NoCert ELSE Left(t.devs)[i]]
        /\ deviceIDByIP' = [i \in IPs |-> IF i \in gone THEN NoCert ELSE deviceIDByIP[i]]
  BY DEF UnpinCache
<1>6. \A i \in IPs :
        /\ byIP'[i] \in EntryType \cup {NoCert} /\ EntryOK(byIP'[i])
        /\ byIP'[i] # NoCert /\ byIP'[i].shared => byDeviceID'[byIP'[i].dev] # NoCert
        /\ deviceIDByIP'[i] # NoCert => byIP'[i] # NoCert
  <2> TAKE i \in IPs
  <2>1. CASE i \in gone
    BY <1>5, <2>1 DEF EntryOK
  <2>2. CASE i \notin gone
    <3>1. byIP'[i] = Left(t.devs)[i] /\ deviceIDByIP'[i] = deviceIDByIP[i]
      BY <1>5, <2>2
    <3>2. byIP'[i] # NoCert /\ byIP'[i].shared =>
            byIP'[i].dev \in Devices \ t.devs /\ byDeviceID[byIP'[i].dev] # NoCert
      BY <1>2, <3>1, LeftBehind DEF EntryType
    <3> QED BY <1>1, <1>2, <3>1, <3>2, LeftBehind, CacheTypes
  <2> QED BY <2>1, <2>2
<1>7. byIP' \in [IPs -> EntryType \cup {NoCert}] /\ deviceIDByIP' \in [IPs -> Devices \cup {NoCert}]
  BY <1>5, <1>6, CacheTypes
<1> QED BY <1>4, <1>6, <1>7 DEF AddressesDone

(* loadCerts replaces the object of every device with a row.               *)
LEMMA LoadDone ==
    ASSUME TlsInv, NEW t \in LoadType, Shaped(t), loadCerts(t)
    PROVE  ObjectsDone(t) /\ AddressesDone
<1> DEFINE loaded == {d \in Devices : t.rows[d] # NoCert}
<1>1. /\ byDeviceID' = [d \in Devices |-> IF d \in loaded THEN Object(d, t.rows[d].fp, t.rows[d].verified) ELSE byDeviceID[d]]
      /\ byIP' = [i \in IPs |-> IF \E d \in loaded : t.ip[d] = i THEN Shared(CHOOSE d \in loaded : t.ip[d] = i)
                                ELSE Left(loaded)[i]]
      /\ deviceIDByIP' = [i \in IPs |-> IF \E d \in loaded : t.ip[d] = i THEN CHOOSE d \in loaded : t.ip[d] = i
                                        ELSE deviceIDByIP[i]]
  BY DEF loadCerts
<1>2. t.op = "load" /\ t.devs = Devices /\ t.rows \in RowsType
  BY DEF LoadType, Shaped
<1>3. \A d \in loaded : t.rows[d].fp \in Prints /\ t.rows[d].verified \in BOOLEAN
  BY <1>2 DEF RowsType, RowType
<1>4. \A d \in loaded : /\ Object(d, t.rows[d].fp, t.rows[d].verified) \in ObjectType
                        /\ Object(d, t.rows[d].fp, t.rows[d].verified) # NoCert
                        /\ Object(d, t.rows[d].fp, t.rows[d].verified).dev = d
  BY <1>3, ObjectFacts
<1>5. \A d \in Devices : Pending(t, d, rows[d], byDeviceID[d]) =>
        byDeviceID'[d] = Copy(d, rows[d])
  BY <1>1, <1>2 DEF Pending, Copy
<1>6. ObjectsDone(t)
  <2>1. \A d \in Devices : /\ byDeviceID'[d] \in ObjectType \cup {NoCert}
                           /\ byDeviceID'[d] # NoCert => byDeviceID'[d].dev = d
    BY <1>1, <1>4, CacheTypes
  <2>2. byDeviceID' \in [Devices -> ObjectType \cup {NoCert}]
    BY <1>1, <2>1
  <2> QED BY <1>2, <1>5, <2>1, <2>2 DEF ObjectsDone
<1>7. \A i \in IPs :
        /\ byIP'[i] \in EntryType \cup {NoCert} /\ EntryOK(byIP'[i])
        /\ byIP'[i] # NoCert /\ byIP'[i].shared => byDeviceID'[byIP'[i].dev] # NoCert
        /\ deviceIDByIP'[i] # NoCert => byIP'[i] # NoCert
        /\ deviceIDByIP'[i] \in Devices \cup {NoCert}
  <2> TAKE i \in IPs
  <2>1. CASE \E d \in loaded : t.ip[d] = i
    <3> DEFINE e == CHOOSE d \in loaded : t.ip[d] = i
    <3>1. e \in loaded /\ byIP'[i] = Shared(e) /\ deviceIDByIP'[i] = e
      BY <1>1, <2>1
    <3> HIDE DEF e
    <3>2. byDeviceID'[e] # NoCert
      BY <1>1, <1>4, <3>1
    <3> QED BY <3>1, <3>2, SharedFacts
  <2>2. CASE ~\E d \in loaded : t.ip[d] = i
    <3>1. byIP'[i] = Left(loaded)[i] /\ deviceIDByIP'[i] = deviceIDByIP[i]
      BY <1>1, <2>2
    <3>2. byIP'[i] # NoCert /\ byIP'[i].shared =>
            byIP'[i].dev \in Devices \ loaded /\ byDeviceID[byIP'[i].dev] # NoCert
      BY <3>1, LeftBehind DEF EntryType
    <3>3. loaded \in SUBSET Devices
      OBVIOUS
    <3> HIDE DEF loaded
    <3> QED BY <1>1, <3>1, <3>2, <3>3, LeftBehind, CacheTypes
  <2> QED BY <2>1, <2>2
<1>8. byIP' \in [IPs -> EntryType \cup {NoCert}] /\ deviceIDByIP' \in [IPs -> Devices \cup {NoCert}]
  BY <1>1, <1>7
<1> QED BY <1>6, <1>7, <1>8 DEF AddressesDone

(* The cache is written: the device has a copy of its row again.           *)
LEMMA WriteCacheStep ==
    ASSUME TlsInv, NEW s \in Workers, WriteCache(s) PROVE TlsInv'
<1> DEFINE t == task[s]
<1>1. /\ t \in TaskType \cup LoadType /\ t # NoTask /\ Shaped(t) /\ t.stage = "cache"
      /\ task' = [task EXCEPT ![s] = NoTask]
      /\ task \in [Workers -> TaskType \cup LoadType \cup {NoTask}]
      /\ UNCHANGED <<mode, rows, ip, cert, transport, approved, accepted, overlapped>>
  BY DEF TlsInv, TlsTypes, WriteCache, FreeSlot, Start
<1>2. ObjectsDone(t) /\ AddressesDone
  <2>1. CASE t \in LoadType
    <3>1. loadCerts(t)
      BY <2>1 DEF WriteCache, LoadType
    <3> QED BY <1>1, <2>1, <3>1, LoadDone
  <2>2. CASE t \in TaskType
    <3>1. t.op \in {"pin", "verify", "change", "unpin", "unpin_group"}
      BY <1>1, <2>2 DEF Shaped, TaskType
    <3>2. CASE t.op = "pin"
      BY <1>1, <2>2, <3>2, PinDone DEF WriteCache
    <3>3. CASE t.op \in {"verify", "change"}
      BY <1>1, <2>2, <3>3, InPlaceDone DEF WriteCache
    <3>4. CASE t.op \in {"unpin", "unpin_group"}
      BY <1>1, <2>2, <3>4, UnpinDone DEF WriteCache
    <3> QED BY <3>1, <3>2, <3>3, <3>4
  <2> QED BY <1>1, <2>1, <2>2
<1> HIDE DEF t
<1>3. TlsTypes'
  BY <1>1, <1>2 DEF TlsInv, TlsTypes, ObjectsDone, AddressesDone
<1>4. Pointers'
  BY <1>1, <1>2 DEF TlsInv, Pointers, ObjectsDone, AddressesDone
<1>5. \A o \in Workers : task'[o] # NoTask => Shaped(task'[o])
  BY <1>1 DEF TlsInv
<1>6. ASSUME NEW d \in Devices \ overlapped PROVE OneWriter(d)' /\ Approved(d)'
  <2>1. OneWriter(d) /\ Approved(d)
    BY DEF TlsInv
  <2>2. ~Past(s, d)' /\ \A o \in Workers \ {s} : task'[o] = task[o] /\ (Past(o, d)' <=> Past(o, d))
    BY <1>1 DEF Past
  <2>3. CASE d \in t.devs
    <3>1. Past(s, d)
      BY <1>1, <2>3 DEF Past, t
    <3>2. byDeviceID'[d] = Copy(d, rows[d])
      <4>1. Pending(t, d, rows[d], byDeviceID[d])
        BY <2>1, <3>1 DEF OneWriter, t
      <4> QED BY <1>2, <2>3, <4>1 DEF ObjectsDone
    <3>3. \A o \in Workers : ~Past(o, d)'
      BY <2>1, <2>2, <3>1 DEF OneWriter
    <3>4. byDeviceID'[d] # NoCert /\ byDeviceID'[d].verified => <<d, byDeviceID'[d].fp>> \in approved
      <4>1. rows[d] # NoCert /\ rows[d].verified => <<d, rows[d].fp>> \in approved
        BY DEF TlsInv, Pointers
      <4> QED BY <3>2, <4>1 DEF Copy, Object
    <3> QED BY <1>1, <1>2, <2>1, <3>2, <3>3, <3>4 DEF OneWriter, Approved, AddressesDone, EntryOK
  <2>4. CASE d \notin t.devs
    <3>1. byDeviceID'[d] = byDeviceID[d]
      BY <1>2, <2>4 DEF ObjectsDone
    <3>2. ~Past(s, d)
      BY <2>4 DEF Past, t
    <3> QED BY <1>1, <1>2, <2>1, <2>2, <3>1, <3>2 DEF OneWriter, Approved, AddressesDone, EntryOK
  <2> QED BY <2>3, <2>4
<1> QED BY <1>1, <1>3, <1>4, <1>5, <1>6 DEF TlsInv

-----------------------------------------------------------------------------
\* A handshake lets through what an entry with an approved certificate says.
LEMMA HandshakeStep == TlsInv /\ Handshake => TlsInv'
<1> SUFFICES ASSUME TlsInv, Handshake PROVE TlsInv'
  OBVIOUS
<1>1. /\ transport \in TransportType /\ transport' = NoTransport
      /\ UNCHANGED <<mode, rows, ip, cert, byDeviceID, byIP, deviceIDByIP, approved, overlapped>>
      /\ ip \in [Devices -> IPs] /\ cert \in [IPs -> Prints]
  BY DEF TlsInv, TlsTypes, Handshake
<1>2. /\ transport.kind = "device" => transport.key \in Devices
      /\ transport.kind # "device" => transport.kind = "ip" /\ transport.key \in IPs
  BY <1>1 DEF TransportType
<1>3. Presented \in Prints
  BY <1>1, <1>2 DEF Presented
<1>4. \A d \in Devices : byDeviceID[d] # NoCert =>
        /\ byDeviceID[d].dev = d
        /\ byDeviceID[d].verified /\ d \notin overlapped => <<d, byDeviceID[d].fp>> \in approved
  BY DEF TlsInv, Approved, Pointers
<1>5. Cached # NoCert =>
        /\ Cached.dev \in Devices
        /\ Cached.verified /\ Cached.dev \notin overlapped => <<Cached.dev, Cached.fp>> \in approved
  <2>1. CASE transport.kind = "device"
    BY <1>2, <1>4, <2>1 DEF Cached
  <2>2. CASE transport.kind # "device" /\ ~(byIP[transport.key] # NoCert /\ byIP[transport.key].shared)
    <3>1. Cached = byIP[transport.key] /\ transport.key \in IPs
      BY <1>2, <2>2 DEF Cached, AtIP
    <3> QED BY <2>2, <3>1, CacheTypes DEF EntryOK, EntryType
  <2>3. CASE transport.kind # "device" /\ byIP[transport.key] # NoCert /\ byIP[transport.key].shared
    <3>1. Cached = byDeviceID[byIP[transport.key].dev] /\ transport.key \in IPs
      BY <1>2, <2>3 DEF Cached, AtIP
    <3>2. byIP[transport.key].dev \in Devices
      BY <2>3, <3>1, CacheTypes DEF EntryType
    <3> QED BY <1>4, <3>1, <3>2
  <2> QED BY <2>1, <2>2, <2>3
<1>6. ~FirstUse
  <2> SUFFICES ASSUME FirstUse PROVE FALSE
    OBVIOUS
  <2>1. transport.key \in IPs /\ Cached = AtIP(transport.key) /\ deviceIDByIP[transport.key] # NoCert /\ Cached = NoCert
    BY <1>2 DEF FirstUse, Cached
  <2>2. byIP[transport.key] # NoCert
    BY <2>1, CacheTypes
  <2> QED BY <2>1, <2>2, CacheTypes DEF AtIP
<1>7. \A d \in Devices \ overlapped : \A a \in accepted' : a[1] = d => a \in approved
  <2>1. \A d \in Devices \ overlapped : \A a \in accepted : a[1] = d => a \in approved
    BY DEF TlsInv, Approved
  <2>2. \/ accepted' = accepted
        \/ /\ accepted' = accepted \cup {<<Cached.dev, Presented>>}
           /\ Cached # NoCert /\ Cached.verified /\ Cached.fp = Presented
    BY DEF Handshake
  <2> QED BY <1>5, <2>1, <2>2
<1>8. \A d \in Devices \ overlapped' : Approved(d)'
  BY <1>1, <1>7 DEF TlsInv, Approved
<1>9. CASE UNCHANGED task
  <2>1. TlsTypes'
    BY <1>1, <1>9 DEF TlsInv, TlsTypes
  <2> QED BY <1>1, <1>8, <1>9, <2>1, NoOperation DEF TlsInv
<1>10. CASE Changed /\ Background("change", Cached.dev)
  <2> DEFINE t == [Task("change", {Cached.dev}) EXCEPT !.fp = Presented]
  <2>1. PICK s \in Workers : FreeSlot(s) /\ Start(s, t)
    BY <1>10 DEF Background
  <2>2. Cached.dev \in Devices
    BY <1>5, <1>10 DEF Changed
  <2>3. t \in TaskType /\ t.stage = "row" /\ Shaped(t)
    BY <1>1, <1>3, <2>2 DEF Task, TaskType, Shaped
  <2> HIDE DEF t
  <2>4. /\ task' \in [Workers -> TaskType \cup LoadType \cup {NoTask}]
        /\ Pointers'
        /\ \A o \in Workers : task'[o] # NoTask => Shaped(task'[o])
        /\ \A d \in Devices \ overlapped' : OneWriter(d)'
    BY <1>1, <2>1, <2>3, OperationStarts DEF Start, FreeSlot
  <2>5. TlsTypes'
    BY <1>1, <2>4 DEF TlsInv, TlsTypes
  <2> QED BY <1>8, <2>4, <2>5 DEF TlsInv
<1> QED BY <1>6, <1>9, <1>10 DEF Handshake

(* Every step keeps the invariant.                                         *)
LEMMA TlsStep == TlsInv /\ [TlsNext]_tlsVars => TlsInv'
<1> SUFFICES ASSUME TlsInv, [TlsNext]_tlsVars PROVE TlsInv'
  OBVIOUS
<1>1. /\ ip \in [Devices -> IPs] /\ cert \in [IPs -> Prints] /\ mode \in Modes
      /\ transport \in TransportType \cup {NoTransport}
  BY DEF TlsInv, TlsTypes
<1>2. ASSUME NEW m \in Modes, SetMode(m) PROVE TlsInv'
  BY <1>1, <1>2, OutsideStep DEF SetMode
<1>3. ASSUME NEW i \in IPs, NEW fp \in Prints, Renew(i, fp) PROVE TlsInv'
  BY <1>1, <1>3, OutsideStep DEF Renew
<1>4. ASSUME NEW i \in IPs, NEW d \in Devices, Readdress(d, i) PROVE TlsInv'
  BY <1>1, <1>4, OutsideStep DEF Readdress
<1>5. ASSUME NEW i \in IPs, GetTransport("ip", i) PROVE TlsInv'
  BY <1>1, <1>5, OutsideStep DEF GetTransport, TransportType
<1>6. ASSUME NEW d \in Devices, GetTransport("device", d) PROVE TlsInv'
  BY <1>1, <1>6, OutsideStep DEF GetTransport, TransportType
<1>7. CASE UNCHANGED tlsVars
  BY <1>1, <1>7, OutsideStep DEF tlsVars
<1> QED
  BY <1>2, <1>3, <1>4, <1>5, <1>6, <1>7, HandshakeStep, OperateStep, WriteRowsStep, LoadQueryStep, WriteCacheStep
  DEF TlsNext

\* Where no two writers met on a device, the cache a handshake trusts follows
\* the row an operator sees, and a strict handshake lets through nothing an
\* operator has not approved for the device, whatever certificates are renewed
\* and addresses change hands meanwhile (internal/tlsutil/manager.go).
THEOREM CacheIsTrusted == TlsSpec => []TrustFollowsRows
<1>1. TlsInv => TrustFollowsRows
  <2> SUFFICES ASSUME TlsInv, NEW d \in Devices \ overlapped
               PROVE  /\ InFlight(d) \/ byDeviceID[d] = Copy(d, rows[d])
                      /\ \A a \in accepted : a[1] = d => a \in approved
    BY DEF TrustFollowsRows, Copy
  <2>1. OneWriter(d) /\ Approved(d)
    BY DEF TlsInv
  <2> QED BY <2>1 DEF OneWriter, Approved, InFlight, Past, FreeSlot
<1> QED BY TlsStarts, TlsStep, <1>1, PTL DEF TlsSpec

-----------------------------------------------------------------------------
(* The debug console.                                                      *)
LogEntry == [n : Nat, size : Nat \ {0}]

\* g holds the running sums of the sizes in s.
IsSums(s, g) ==
    /\ g \in [0..Len(s) -> Int] /\ g[0] = 0
    /\ \A i \in 1..Len(s) : g[i] = g[i - 1] + s[i].size

\* Induction: a set of counterexamples that is not empty has a least one.
LEMMA LeastOf ==
    ASSUME NEW S \in SUBSET Nat, S # {}
    PROVE  \E x \in S : \A y \in S : x <= y
<1> DEFINE R == OpToRel(<, Nat)
<1>1. IsWellFoundedOn(R, Nat)
  BY NatLessThanWellFounded
<1> HIDE DEF R
<1>2. PICK x \in S : \A y \in S : ~(<<y, x>> \in R)
  BY <1>1, WFMin
<1>3. \A a, b \in Nat : <<b, a>> \in R <=> b < a
  BY DEF R, OpToRel
<1>4. \A y \in S : x \in Nat /\ y \in Nat /\ ~(y < x)
  BY <1>2, <1>3
<1> QED BY <1>4

\* Every sequence of entries has its running sums.
LEMMA SumsExist ==
    ASSUME NEW s \in Seq(LogEntry)
    PROVE  \E g : IsSums(s, g)
<1> DEFINE Up(n) == \E g \in [0..n -> Int] : /\ g[0] = 0
                                             /\ \A i \in 1..n : g[i] = g[i - 1] + s[i].size
           Bad == {n \in 0..Len(s) : ~Up(n)}
<1>1. Up(0)
  <2>1. [i \in 0..0 |-> 0] \in [0..0 -> Int] /\ [i \in 0..0 |-> 0][0] = 0
    OBVIOUS
  <2>2. \A i \in 1..0 : FALSE
    OBVIOUS
  <2> QED BY <2>1, <2>2
<1>2. ASSUME NEW n \in 0..(Len(s) - 1), Up(n) PROVE Up(n + 1)
  <2>1. PICK g \in [0..n -> Int] : g[0] = 0 /\ \A i \in 1..n : g[i] = g[i - 1] + s[i].size
    BY <1>2
  <2>2. n \in Nat /\ n + 1 \in 1..Len(s) /\ s[n + 1].size \in Int
    <3>1. Len(s) \in Nat /\ n \in Nat /\ n + 1 \in 1..Len(s)
      OBVIOUS
    <3>2. s[n + 1] \in LogEntry
      BY <3>1
    <3> QED BY <3>1, <3>2 DEF LogEntry
  <2> DEFINE h == [i \in 0..(n + 1) |-> IF i <= n THEN g[i] ELSE g[n] + s[n + 1].size]
  <2>3. h \in [0..(n + 1) -> Int] /\ h[0] = 0
    BY <2>1, <2>2
  <2>4. \A i \in 1..(n + 1) : h[i] = h[i - 1] + s[i].size
    BY <2>1, <2>2
  <2> HIDE DEF h
  <2> QED BY <2>3, <2>4
<1> HIDE DEF Up
<1>3. Bad = {}
  <2> SUFFICES ASSUME Bad # {} PROVE FALSE
    OBVIOUS
  <2>1. Bad \in SUBSET Nat
    OBVIOUS
  <2>2. PICK x \in Bad : \A y \in Bad : x <= y
    BY <2>1, LeastOf
  <2>3. x # 0
    BY <1>1
  <2>4. x - 1 \in 0..(Len(s) - 1) /\ x - 1 \notin Bad /\ (x - 1) + 1 = x
    BY <2>2, <2>3
  <2>5. Up(x - 1)
    BY <2>4
  <2>6. Up((x - 1) + 1)
    BY <1>2, <2>4, <2>5
  <2> QED BY <2>4, <2>6
<1>4. Up(Len(s))
  BY <1>3
<1> QED BY <1>4 DEF Up, IsSums

\* Total is the last of the running sums, whichever function holds them.
LEMMA TotalIsSum ==
    ASSUME NEW s, Len(s) \in Nat, NEW g, IsSums(s, g)
    PROVE  Total(s) = g[Len(s)]
<1> DEFINE Step(f) == [i \in 0..Len(s) |-> IF i = 0 THEN 0 ELSE f[i - 1] + s[i].size]
           F == CHOOSE f : f = Step(f)
           Bad == {i \in 0..Len(s) : F[i] # g[i]}
<1>1. g = Step(g)
  BY DEF IsSums
<1>2. F = Step(F)
  BY <1>1
<1>3. Total(s) = F[Len(s)]
  BY DEF Total
<1>4. F[0] = 0 /\ \A i \in 1..Len(s) : F[i] = F[i - 1] + s[i].size
  <2> HIDE DEF F
  <2> QED BY <1>2
<1> HIDE DEF F, Step
<1>5. Bad = {}
  <2> SUFFICES ASSUME Bad # {} PROVE FALSE
    OBVIOUS
  <2>1. Bad \in SUBSET Nat
    OBVIOUS
  <2>2. PICK x \in Bad : \A y \in Bad : x <= y
    BY <2>1, LeastOf
  <2>3. x # 0
    BY <1>4 DEF IsSums
  <2>4. x \in 1..Len(s) /\ x - 1 \in 0..Len(s) /\ x - 1 \notin Bad
    BY <2>2, <2>3
  <2>5. F[x - 1] = g[x - 1]
    BY <2>4
  <2> QED BY <1>4, <2>2, <2>4, <2>5 DEF IsSums
<1> QED BY <1>3, <1>5

\* Every entry has a size, so the sums grow.
LEMMA SumsGrow ==
    ASSUME NEW s \in Seq(LogEntry), NEW g, IsSums(s, g),
           NEW i \in 0..Len(s), NEW j \in i..Len(s)
    PROVE  g[i] <= g[j] /\ (i < j => g[i] < g[j])
<1> DEFINE Bad == {n \in i..Len(s) : ~(g[i] <= g[n] /\ (i < n => g[i] < g[n]))}
<1>1. Len(s) \in Nat /\ \A n \in 0..Len(s) : g[n] \in Int
  <2>1. Len(s) \in Nat
    OBVIOUS
  <2>2. g \in [0..Len(s) -> Int]
    BY DEF IsSums
  <2> HIDE DEF Bad
  <2> QED BY <2>1, <2>2
<1>2. Bad = {}
  <2> SUFFICES ASSUME Bad # {} PROVE FALSE
    OBVIOUS
  <2>1. Bad \in SUBSET Nat
    BY <1>1
  <2>2. PICK x \in Bad : \A y \in Bad : x <= y
    BY <2>1, LeastOf
  <2>3. x # i
    BY <1>1
  <2>4. x \in 1..Len(s) /\ x - 1 \in i..Len(s) /\ x - 1 \in 0..Len(s) /\ x - 1 \notin Bad
    BY <1>1, <2>2, <2>3
  <2>5. g[i] <= g[x - 1]
    BY <2>4
  <2>6. s[x] \in LogEntry
    BY <1>1, <2>4
  <2>7. s[x].size \in Nat \ {0}
    BY <2>6 DEF LogEntry
  <2>8. g[x] = g[x - 1] + s[x].size
    BY <2>4 DEF IsSums
  <2>9. g[x - 1] \in Int /\ g[i] \in Int /\ ~(g[i] <= g[x] /\ (i < x => g[i] < g[x]))
    BY <1>1, <2>2, <2>4
  <2> HIDE DEF Bad
  <2> QED BY <2>5, <2>7, <2>8, <2>9
<1> QED BY <1>2

\* A slice weighs the difference of two running sums.
LEMMA SliceTotal ==
    ASSUME NEW s \in Seq(LogEntry), NEW g, IsSums(s, g),
           NEW j \in 0..Len(s), NEW k \in 1..(j + 1)
    PROVE  /\ SubSeq(s, k, j) \in Seq(LogEntry) /\ Len(SubSeq(s, k, j)) = j - k + 1
           /\ \A i \in 1..(j - k + 1) : SubSeq(s, k, j)[i] = s[k + i - 1]
           /\ Total(SubSeq(s, k, j)) = g[j] - g[k - 1]
<1> DEFINE t == SubSeq(s, k, j)
           h == [i \in 0..(j - k + 1) |-> g[k - 1 + i] - g[k - 1]]
<1>1. Len(s) \in Nat /\ j \in Nat /\ k \in Nat /\ j - k + 1 \in Nat
  OBVIOUS
<1>2. Len(t) = j - k + 1 /\ t \in Seq(LogEntry)
  BY <1>1
<1>3. \A i \in 1..(j - k + 1) : t[i] = s[k + i - 1]
  BY <1>1
<1> HIDE DEF t
<1>4. \A i \in 0..(j - k + 1) : k - 1 + i \in 0..Len(s)
  BY <1>1
<1>5. \A i \in 0..(j - k + 1) : g[k - 1 + i] \in Int /\ g[k - 1] \in Int
  <2>1. \A i \in 0..Len(s) : g[i] \in Int
    BY DEF IsSums
  <2>2. k - 1 \in 0..Len(s)
    BY <1>1
  <2> QED BY <1>4, <2>1, <2>2
<1>6. h \in [0..Len(t) -> Int] /\ h[0] = 0
  <2>1. ASSUME NEW i \in 0..(j - k + 1) PROVE g[k - 1 + i] - g[k - 1] \in Int
    <3>1. g[k - 1 + i] \in Int /\ g[k - 1] \in Int
      BY <1>5
    <3> QED BY <3>1
  <2>2. h \in [0..(j - k + 1) -> Int]
    BY <2>1
  <2>3. h[0] = g[k - 1 + 0] - g[k - 1] /\ k - 1 + 0 = k - 1 /\ g[k - 1] \in Int
    BY <1>1, <1>5
  <2>4. h[0] = 0
    <3> HIDE DEF h
    <3> QED BY <2>3
  <2> QED BY <1>2, <2>2, <2>4
<1>7. ASSUME NEW i \in 1..Len(t) PROVE h[i] = h[i - 1] + t[i].size
  <2>1. k - 1 + i \in 1..Len(s) /\ (k - 1 + i) - 1 = k - 1 + (i - 1) /\ i - 1 \in 0..(j - k + 1) /\ i \in 0..(j - k + 1)
    BY <1>1, <1>2
  <2>2. g[k - 1 + i] = g[(k - 1 + i) - 1] + s[k - 1 + i].size
    BY <2>1 DEF IsSums
  <2>3. s[k - 1 + i] \in LogEntry /\ t[i] = s[k - 1 + i]
    BY <1>1, <1>2, <1>3, <2>1
  <2>4. t[i].size \in Int
    BY <2>3 DEF LogEntry
  <2>5. h[i] = g[k - 1 + i] - g[k - 1] /\ h[i - 1] = g[k - 1 + (i - 1)] - g[k - 1]
    BY <2>1
  <2>6. g[k - 1 + i] \in Int /\ g[k - 1 + (i - 1)] \in Int /\ g[k - 1] \in Int
    BY <1>5, <2>1
  <2> HIDE DEF h
  <2>7. g[k - 1 + i] = g[k - 1 + (i - 1)] + t[i].size
    BY <2>1, <2>2, <2>3
  <2> DEFINE a == g[k - 1 + i]
             b == g[k - 1 + (i - 1)]
             c == g[k - 1]
             d == t[i].size
  <2>8. a \in Int /\ b \in Int /\ c \in Int /\ d \in Int /\ a = b + d
    BY <2>4, <2>6, <2>7
  <2>9. h[i] = a - c /\ h[i - 1] = b - c /\ t[i].size = d
    BY <2>5
  <2> HIDE DEF a, b, c, d
  <2> QED BY <2>8, <2>9
<1>8. h[Len(t)] = g[j] - g[k - 1]
  BY <1>1, <1>2
<1> HIDE DEF h
<1>9. IsSums(t, h)
  BY <1>6, <1>7 DEF IsSums
<1>10. Total(t) = h[Len(t)]
  BY <1>1, <1>2, <1>9, TotalIsSum
<1> QED BY <1>2, <1>3, <1>8, <1>10 DEF t

\* One more entry leaves the earlier sums as they are.
LEMMA AppendSums ==
    ASSUME NEW s \in Seq(LogEntry), NEW g, IsSums(s, g), NEW e \in LogEntry
    PROVE  \E h : /\ IsSums(Append(s, e), h)
                  /\ \A i \in 0..Len(s) : h[i] = g[i]
                  /\ h[Len(s) + 1] = g[Len(s)] + e.size
<1> DEFINE t == Append(s, e)
           h == [i \in 0..(Len(s) + 1) |-> IF i <= Len(s) THEN g[i] ELSE g[Len(s)] + e.size]
<1>1. Len(s) \in Nat /\ e.size \in Int
  BY DEF LogEntry
<1>2. Len(t) = Len(s) + 1 /\ t[Len(s) + 1] = e /\ \A i \in 1..Len(s) : t[i] = s[i]
  OBVIOUS
<1> HIDE DEF t
<1>3. \A i \in 0..Len(s) : g[i] \in Int
  BY DEF IsSums
<1>4. h \in [0..Len(t) -> Int]
  BY <1>1, <1>2, <1>3
<1>5. h[0] = 0
  BY <1>1 DEF IsSums
<1>6. \A i \in 0..Len(s) : h[i] = g[i]
  BY <1>1
<1>7. h[Len(s) + 1] = g[Len(s)] + e.size
  BY <1>1
<1> HIDE DEF h
<1>8. ASSUME NEW i \in 1..Len(t) PROVE h[i] = h[i - 1] + t[i].size
  <2>1. CASE i \in 1..Len(s)
    <3>1. g[i] = g[i - 1] + s[i].size
      BY <2>1 DEF IsSums
    <3>2. h[i] = g[i] /\ h[i - 1] = g[i - 1] /\ t[i] = s[i]
      BY <1>1, <1>2, <1>6, <2>1
    <3> QED BY <3>1, <3>2
  <2>2. CASE i = Len(s) + 1
    <3>1. h[i - 1] = g[Len(s)] /\ t[i] = e
      BY <1>1, <1>2, <1>6, <2>2
    <3> QED BY <1>7, <2>2, <3>1
  <2> QED BY <1>1, <1>2, <2>1, <2>2
<1> QED BY <1>4, <1>5, <1>6, <1>7, <1>8 DEF IsSums, t

\* One more entry adds its size.
LEMMA AppendTotal ==
    ASSUME NEW s \in Seq(LogEntry), NEW e \in LogEntry
    PROVE  /\ Append(s, e) \in Seq(LogEntry) /\ Append(s, e) # <<>>
           /\ Len(Append(s, e)) = Len(s) + 1
           /\ Append(s, e)[Len(s) + 1] = e
           /\ \A i \in 1..Len(s) : Append(s, e)[i] = s[i]
           /\ Total(Append(s, e)) = Total(s) + e.size
<1>1. PICK g : IsSums(s, g)
  BY SumsExist
<1>2. PICK h : /\ IsSums(Append(s, e), h)
               /\ h[Len(s) + 1] = g[Len(s)] + e.size
  BY <1>1, AppendSums
<1>3. Len(s) \in Nat /\ Len(Append(s, e)) = Len(s) + 1 /\ Len(s) + 1 \in Nat
  OBVIOUS
<1>4. Total(s) = g[Len(s)]
  BY <1>1, <1>3, TotalIsSum
<1> DEFINE q == Append(s, e)
<1>5. q \in Seq(LogEntry) /\ q # <<>> /\ q[Len(s) + 1] = e /\ \A i \in 1..Len(s) : q[i] = s[i]
  OBVIOUS
<1>6. Len(q) = Len(s) + 1 /\ IsSums(q, h)
  BY <1>2, <1>3
<1> HIDE DEF q
<1>7. Total(q) = h[Len(q)]
  BY <1>3, <1>6, TotalIsSum
<1> QED BY <1>2, <1>3, <1>4, <1>5, <1>6, <1>7 DEF q

\* Entry by entry lighter is lighter altogether.
LEMMA LighterTotal ==
    ASSUME NEW s \in Seq(LogEntry), NEW t \in Seq(LogEntry), Len(s) = Len(t),
           \A i \in 1..Len(s) : s[i].size <= t[i].size
    PROVE  Total(s) <= Total(t)
<1>1. PICK g : IsSums(s, g)
  BY SumsExist
<1>2. PICK h : IsSums(t, h)
  BY SumsExist
<1> DEFINE Bad == {n \in 0..Len(s) : ~(g[n] <= h[n])}
<1>3. Len(s) \in Nat /\ \A n \in 0..Len(s) : g[n] \in Int /\ h[n] \in Int
  BY <1>1, <1>2 DEF IsSums
<1>4. Bad = {}
  <2> SUFFICES ASSUME Bad # {} PROVE FALSE
    OBVIOUS
  <2>1. Bad \in SUBSET Nat
    BY <1>3
  <2>2. PICK x \in Bad : \A y \in Bad : x <= y
    BY <2>1, LeastOf
  <2>3. x # 0
    BY <1>1, <1>2, <1>3 DEF IsSums
  <2>4. x \in 1..Len(s) /\ x - 1 \in 0..Len(s) /\ x - 1 \notin Bad
    BY <1>3, <2>2, <2>3
  <2>5. g[x - 1] <= h[x - 1]
    BY <2>4
  <2>6. s[x] \in LogEntry /\ t[x] \in LogEntry
    BY <1>3, <2>4
  <2>7. s[x].size \in Nat /\ t[x].size \in Nat /\ s[x].size <= t[x].size
    BY <2>4, <2>6 DEF LogEntry
  <2>8. g[x] = g[x - 1] + s[x].size /\ h[x] = h[x - 1] + t[x].size
    BY <1>1, <1>2, <2>4 DEF IsSums
  <2>9. g[x - 1] \in Int /\ h[x - 1] \in Int /\ ~(g[x] <= h[x])
    BY <1>3, <2>2, <2>4
  <2> HIDE DEF Bad
  <2> QED BY <2>5, <2>7, <2>8, <2>9
<1>5. Total(s) = g[Len(s)] /\ Total(t) = h[Len(s)]
  BY <1>1, <1>2, <1>3, TotalIsSum
<1> QED BY <1>3, <1>4, <1>5

LogType == [bytes : Nat, entries : Seq(LogEntry)]
NewestFrom(f, k) ==
    [i \in 1..(Len(f) - k + 1) |-> [f[k + i - 1] EXCEPT !.size = Lesser(@, MaxBytes)]]

\* Entry k - 1 left because it did not fit together with those up to some j.
Evicted(f, k) == k > 1 => \E j \in k..Len(f) : Total(SubSeq(f, k - 1, j)) > MaxBytes

\* The log holds the newest of what it was given, and as many as fit.
LogHolds(log, f) ==
    /\ log \in LogType /\ f \in Seq(LogEntry)
    /\ log.bytes = Total(log.entries) /\ log.bytes <= MaxBytes
    /\ f # <<>> => log.entries # <<>>
    /\ \E k \in 1..(Len(f) + 1) : log.entries = NewestFrom(f, k) /\ Evicted(f, k)

\* A log weighs a number of bytes.
LEMMA TotalType ==
    ASSUME NEW s \in Seq(LogEntry)
    PROVE  Total(s) \in Nat
<1>1. PICK g : IsSums(s, g)
  BY SumsExist
<1>2. Len(s) \in Nat /\ 0 \in 0..Len(s) /\ Len(s) \in 0..Len(s)
  OBVIOUS
<1>3. g[0] <= g[Len(s)]
  BY <1>1, <1>2, SumsGrow
<1>4. g[0] = 0 /\ g[Len(s)] \in Int /\ Total(s) = g[Len(s)]
  BY <1>1, <1>2, TotalIsSum DEF IsSums
<1> QED BY <1>3, <1>4

\* An entry cut to the size of a log is an entry.
LEMMA CutEntry ==
    ASSUME NEW e \in LogEntry
    PROVE  /\ [e EXCEPT !.size = Lesser(@, MaxBytes)] = [n |-> e.n, size |-> Lesser(e.size, MaxBytes)]
           /\ [e EXCEPT !.size = Lesser(@, MaxBytes)] \in LogEntry
           /\ Lesser(e.size, MaxBytes) <= e.size
<1>1. e.n \in Nat /\ e.size \in Nat \ {0} /\ MaxBytes \in Nat \ {0}
  BY DebugAssumption DEF LogEntry
<1>2. Lesser(e.size, MaxBytes) \in Nat \ {0} /\ Lesser(e.size, MaxBytes) <= e.size
  BY <1>1 DEF Lesser
<1>3. [e EXCEPT !.size = Lesser(@, MaxBytes)] = [n |-> e.n, size |-> Lesser(e.size, MaxBytes)]
  BY DEF LogEntry
<1> QED BY <1>1, <1>2, <1>3 DEF LogEntry

\* What a log should hold from the k-th entry on.
LEMMA NewestIsSeq ==
    ASSUME NEW f \in Seq(LogEntry), NEW k \in 1..(Len(f) + 1)
    PROVE  /\ NewestFrom(f, k) \in Seq(LogEntry)
           /\ Len(NewestFrom(f, k)) = Len(f) - k + 1
           /\ \A i \in 1..(Len(f) - k + 1) :
                  /\ NewestFrom(f, k)[i] = [n |-> f[k + i - 1].n, size |-> Lesser(f[k + i - 1].size, MaxBytes)]
                  /\ NewestFrom(f, k)[i].size <= f[k + i - 1].size
<1>1. Len(f) \in Nat /\ k \in Nat /\ Len(f) - k + 1 \in Nat
  OBVIOUS
<1>2. ASSUME NEW i \in 1..(Len(f) - k + 1)
      PROVE  /\ [f[k + i - 1] EXCEPT !.size = Lesser(@, MaxBytes)]
                    = [n |-> f[k + i - 1].n, size |-> Lesser(f[k + i - 1].size, MaxBytes)]
             /\ [f[k + i - 1] EXCEPT !.size = Lesser(@, MaxBytes)] \in LogEntry
             /\ Lesser(f[k + i - 1].size, MaxBytes) <= f[k + i - 1].size
  <2>1. k + i - 1 \in 1..Len(f)
    BY <1>1
  <2>2. f[k + i - 1] \in LogEntry
    BY <1>1, <2>1
  <2> QED BY <2>2, CutEntry
<1> DEFINE body(i) == [f[k + i - 1] EXCEPT !.size = Lesser(@, MaxBytes)]
           q == Len(f) - k + 1
<1>3. \A i \in 1..q : body(i) \in LogEntry
  BY <1>2
<1>4. NewestFrom(f, k) = [i \in 1..q |-> body(i)]
  BY DEF NewestFrom
<1>5. q \in Nat
  BY <1>1
<1> HIDE DEF body, q
<1>6. NewestFrom(f, k) \in Seq(LogEntry) /\ Len(NewestFrom(f, k)) = q
  BY <1>3, <1>4, <1>5
<1>7. \A i \in 1..q : NewestFrom(f, k)[i] = body(i)
  BY <1>4
<1>8. ASSUME NEW i \in 1..(Len(f) - k + 1)
      PROVE  /\ NewestFrom(f, k)[i] = [n |-> f[k + i - 1].n, size |-> Lesser(f[k + i - 1].size, MaxBytes)]
             /\ NewestFrom(f, k)[i].size <= f[k + i - 1].size
  <2>1. NewestFrom(f, k)[i] = [n |-> f[k + i - 1].n, size |-> Lesser(f[k + i - 1].size, MaxBytes)]
    BY <1>2, <1>7 DEF body, q
  <2>2. Lesser(f[k + i - 1].size, MaxBytes) <= f[k + i - 1].size
    BY <1>2
  <2> QED BY <2>1, <2>2
<1> QED BY <1>6, <1>8 DEF q

(***************************************************************************)
(* The heart of it: append evicts no more and no less than it has to.      *)
(***************************************************************************)
LEMMA LogAppended ==
    ASSUME NEW log, NEW f, LogHolds(log, f), NEW e \in LogEntry
    PROVE  LogHolds(append(log, e), Append(f, e))
<1> DEFINE E == log.entries
           L == Len(E)
           f2 == Append(f, e)
           Remains(m) == log.bytes - Total(SubSeq(log.entries, 1, m - 1))
           Fits(m) == Remains(m) + e.size <= MaxBytes
           first == CHOOSE m \in 1..(Len(log.entries) + 1) :
                        (Fits(m) \/ m = Len(log.entries) + 1) /\ \A j \in 1..(m - 1) : ~Fits(j)
           kept == SubSeq(log.entries, first, Len(log.entries))
<1>1. PICK k \in 1..(Len(f) + 1) : E = NewestFrom(f, k) /\ Evicted(f, k)
  BY DEF LogHolds
<1>2. /\ log.bytes \in Nat /\ E \in Seq(LogEntry) /\ f \in Seq(LogEntry)
      /\ log.bytes = Total(E) /\ log.bytes <= MaxBytes
  BY DEF LogHolds, LogType
<1>3. Len(f) \in Nat /\ k \in Nat /\ L \in Nat /\ L = Len(f) - k + 1
  BY <1>1, <1>2, NewestIsSeq
<1>4. MaxBytes \in Nat \ {0} /\ e.size \in Nat \ {0}
  BY DebugAssumption DEF LogEntry
<1>5. PICK ge : IsSums(E, ge)
  BY <1>2, SumsExist
<1>6. PICK gf : IsSums(f, gf)
  BY <1>2, SumsExist
<1>7. PICK gf2 : /\ IsSums(f2, gf2) /\ \A i \in 0..Len(f) : gf2[i] = gf[i]
                 /\ gf2[Len(f) + 1] = gf[Len(f)] + e.size
  BY <1>2, <1>6, AppendSums
<1>8. f2 \in Seq(LogEntry) /\ Len(f2) = Len(f) + 1 /\ f2[Len(f) + 1] = e /\ f2 # <<>>
      /\ \A i \in 1..Len(f) : f2[i] = f[i]
  BY <1>2
<1>9. append(log, e) = IF e.size > MaxBytes
        THEN [bytes |-> MaxBytes, entries |-> <<[e EXCEPT !.size = MaxBytes]>>]
        ELSE [bytes |-> Remains(first) + e.size, entries |-> Append(kept, e)]
  BY DEF append
<1>10. /\ \A i \in 0..L : ge[i] \in Int
       /\ \A i \in 0..Len(f) : gf[i] \in Int
       /\ \A i \in 0..(Len(f) + 1) : gf2[i] \in Int
       /\ ge[0] = 0 /\ log.bytes = ge[L]
  <2>1. log.bytes = ge[L]
    BY <1>2, <1>3, <1>5, TotalIsSum
  <2> QED BY <1>5, <1>6, <1>7, <1>8, <2>1 DEF IsSums
\* A slice of f is the same in f2.
<1>11. ASSUME NEW i \in 1..Len(f), NEW j \in i..Len(f)
       PROVE  Total(SubSeq(f2, i, j)) = Total(SubSeq(f, i, j))
  <2>1. j \in 0..Len(f) /\ j \in 0..Len(f2) /\ i \in 1..(j + 1) /\ i - 1 \in 0..Len(f)
    BY <1>3, <1>8
  <2>2. Total(SubSeq(f2, i, j)) = gf2[j] - gf2[i - 1]
    <3> HIDE DEF f2
    <3> QED BY <1>7, <1>8, <2>1, SliceTotal
  <2>3. Total(SubSeq(f, i, j)) = gf[j] - gf[i - 1]
    BY <1>2, <1>6, <2>1, SliceTotal
  <2> QED BY <1>7, <2>1, <2>2, <2>3
\* What is left weighs no more than what was given since.
<1>12. ASSUME NEW m \in 1..L
       PROVE  ge[L] - ge[m - 1] <= gf[Len(f)] - gf[k + m - 2]
  <2> DEFINE s == SubSeq(E, m, L)
             t == SubSeq(f, k + m - 1, Len(f))
  <2>1. L \in 0..L /\ m \in 1..(L + 1) /\ Len(f) \in 0..Len(f) /\ k + m - 1 \in 1..(Len(f) + 1)
        /\ (k + m - 1) - 1 = k + m - 2
    BY <1>3
  <2>2. /\ s \in Seq(LogEntry) /\ Len(s) = L - m + 1 /\ Total(s) = ge[L] - ge[m - 1]
        /\ \A i \in 1..(L - m + 1) : s[i] = E[m + i - 1]
    BY <1>2, <1>5, <2>1, SliceTotal
  <2>3. /\ t \in Seq(LogEntry) /\ Len(t) = Len(f) - (k + m - 1) + 1 /\ Total(t) = gf[Len(f)] - gf[k + m - 2]
        /\ \A i \in 1..(Len(f) - (k + m - 1) + 1) : t[i] = f[(k + m - 1) + i - 1]
    BY <1>2, <1>6, <2>1, SliceTotal
  <2> HIDE DEF s, t
  <2>4. Len(s) = Len(t)
    <3>1. L \in Nat /\ m \in Nat /\ k \in Nat /\ Len(f) \in Nat /\ k + L - 1 = Len(f)
      BY <1>3
    <3>2. L - m + 1 = Len(f) - (k + m - 1) + 1
      BY <3>1
    <3> QED BY <2>2, <2>3, <3>2
  <2>5. ASSUME NEW i \in 1..Len(s) PROVE s[i].size <= t[i].size
    <3>1. m + i - 1 \in 1..L /\ (k + m - 1) + i - 1 = k + (m + i - 1) - 1
      <4>1. i \in Nat /\ 1 <= i /\ i <= L - m + 1 /\ m \in Nat /\ 1 <= m /\ m <= L
        BY <1>3, <2>2
      <4> HIDE DEF L
      <4> QED BY <1>3, <4>1
    <3>2. s[i] = E[m + i - 1] /\ t[i] = f[k + (m + i - 1) - 1]
      BY <2>2, <2>3, <2>4, <3>1
    <3>3. E[m + i - 1].size <= f[k + (m + i - 1) - 1].size
      BY <1>1, <1>2, <1>3, <3>1, NewestIsSeq
    <3> QED BY <3>2, <3>3
  <2>6. Total(s) <= Total(t)
    BY <2>2, <2>3, <2>4, <2>5, LighterTotal
  <2> QED BY <2>2, <2>3, <2>6
<1>13. CASE e.size > MaxBytes
  <2> DEFINE c == [n |-> e.n, size |-> MaxBytes]
  <2>1. append(log, e) = [bytes |-> MaxBytes, entries |-> <<c>>]
    <3>1. [e EXCEPT !.size = MaxBytes] = c
      BY DEF LogEntry
    <3> QED BY <1>9, <1>13, <3>1
  <2>2. c \in LogEntry /\ c.size = MaxBytes
    BY <1>4 DEF LogEntry
  <2>3. Total(<<c>>) = MaxBytes
    <3> DEFINE g == [i \in 0..1 |-> IF i = 0 THEN 0 ELSE MaxBytes]
    <3>1. Len(<<c>>) = 1 /\ <<c>>[1] = c
      OBVIOUS
    <3>2. g \in [0..1 -> Int] /\ g[0] = 0 /\ g[1] = MaxBytes
      BY <1>4
    <3> HIDE DEF g, c
    <3>3. IsSums(<<c>>, g)
      BY <1>4, <2>2, <3>1, <3>2 DEF IsSums
    <3> QED BY <3>1, <3>2, <3>3, TotalIsSum
  <2>4. Lesser(e.size, MaxBytes) = MaxBytes
    BY <1>4, <1>13 DEF Lesser
  <2>5. <<c>> = NewestFrom(f2, Len(f) + 1)
    <3>1. Len(f) + 1 \in 1..(Len(f2) + 1) /\ Len(f2) - (Len(f) + 1) + 1 = 1 /\ (Len(f) + 1) + 1 - 1 = Len(f) + 1
      BY <1>3, <1>8
    <3>2. /\ NewestFrom(f2, Len(f) + 1) \in Seq(LogEntry) /\ Len(NewestFrom(f2, Len(f) + 1)) = 1
          /\ NewestFrom(f2, Len(f) + 1)[1] = [n |-> f2[Len(f) + 1].n, size |-> Lesser(f2[Len(f) + 1].size, MaxBytes)]
      <4> DEFINE K == Len(f) + 1
      <4>1. K \in 1..(Len(f2) + 1) /\ Len(f2) - K + 1 = 1 /\ K + 1 - 1 = K /\ 1 \in 1..(Len(f2) - K + 1)
        BY <3>1
      <4> HIDE DEF f2, K
      <4>2. NewestFrom(f2, K) \in Seq(LogEntry) /\ Len(NewestFrom(f2, K)) = 1
        BY <1>8, <4>1, NewestIsSeq
      <4>3. NewestFrom(f2, K)[1] = [n |-> f2[K + 1 - 1].n, size |-> Lesser(f2[K + 1 - 1].size, MaxBytes)]
        BY <1>8, <4>1, NewestIsSeq
      <4> QED BY <4>1, <4>2, <4>3 DEF K
    <3>3. NewestFrom(f2, Len(f) + 1)[1] = c
      <4> HIDE DEF f2
      <4> QED BY <1>8, <2>4, <3>2
    <3> HIDE DEF c, f2
    <3> QED BY <3>2, <3>3
  <2>6. Evicted(f2, Len(f) + 1)
    <3> SUFFICES ASSUME Len(f) + 1 > 1
                 PROVE  Total(SubSeq(f2, (Len(f) + 1) - 1, Len(f) + 1)) > MaxBytes
      BY <1>3, <1>8 DEF Evicted
    <3>1. /\ Len(f) \in 1..((Len(f) + 1) + 1) /\ (Len(f) + 1) - 1 = Len(f) /\ Len(f) + 1 \in 0..Len(f2)
          /\ Len(f) - 1 \in 0..Len(f) /\ Len(f) \in (Len(f) - 1)..Len(f) /\ Len(f) \in 0..Len(f)
      BY <1>3, <1>8
    <3>2. Total(SubSeq(f2, Len(f), Len(f) + 1)) = gf2[Len(f) + 1] - gf2[Len(f) - 1]
      <4> DEFINE N == Len(f) + 1
                 p == Len(f)
      <4>1. p \in 1..(N + 1) /\ N \in 0..Len(f2)
        BY <3>1
      <4> HIDE DEF f2, N, p
      <4>2. Total(SubSeq(f2, p, N)) = gf2[N] - gf2[p - 1]
        BY <1>7, <1>8, <4>1, SliceTotal
      <4> QED BY <4>2 DEF N, p
    <3>3. gf[Len(f) - 1] <= gf[Len(f)]
      BY <1>2, <1>6, <3>1, SumsGrow
    <3>4. gf2[Len(f) - 1] = gf[Len(f) - 1] /\ gf[Len(f) - 1] \in Int /\ gf[Len(f)] \in Int
      BY <1>7, <1>10, <3>1
    <3> HIDE DEF f2
    <3> QED BY <1>4, <1>7, <1>13, <3>1, <3>2, <3>3, <3>4
  <2>7. [bytes |-> MaxBytes, entries |-> <<c>>] \in LogType
    BY <1>4, <2>2 DEF LogType
  <2>8. Len(f) + 1 \in 1..(Len(f2) + 1)
    BY <1>3, <1>8
  <2> HIDE DEF c, f2
  <2>9. LogHolds([bytes |-> MaxBytes, entries |-> <<c>>], f2)
    BY <1>4, <1>8, <2>3, <2>5, <2>6, <2>7, <2>8 DEF LogHolds
  <2> QED BY <2>1, <2>9 DEF f2
<1>14. CASE ~(e.size > MaxBytes)
  <2>1. append(log, e) = [bytes |-> Remains(first) + e.size, entries |-> Append(kept, e)]
    BY <1>9, <1>14
  <2>2. ASSUME NEW m \in 1..(L + 1) PROVE Remains(m) = ge[L] - ge[m - 1]
    <3>1. m - 1 \in 0..L /\ 1 \in 1..((m - 1) + 1) /\ 1 - 1 = 0
      BY <1>3
    <3>2. Total(SubSeq(E, 1, m - 1)) = ge[m - 1] - ge[1 - 1]
      BY <1>2, <1>5, <3>1, SliceTotal
    <3>3. ge[m - 1] \in Int /\ ge[0] = 0 /\ log.bytes = ge[L]
      BY <1>10, <3>1
    <3> QED BY <3>1, <3>2, <3>3
  <2>3. /\ first \in 1..(L + 1)
        /\ Fits(first) \/ first = L + 1
        /\ \A j \in 1..(first - 1) : ~Fits(j)
    <3> DEFINE S == {m \in 1..(L + 1) : Fits(m) \/ m = L + 1}
    <3> HIDE DEF Fits
    <3>1. S \in SUBSET Nat /\ L + 1 \in S
      BY <1>3
    <3>2. PICK x \in S : \A y \in S : x <= y
      BY <3>1, LeastOf
    <3>3. x \in 1..(L + 1) /\ (Fits(x) \/ x = L + 1)
      BY <3>2
    <3>4. \A j \in 1..(x - 1) : ~Fits(j)
      BY <1>3, <3>2
    <3> QED BY <3>3, <3>4
  <2> HIDE DEF first
  <2> DEFINE k2 == k + first - 1
  <2>4. /\ first \in Nat /\ 1 <= first /\ first <= L + 1 /\ L \in 0..L
        /\ first - 1 \in 0..L /\ k2 \in 1..(Len(f) + 1) /\ Len(f) - k2 + 1 = L - first + 1
    BY <1>3, <2>3
  <2>5. ge[L] \in Int /\ ge[first - 1] \in Int /\ ge[first - 1] <= ge[L]
    <3>1. ge[L] \in Int /\ ge[first - 1] \in Int
      BY <1>10, <2>4
    <3>2. first - 1 \in 0..Len(E) /\ L \in (first - 1)..Len(E)
      BY <1>3, <2>4
    <3>3. ge[first - 1] <= ge[L]
      BY <1>2, <1>5, <3>2, SumsGrow
    <3> QED BY <3>1, <3>3
  <2>6. /\ kept \in Seq(LogEntry) /\ Len(kept) = L - first + 1 /\ Total(kept) = ge[L] - ge[first - 1]
        /\ \A i \in 1..(L - first + 1) : kept[i] = E[first + i - 1]
    BY <1>2, <1>5, <2>3, <2>4, SliceTotal
  <2>7. Remains(first) = Total(kept) /\ Remains(first) \in Nat
    BY <2>2, <2>3, <2>5, <2>6
  <2>8. Remains(first) + e.size <= MaxBytes
    <3>1. CASE Fits(first)
      BY <3>1
    <3>2. CASE first = L + 1
      <4>1. ge[first - 1] = ge[L]
        BY <1>3, <3>2
      <4>2. Remains(first) = 0
        BY <2>5, <2>6, <2>7, <4>1
      <4> QED BY <1>4, <1>14, <4>2
    <3> QED BY <2>3, <3>1, <3>2
  <2>9. Total(Append(kept, e)) = Remains(first) + e.size
    <3> HIDE DEF kept, Remains
    <3>1. Total(Append(kept, e)) = Total(kept) + e.size
      BY <2>6, AppendTotal
    <3> QED BY <2>7, <3>1
  <2>10. Append(kept, e) = NewestFrom(f2, k2)
    <3> DEFINE q == Append(kept, e)
               m == NewestFrom(f2, k2)
    <3> HIDE DEF f2, kept, k2
    <3>1. k2 \in 1..(Len(f2) + 1) /\ k2 \in Nat /\ Len(f2) - k2 + 1 = L - first + 2
      BY <1>3, <1>8, <2>4
    <3>2. m \in Seq(LogEntry) /\ Len(m) = L - first + 2
      BY <1>8, <3>1, NewestIsSeq
    <3>3. /\ q \in Seq(LogEntry) /\ Len(q) = L - first + 2
          /\ q[L - first + 2] = e /\ \A i \in 1..(L - first + 1) : q[i] = kept[i]
      <4>1. kept \in Seq(LogEntry) /\ Len(kept) = L - first + 1
        BY <2>6
      <4>2. /\ q \in Seq(LogEntry) /\ Len(q) = Len(kept) + 1
            /\ q[Len(kept) + 1] = e /\ \A i \in 1..Len(kept) : q[i] = kept[i]
        BY <4>1, AppendTotal
      <4>3. (L - first + 1) + 1 = L - first + 2
        BY <1>3, <2>4
      <4> HIDE DEF q, L
      <4> QED BY <4>1, <4>2, <4>3
    <3>4. ASSUME NEW i \in 1..(L - first + 2) PROVE q[i] = m[i]
      <4>1. m[i] = [n |-> f2[k2 + i - 1].n, size |-> Lesser(f2[k2 + i - 1].size, MaxBytes)]
        BY <1>8, <3>1, NewestIsSeq
      <4>2. CASE i \in 1..(L - first + 1)
        <5>1. q[i] = kept[i] /\ kept[i] = E[first + i - 1]
          BY <2>6, <3>3, <4>2
        <5>2. first + i - 1 \in 1..L /\ k2 + i - 1 = k + (first + i - 1) - 1 /\ k2 + i - 1 \in 1..Len(f)
          <6> HIDE DEF L, E
          <6> QED BY <1>3, <2>4, <4>2 DEF k2
        <5>3. E[first + i - 1] = [n |-> f[k2 + i - 1].n, size |-> Lesser(f[k2 + i - 1].size, MaxBytes)]
          <6> DEFINE j == first + i - 1
          <6>1. j \in 1..(Len(f) - k + 1) /\ k + j - 1 = k2 + i - 1
            BY <1>3, <5>2
          <6> HIDE DEF j
          <6>2. NewestFrom(f, k)[j] = [n |-> f[k + j - 1].n, size |-> Lesser(f[k + j - 1].size, MaxBytes)]
            BY <1>2, <6>1, NewestIsSeq
          <6> QED BY <1>1, <6>1, <6>2 DEF j
        <5>4. f2[k2 + i - 1] = f[k2 + i - 1]
          BY <1>8, <5>2
        <5> HIDE DEF q, m, E
        <5> QED BY <4>1, <5>1, <5>3, <5>4
      <4>3. CASE i = L - first + 2
        <5>1. q[i] = e
          BY <3>3, <4>3
        <5>2. k2 + i - 1 = Len(f) + 1
          BY <1>3, <2>4, <4>3 DEF k2
        <5>3. Lesser(e.size, MaxBytes) = e.size
          BY <1>4, <1>14 DEF Lesser
        <5>4. e = [n |-> e.n, size |-> e.size]
          BY DEF LogEntry
        <5>5. f2[k2 + i - 1] = e
          BY <1>8, <5>2
        <5> HIDE DEF q, m
        <5>6. m[i] = [n |-> e.n, size |-> e.size]
          BY <4>1, <5>3, <5>5
        <5> QED BY <5>1, <5>4, <5>6
      <4> HIDE DEF q, m, L
      <4>4. first \in Nat /\ L \in Nat
        BY <1>3, <2>4
      <4> QED BY <4>2, <4>3, <4>4
    <3> HIDE DEF q, m, L
    <3>5. q = m
      BY <3>2, <3>3, <3>4
    <3> QED BY <3>5 DEF q, m
  <2>11. Evicted(f2, k2)
    <3> HIDE DEF f2
    <3>1. CASE first = 1
      <4>1. k2 = k
        BY <1>3, <3>1
      <4> SUFFICES ASSUME k > 1 PROVE \E j \in k..Len(f2) : Total(SubSeq(f2, k - 1, j)) > MaxBytes
        BY <4>1 DEF Evicted
      <4>2. PICK j \in k..Len(f) : Total(SubSeq(f, k - 1, j)) > MaxBytes
        BY <1>1 DEF Evicted
      <4>3. k - 1 \in 1..Len(f) /\ j \in (k - 1)..Len(f) /\ j \in k..Len(f2)
        BY <1>3, <1>8, <4>2
      <4>4. Total(SubSeq(f2, k - 1, j)) = Total(SubSeq(f, k - 1, j))
        BY <1>11, <4>3 DEF f2
      <4> QED BY <4>2, <4>3, <4>4
    <3>2. CASE first > 1
      <4> DEFINE N == Len(f) + 1
      <4>1. /\ first - 1 \in 1..L /\ first - 1 \in 1..(first - 1) /\ (first - 1) - 1 = first - 2
            /\ k + (first - 1) - 2 = k2 - 2 /\ k2 - 2 \in 0..Len(f) /\ first - 2 \in 0..L
            /\ first - 1 \in 1..(L + 1)
        BY <1>3, <2>4, <3>2
      <4>2. ge[L] - ge[first - 2] <= gf[Len(f)] - gf[k2 - 2]
        <5> DEFINE p == first - 1
        <5>1. p \in 1..L /\ p - 1 = first - 2 /\ k + p - 2 = k2 - 2
          BY <4>1
        <5> HIDE DEF p, L, k2
        <5>2. ge[L] - ge[p - 1] <= gf[Len(f)] - gf[k + p - 2]
          BY <1>12, <5>1
        <5> QED BY <5>1, <5>2
      <4>3. ~(Remains(first - 1) + e.size <= MaxBytes) /\ Remains(first - 1) = ge[L] - ge[first - 2]
        <5>1. ~Fits(first - 1)
          BY <2>3, <4>1
        <5>2. Remains(first - 1) = ge[L] - ge[(first - 1) - 1]
          <6> HIDE DEF Remains
          <6> QED BY <2>2, <4>1
        <5> HIDE DEF Remains
        <5> QED BY <4>1, <5>1, <5>2
      <4>4. /\ N \in 0..Len(f2) /\ k2 - 1 \in 1..(N + 1) /\ (k2 - 1) - 1 = k2 - 2 /\ k2 > 1
            /\ N \in k2..Len(f2)
        BY <1>3, <1>8, <2>4, <3>2
      <4>5. Total(SubSeq(f2, k2 - 1, N)) = gf2[N] - gf2[k2 - 2]
        <5> DEFINE p == k2 - 1
        <5>1. p \in 1..(N + 1) /\ p - 1 = k2 - 2
          BY <4>4
        <5> HIDE DEF p, N, k2
        <5>2. Total(SubSeq(f2, p, N)) = gf2[N] - gf2[p - 1]
          BY <1>7, <1>8, <4>4, <5>1, SliceTotal
        <5> QED BY <5>1, <5>2 DEF p
      <4>6. gf2[N] = gf[Len(f)] + e.size /\ gf2[k2 - 2] = gf[k2 - 2]
        BY <1>7, <4>1
      <4>7. /\ gf[Len(f)] \in Int /\ gf[k2 - 2] \in Int /\ ge[L] \in Int /\ ge[first - 2] \in Int
        <5>1. Len(f) \in 0..Len(f)
          BY <1>3
        <5> QED BY <1>10, <2>5, <4>1, <5>1
      <4>8. Total(SubSeq(f2, k2 - 1, N)) > MaxBytes
        <5> DEFINE A == ge[L]
                   B == ge[first - 2]
                   C == gf[Len(f)]
                   D == gf[k2 - 2]
                   T == Total(SubSeq(f2, k2 - 1, N))
                   size == e.size
        <5> HIDE DEF N, k2, L, Remains
        <5>1. A \in Int /\ B \in Int /\ C \in Int /\ D \in Int /\ size \in Int /\ MaxBytes \in Int
          BY <1>4, <4>7
        <5>2. A - B <= C - D /\ ~((A - B) + size <= MaxBytes)
          BY <4>2, <4>3
        <5>3. T = (C + size) - D
          BY <4>5, <4>6
        <5> HIDE DEF A, B, C, D, T, size
        <5>4. T > MaxBytes
          BY <5>1, <5>2, <5>3
        <5> QED BY <5>4 DEF T
      <4> HIDE DEF N, k2, L, Remains
      <4> QED BY <4>4, <4>8 DEF Evicted
    <3> QED BY <2>4, <3>1, <3>2
  <2> HIDE DEF f2, k2, kept, Remains
  <2>12. Append(kept, e) \in Seq(LogEntry) /\ Append(kept, e) # <<>>
    BY <2>6, AppendTotal
  <2>13. k2 \in 1..(Len(f2) + 1)
    BY <1>3, <1>8, <2>4
  <2>14. [bytes |-> Remains(first) + e.size, entries |-> Append(kept, e)] \in LogType
    BY <1>4, <2>7, <2>12 DEF LogType
  <2>15. LogHolds([bytes |-> Remains(first) + e.size, entries |-> Append(kept, e)], f2)
    BY <1>8, <2>8, <2>9, <2>10, <2>11, <2>12, <2>13, <2>14 DEF LogHolds
  <2> QED BY <2>1, <2>15 DEF f2
<1> QED BY <1>13, <1>14

\* What a reader gets is the end of the log.
LEMMA SuffixOfItself ==
    ASSUME NEW s \in Seq(LogEntry)
    PROVE  IsSuffix(s, s)
<1>1. Len(Reverse(s)) = Len(s) /\ Len(s) \in Nat
  BY DEF Reverse
<1> QED BY <1>1 DEF IsSuffix, IsPrefix

\* The last t entries.
LEMMA TailIsSuffix ==
    ASSUME NEW s \in Seq(LogEntry), NEW t \in 1..Len(s)
    PROVE  IsSuffix(SubSeq(s, Len(s) - t + 1, Len(s)), s)
<1> DEFINE n == Len(s)
           u == SubSeq(s, n - t + 1, n)
           x == Reverse(u)
           y == Reverse(s)
<1>1. n \in Nat /\ t \in Nat /\ n - t + 1 \in 1..n
  OBVIOUS
<1>2. Len(u) = t /\ \A i \in 1..t : u[i] = s[n - t + i]
  BY <1>1
<1> HIDE DEF u
<1>3. x = [i \in 1..t |-> u[t - i + 1]]
  BY <1>2 DEF Reverse
<1>4. y = [i \in 1..n |-> s[n - i + 1]]
  BY DEF Reverse
<1>5. ASSUME NEW i \in 1..t PROVE x[i] = y[i]
  <2>1. t - i + 1 \in 1..t /\ n - t + (t - i + 1) = n - i + 1 /\ i \in 1..n
    BY <1>1
  <2>2. u[t - i + 1] = s[n - i + 1]
    BY <1>2, <2>1
  <2> QED BY <1>3, <1>4, <2>1, <2>2
<1>6. Len(x) = t /\ Len(y) = n
  BY <1>1, <1>3, <1>4
<1>7. \A i \in 1..t : u[t - i + 1] \in LogEntry
  <2>1. \A i \in 1..t : t - i + 1 \in 1..t /\ n - t + (t - i + 1) \in 1..n
    BY <1>1
  <2> QED BY <1>2, <2>1
<1>8. x \in Seq(LogEntry)
  BY <1>1, <1>3, <1>7
<1>9. y \in Seq(LogEntry)
  <2>1. \A i \in 1..n : n - i + 1 \in 1..n
    BY <1>1
  <2>2. \A i \in 1..n : s[n - i + 1] \in LogEntry
    BY <2>1
  <2> QED BY <1>1, <1>4, <2>2
<1> HIDE DEF x, y
<1>10. SubSeq(x, 1, t) = SubSeq(y, 1, t)
  <2>1. /\ Len(SubSeq(x, 1, t)) = t /\ Len(SubSeq(y, 1, t)) = t
        /\ SubSeq(x, 1, t) \in Seq(LogEntry) /\ SubSeq(y, 1, t) \in Seq(LogEntry)
    BY <1>1, <1>6, <1>8, <1>9
  <2>2. \A i \in 1..t : SubSeq(x, 1, t)[i] = x[i] /\ SubSeq(y, 1, t)[i] = y[i]
    BY <1>1, <1>6, <1>8, <1>9
  <2>3. \A i \in 1..t : SubSeq(x, 1, t)[i] = SubSeq(y, 1, t)[i]
    BY <1>5, <2>2
  <2> DEFINE v == SubSeq(x, 1, t)
             w == SubSeq(y, 1, t)
  <2>4. v \in Seq(LogEntry) /\ w \in Seq(LogEntry) /\ Len(v) = Len(w) /\ \A i \in 1..Len(v) : v[i] = w[i]
    BY <2>1, <2>3
  <2> HIDE DEF v, w
  <2>5. v = w
    BY <2>4
  <2> QED BY <2>5 DEF v, w
<1>11. IsPrefix(x, y)
  BY <1>1, <1>6, <1>10 DEF IsPrefix
<1> QED BY <1>11 DEF x, y, u, IsSuffix

\* All of them, or the last few.
LEMMA SnapshotIsSuffix ==
    ASSUME NEW log, log.entries \in Seq(LogEntry), NEW tail \in Nat
    PROVE  IsSuffix(snapshot(log, tail), log.entries)
<1>1. CASE tail > 0 /\ tail < Len(log.entries)
  <2>1. tail \in 1..Len(log.entries)
    BY <1>1
  <2>2. snapshot(log, tail) = SubSeq(log.entries, Len(log.entries) - tail + 1, Len(log.entries))
    BY <1>1 DEF snapshot
  <2> QED BY <2>1, <2>2, TailIsSuffix
<1>2. CASE ~(tail > 0 /\ tail < Len(log.entries))
  <2>1. snapshot(log, tail) = log.entries
    BY <1>2 DEF snapshot
  <2> QED BY <2>1, SuffixOfItself
<1> QED BY <1>1, <1>2

-----------------------------------------------------------------------------
UdebugSpec == UdebugInit /\ [][UdebugNext]_udebugVars

WritingType == [log : 0..Len(heap), size : Nat, then : Seq(DOMAIN bufs)]

UdebugTypes ==
    /\ heap \in Seq(LogType) /\ fed \in Seq(Seq(LogEntry)) /\ Len(fed) = Len(heap)
    /\ bufs \in [DebugDevices \cup DebugHosts -> 0..Len(heap)]
    /\ writing \in [Writers -> WritingType]

\* A transport that has taken a log, or will, has something to write.
SomethingToWrite ==
    \A w \in Writers : writing[w].log # 0 \/ writing[w].then # <<>> => writing[w].size > 0

UdebugInv ==
    /\ UdebugTypes /\ SomethingToWrite
    /\ \A b \in DOMAIN heap : LogHolds(heap[b], fed[b])

\* The invariant is more than the property.
LEMMA UdebugHolds ==
    ASSUME UdebugInv
    PROVE  NewestEntriesKept
<1> SUFFICES ASSUME NEW b \in DOMAIN heap
             PROVE  /\ heap[b].bytes = Total(heap[b].entries) /\ heap[b].bytes <= MaxBytes
                    /\ fed[b] # <<>> => heap[b].entries # <<>>
                    /\ \E k \in 1..(Len(fed[b]) + 1) :
                           heap[b].entries = NewestFrom(fed[b], k) /\ Evicted(fed[b], k)
                    /\ \A tail \in 0..3 : IsSuffix(snapshot(heap[b], tail), heap[b].entries)
  BY Zenon DEF NewestEntriesKept, NewestFrom, Evicted
<1>1. LogHolds(heap[b], fed[b])
  BY DEF UdebugInv
<1>2. heap[b].entries \in Seq(LogEntry)
  BY <1>1 DEF LogHolds, LogType
<1>3. \A tail \in 0..3 : tail \in Nat
  OBVIOUS
<1>4. \A tail \in 0..3 : IsSuffix(snapshot(heap[b], tail), heap[b].entries)
  BY <1>2, <1>3, SnapshotIsSuffix
<1> QED BY <1>1, <1>4 DEF LogHolds

\* A log that was just made or cleared.
LEMMA EmptyLogHolds == LogHolds(newBuffer, <<>>)
<1> DEFINE g == [i \in 0..0 |-> 0]
<1>1. <<>> \in Seq(LogEntry) /\ Len(<<>>) = 0 /\ MaxBytes \in Nat
  BY DebugAssumption
<1>2. IsSums(<<>>, g)
  <2>1. g \in [0..0 -> Int] /\ g[0] = 0 /\ \A i \in 1..0 : FALSE
    OBVIOUS
  <2> HIDE DEF g
  <2> QED BY <1>1, <2>1 DEF IsSums
<1>3. Total(<<>>) = g[0] /\ g[0] = 0
  <2>1. g[0] = 0
    OBVIOUS
  <2> HIDE DEF g
  <2> QED BY <1>1, <1>2, <2>1, TotalIsSum
<1>4. 1 \in 1..(Len(<<>>) + 1) /\ Evicted(<<>>, 1)
  BY <1>1 DEF Evicted
<1>5. NewestFrom(<<>>, 1) = <<>>
  <2> DEFINE f == <<>>
             m == NewestFrom(f, 1)
  <2>1. f \in Seq(LogEntry) /\ 1 \in 1..(Len(f) + 1) /\ Len(f) - 1 + 1 = 0
    BY <1>1
  <2> HIDE DEF f
  <2>2. m \in Seq(LogEntry) /\ Len(m) = 0
    BY <2>1, NewestIsSeq
  <2> HIDE DEF m
  <2>3. m = <<>>
    BY <2>2
  <2> QED BY <2>3 DEF f, m
<1>6. newBuffer.entries = <<>> /\ newBuffer.bytes = 0 /\ newBuffer \in LogType
  BY <1>1 DEF newBuffer, LogType
<1> QED BY <1>1, <1>3, <1>4, <1>5, <1>6 DEF LogHolds

\* No log at the start.
LEMMA UdebugStart == UdebugInit => UdebugInv
<1> SUFFICES ASSUME UdebugInit PROVE UdebugInv
  OBVIOUS
<1>1. heap = <<>> /\ fed = <<>> /\ Len(heap) = 0 /\ heap \in Seq(LogType) /\ fed \in Seq(Seq(LogEntry))
  BY DEF UdebugInit
<1>2. bufs \in [DebugDevices \cup DebugHosts -> 0..Len(heap)]
  BY <1>1 DEF UdebugInit
<1>3. None \in WritingType
  BY <1>1 DEF None, WritingType
<1>4. writing = [w \in Writers |-> None]
  BY DEF UdebugInit
<1>5. SomethingToWrite
  BY <1>4 DEF SomethingToWrite, None
<1> QED BY <1>1, <1>2, <1>3, <1>4, <1>5 DEF UdebugInv, UdebugTypes

\* A log enabled again is a new one: what a writer holds stays a log.
LEMMA EnableKeeps ==
    ASSUME UdebugInv, NEW k \in DebugDevices \cup DebugHosts, Enable(k)
    PROVE  UdebugInv'
<1> USE DEF UdebugInv, UdebugTypes
<1>1. /\ heap' = Append(heap, newBuffer) /\ fed' = Append(fed, <<>>)
      /\ bufs' = [bufs EXCEPT ![k] = Len(heap) + 1] /\ writing' = writing
  BY DEF Enable
<1>2. newBuffer \in LogType /\ <<>> \in Seq(LogEntry)
  BY EmptyLogHolds DEF LogHolds
<1>3. /\ heap' \in Seq(LogType) /\ fed' \in Seq(Seq(LogEntry)) /\ Len(fed') = Len(heap')
      /\ Len(heap') = Len(heap) + 1 /\ Len(heap) \in Nat /\ DOMAIN heap' = 1..(Len(heap) + 1)
  BY <1>1, <1>2
<1>4. bufs' \in [DebugDevices \cup DebugHosts -> 0..Len(heap')] /\ DOMAIN bufs' = DOMAIN bufs
  BY <1>1, <1>3
<1>5. 0..Len(heap) \subseteq 0..Len(heap')
  BY <1>3
<1>6. writing' \in [Writers -> WritingType']
  <2>1. WritingType \subseteq WritingType'
    BY <1>4, <1>5 DEF WritingType
  <2> QED BY <1>1, <2>1
<1>7. SomethingToWrite'
  BY <1>1 DEF SomethingToWrite
<1>8. ASSUME NEW b \in DOMAIN heap' PROVE LogHolds(heap'[b], fed'[b])
  <2>1. CASE b \in 1..Len(heap)
    <3>1. heap'[b] = heap[b] /\ fed'[b] = fed[b] /\ b \in DOMAIN heap
      BY <1>1, <2>1
    <3> QED BY <3>1
  <2>2. CASE b = Len(heap) + 1
    <3>1. heap'[b] = newBuffer /\ fed'[b] = <<>>
      BY <1>1, <1>2, <2>2
    <3> QED BY <3>1, EmptyLogHolds
  <2> QED BY <1>3, <2>1, <2>2
<1> QED BY <1>3, <1>4, <1>6, <1>7, <1>8

\* A writer may still append to a log nobody can reach.
LEMMA DisableKeeps ==
    ASSUME UdebugInv, NEW k \in DebugDevices \cup DebugHosts, Disable(k)
    PROVE  UdebugInv'
<1>1. bufs' = [bufs EXCEPT ![k] = 0] /\ UNCHANGED <<heap, fed, writing>>
  BY DEF Disable
<1>2. Len(heap) \in Nat
  BY DEF UdebugInv, UdebugTypes
<1>3. bufs' \in [DebugDevices \cup DebugHosts -> 0..Len(heap)] /\ DOMAIN bufs' = DOMAIN bufs
  BY <1>1, <1>2 DEF UdebugInv, UdebugTypes
<1>4. WritingType' = WritingType
  BY <1>1, <1>3 DEF WritingType
<1> QED BY <1>1, <1>3, <1>4 DEF UdebugInv, UdebugTypes, SomethingToWrite

\* A log is replaced in place: what is true of the others stays true.
LEMMA OneLogKeeps ==
    ASSUME UdebugInv, NEW b \in DOMAIN heap, NEW log, NEW f, LogHolds(log, f),
           heap' = [heap EXCEPT ![b] = log], fed' = [fed EXCEPT ![b] = f], bufs' = bufs
    PROVE  /\ heap' \in Seq(LogType) /\ fed' \in Seq(Seq(LogEntry)) /\ Len(fed') = Len(heap')
           /\ bufs' \in [DebugDevices \cup DebugHosts -> 0..Len(heap')]
           /\ WritingType' = WritingType
           /\ \A c \in DOMAIN heap' : LogHolds(heap'[c], fed'[c])
<1> USE DEF UdebugInv, UdebugTypes
<1>1. log \in LogType /\ f \in Seq(LogEntry)
  BY DEF LogHolds
<1>2. heap' \in Seq(LogType) /\ Len(heap') = Len(heap) /\ DOMAIN heap' = DOMAIN heap
  BY <1>1
<1>3. fed' \in Seq(Seq(LogEntry)) /\ Len(fed') = Len(fed) /\ DOMAIN fed' = DOMAIN heap
  BY <1>1
<1>4. ASSUME NEW c \in DOMAIN heap' PROVE LogHolds(heap'[c], fed'[c])
  <2>1. CASE c = b
    <3>1. heap'[c] = log /\ fed'[c] = f
      BY <1>2, <1>3, <2>1
    <3> QED BY <3>1
  <2>2. CASE c # b
    <3>1. heap'[c] = heap[c] /\ fed'[c] = fed[c] /\ c \in DOMAIN heap
      BY <1>2, <1>3, <2>2
    <3> QED BY <3>1
  <2> QED BY <2>1, <2>2
<1>5. WritingType' = WritingType
  BY <1>2 DEF WritingType
<1> QED BY <1>2, <1>3, <1>4, <1>5

\* A log is cleared in place, whoever holds it.
LEMMA ClearKeeps ==
    ASSUME UdebugInv, NEW k \in DebugDevices \cup DebugHosts, Clear(k)
    PROVE  UdebugInv'
<1>1. /\ heap' = [heap EXCEPT ![bufs[k]] = newBuffer] /\ fed' = [fed EXCEPT ![bufs[k]] = <<>>]
      /\ bufs' = bufs /\ writing' = writing /\ bufs[k] # 0
  BY DEF Clear
<1>2. bufs[k] \in DOMAIN heap
  BY <1>1 DEF UdebugInv, UdebugTypes
<1>3. /\ heap' \in Seq(LogType) /\ fed' \in Seq(Seq(LogEntry)) /\ Len(fed') = Len(heap')
      /\ bufs' \in [DebugDevices \cup DebugHosts -> 0..Len(heap')]
      /\ WritingType' = WritingType
      /\ \A c \in DOMAIN heap' : LogHolds(heap'[c], fed'[c])
  BY <1>1, <1>2, EmptyLogHolds, OneLogKeeps
<1> QED BY <1>1, <1>3 DEF UdebugInv, UdebugTypes, SomethingToWrite

\* The log a writer took is in what state it may be by now.
LEMMA RecordKeeps ==
    ASSUME UdebugInv, NEW w \in Writers, Record(w)
    PROVE  UdebugInv'
<1> DEFINE b == writing[w].log
           e == Entry(Len(fed[b]) + 1, writing[w].size)
<1>1. /\ b # 0 /\ heap' = [heap EXCEPT ![b] = append(heap[b], e)] /\ fed' = [fed EXCEPT ![b] = Append(fed[b], e)]
      /\ bufs' = bufs /\ writing' = [writing EXCEPT ![w].log = 0]
  BY DEF Record
<1>2. writing[w] \in WritingType /\ writing[w].size > 0
  BY <1>1 DEF UdebugInv, UdebugTypes, SomethingToWrite
<1>3. b \in DOMAIN heap /\ writing[w].size \in Nat \ {0}
  BY <1>1, <1>2 DEF WritingType, UdebugInv, UdebugTypes
<1>4. LogHolds(heap[b], fed[b])
  BY <1>3 DEF UdebugInv
<1>5. e \in LogEntry
  <2>1. Len(fed[b]) + 1 \in Nat
    BY <1>4 DEF LogHolds
  <2> QED BY <1>3, <2>1 DEF Entry, LogEntry
<1>6. LogHolds(append(heap[b], e), Append(fed[b], e))
  BY <1>4, <1>5, LogAppended
<1> HIDE DEF b, e
<1>7. /\ heap' \in Seq(LogType) /\ fed' \in Seq(Seq(LogEntry)) /\ Len(fed') = Len(heap')
      /\ bufs' \in [DebugDevices \cup DebugHosts -> 0..Len(heap')]
      /\ WritingType' = WritingType
      /\ \A c \in DOMAIN heap' : LogHolds(heap'[c], fed'[c])
  BY <1>1, <1>3, <1>6, OneLogKeeps
<1>8. writing' \in [Writers -> WritingType']
  <2>1. [writing[w] EXCEPT !.log = 0] \in WritingType
    <3>1. 0 \in 0..Len(heap)
      BY <1>2 DEF UdebugInv, UdebugTypes
    <3> QED BY <1>2, <3>1 DEF WritingType
  <2> QED BY <1>1, <1>7, <2>1 DEF UdebugInv, UdebugTypes
<1>9. SomethingToWrite'
  BY <1>1, <1>2 DEF SomethingToWrite, UdebugInv, UdebugTypes, WritingType
<1> QED BY <1>7, <1>8, <1>9 DEF UdebugInv, UdebugTypes

\* A transport goes on: nothing else moves.
LEMMA TransportKeeps ==
    ASSUME UdebugInv, NEW w \in Writers, NEW next, next \in WritingType, next.size > 0,
           writing' = [writing EXCEPT ![w] = next], UNCHANGED <<bufs, heap, fed>>
    PROVE  UdebugInv'
<1>1. writing' \in [Writers -> WritingType]
  BY DEF UdebugInv, UdebugTypes
<1>2. SomethingToWrite'
  BY DEF UdebugInv, UdebugTypes, SomethingToWrite
<1>3. WritingType' = WritingType
  BY DEF WritingType
<1> QED BY <1>1, <1>2, <1>3 DEF UdebugInv, UdebugTypes

\* A writer takes the pointer of its next log, or none.
LEMMA FetchKeeps ==
    ASSUME UdebugInv, NEW w \in Writers, Fetch(w)
    PROVE  UdebugInv'
<1> DEFINE head == Head(writing[w].then)
           next == [log |-> bufs[head], size |-> writing[w].size, then |-> Tail(writing[w].then)]
<1>1. writing[w] \in WritingType /\ writing[w].then # <<>> /\ UNCHANGED <<bufs, heap, fed>>
  BY DEF Fetch, UdebugInv, UdebugTypes
<1>2. writing' = [writing EXCEPT ![w] = next]
  <2>1. writing' = [writing EXCEPT ![w].log = bufs[head], ![w].then = Tail(@)]
    BY DEF Fetch
  <2>2. w \in DOMAIN writing
    BY DEF UdebugInv, UdebugTypes
  <2> DEFINE x == bufs[head]
  <2>3. [writing[w] EXCEPT !.log = x, !.then = Tail(@)] = next
    <3>1. writing[w] \in [log : 0..Len(heap), size : Nat, then : Seq(DOMAIN bufs)]
      BY <1>1 DEF WritingType
    <3> DEFINE r == writing[w]
               A == 0..Len(heap)
               C == Seq(DOMAIN bufs)
    <3>2. r \in [log : A, size : Nat, then : C]
      BY <3>1
    <3> HIDE DEF head, x, r, A, C
    <3>3. [r EXCEPT !.log = x, !.then = Tail(@)] = [log |-> x, size |-> r.size, then |-> Tail(r.then)]
      <4> DEFINE q == [r EXCEPT !.log = x]
                 t == Tail(r.then)
      <4>1. q = [log |-> x, size |-> r.size, then |-> r.then]
        BY <3>2
      <4> HIDE DEF q
      <4>2. [q EXCEPT !.then = Tail(@)] = [q EXCEPT !.then = t]
        BY <4>1
      <4> HIDE DEF t
      <4>3. [q EXCEPT !.then = t] = [log |-> x, size |-> r.size, then |-> t]
        BY <4>1
      <4> QED BY <4>2, <4>3 DEF q, t
    <3> QED BY <3>3 DEF x, r
  <2> HIDE DEF head, next, x
  <2>4. [writing EXCEPT ![w].log = x, ![w].then = Tail(@)]
            = [writing EXCEPT ![w] = [writing[w] EXCEPT !.log = x, !.then = Tail(@)]]
    BY <2>2
  <2> QED BY <2>1, <2>3, <2>4 DEF x
<1>3. head \in DOMAIN bufs /\ Tail(writing[w].then) \in Seq(DOMAIN bufs)
  <2>1. writing[w].then \in Seq(DOMAIN bufs)
    BY <1>1 DEF WritingType
  <2> DEFINE D == DOMAIN bufs
             t == writing[w].then
  <2>2. t \in Seq(D) /\ t # <<>>
    BY <1>1, <2>1
  <2> HIDE DEF D, t
  <2>3. Head(t) \in D /\ Tail(t) \in Seq(D)
    BY <2>2
  <2> QED BY <2>3 DEF D, t
<1>4. bufs[head] \in 0..Len(heap)
  BY <1>3 DEF UdebugInv, UdebugTypes
<1>5. next \in WritingType /\ next.size > 0
  <2>1. writing[w].size \in Nat /\ writing[w].size > 0
    BY <1>1 DEF WritingType, UdebugInv, SomethingToWrite
  <2> QED BY <1>3, <1>4, <2>1 DEF WritingType
<1> HIDE DEF next
<1> QED BY <1>1, <1>2, <1>5, TransportKeeps

\* Even an entry without bodies has a size.
LEMMA EntryHasSize ==
    ASSUME NEW req \in Bodies, NEW resp \in Bodies, NEW failed
    PROVE  EntrySize(req, resp, failed) \in Nat \ {0}
<1>1. captureRequestBody(req) \in Nat /\ captureResponseBody(resp) \in Nat
  BY DebugAssumption DEF captureRequestBody, captureResponseBody, Lesser
<1> DEFINE a == captureRequestBody(req)
           c == captureResponseBody(resp)
           rest == IF failed THEN 0 ELSE c
<1> HIDE DEF a, c
<1>2. rest \in Nat
  BY <1>1 DEF c
<1>3. EntrySize(req, resp, failed) = 1 + a + rest
  BY DEF EntrySize, a, c
<1> HIDE DEF rest
<1> QED BY <1>1, <1>2, <1>3 DEF a

\* The logs a request goes to are those of a device and of a host.
LEMMA TargetsAreKeys ==
    ASSUME NEW d \in DOMAIN bufs, NEW h, NEW urlHost, NEW failed
    PROVE  Targets(d, h, urlHost, failed) \in Seq(DOMAIN bufs)
<1> DEFINE D == DOMAIN bufs
           named == IF h # "" THEN h ELSE IF failed THEN "" ELSE urlHost
           rest == IF named \in D THEN <<named>> ELSE <<>>
<1>1. Targets(d, h, urlHost, failed) = <<d>> \o rest
  BY DEF Targets
<1>2. <<d>> \in Seq(D)
  OBVIOUS
<1> HIDE DEF named, D
<1>3. rest \in Seq(D)
  OBVIOUS
<1> HIDE DEF rest
<1>4. <<d>> \o rest \in Seq(D)
  BY <1>2, <1>3
<1> QED BY <1>1, <1>4 DEF D

\* A request ends.
LEMMA RoundTripKeeps ==
    ASSUME UdebugInv, NEW w \in Writers, RoundTrip(w)
    PROVE  UdebugInv'
<1>1. \E size \in Nat \ {0}, then \in Seq(DOMAIN bufs) :
          writing' = [writing EXCEPT ![w] = [log |-> 0, size |-> size, then |-> then]]
  <2>1. \A d \in DebugDevices : d \in DOMAIN bufs
    BY DEF UdebugInv, UdebugTypes
  <2> QED BY <2>1, EntryHasSize, TargetsAreKeys, Zenon DEF RoundTrip
<1>2. PICK size \in Nat \ {0}, then \in Seq(DOMAIN bufs) :
          writing' = [writing EXCEPT ![w] = [log |-> 0, size |-> size, then |-> then]]
  BY <1>1
<1>3. UNCHANGED <<bufs, heap, fed>>
  BY DEF RoundTrip
<1> DEFINE next == [log |-> 0, size |-> size, then |-> then]
<1>4. 0 \in 0..Len(heap)
  BY DEF UdebugInv, UdebugTypes
<1>5. next \in WritingType /\ next.size > 0
  BY <1>4 DEF WritingType
<1>6. writing' = [writing EXCEPT ![w] = next]
  BY <1>2
<1> HIDE DEF next
<1> QED BY <1>3, <1>5, <1>6, TransportKeeps

\* Every step keeps the invariant.
LEMMA UdebugStep == UdebugInv /\ [UdebugNext]_udebugVars => UdebugInv'
<1> SUFFICES ASSUME UdebugInv, [UdebugNext]_udebugVars PROVE UdebugInv'
  OBVIOUS
<1>1. ASSUME NEW k \in DebugDevices \cup DebugHosts, Clear(k) \/ \E enabled \in BOOLEAN : SetUltraDebug(k, enabled)
      PROVE  UdebugInv'
  <2>1. Clear(k) \/ Enable(k) \/ Disable(k)
    BY <1>1 DEF SetUltraDebug
  <2> QED BY <2>1, ClearKeeps, EnableKeeps, DisableKeeps
<1>2. ASSUME NEW k \in DebugDevices,
             ClearUltraDebug(k) \/ \E enabled \in BOOLEAN : SetUltraDebug(k, enabled)
      PROVE  UdebugInv'
  BY <1>1, <1>2 DEF ClearUltraDebug
<1>3. ASSUME NEW s \in Spellings,
             ClearUltraDebugHost(s) \/ \E enabled \in BOOLEAN : SetUltraDebugHost(s, enabled)
      PROVE  UdebugInv'
  <2>1. normalizeHost(s) \in DebugHosts
    BY <1>3 DEF ClearUltraDebugHost, SetUltraDebugHost
  <2>2. Clear(normalizeHost(s)) \/ \E enabled \in BOOLEAN : SetUltraDebug(normalizeHost(s), enabled)
    BY <1>3 DEF ClearUltraDebugHost, SetUltraDebugHost, SetUltraDebug
  <2> QED BY <1>1, <2>1, <2>2
<1>4. ASSUME NEW w \in Writers, RoundTrip(w) \/ Fetch(w) \/ Record(w) PROVE UdebugInv'
  BY <1>4, RoundTripKeeps, FetchKeeps, RecordKeeps
<1>5. CASE UNCHANGED udebugVars
  <2>1. WritingType' = WritingType
    BY <1>5 DEF udebugVars, WritingType
  <2> QED BY <1>5, <2>1 DEF udebugVars, UdebugInv, UdebugTypes, SomethingToWrite
<1> QED BY <1>2, <1>3, <1>4, <1>5 DEF UdebugNext

\* However writers, clearing, disabling and enabling interleave, and whatever the
\* sizes of a log and of its entries: every log, also one a writer still holds
\* after it was replaced, has the newest of what it was given since it was last
\* empty, as many as fit, and its count of bytes is exact
\* (internal/udebug/manager.go).
THEOREM LogKeepsNewest == UdebugSpec => []NewestEntriesKept
<1> QED BY UdebugStart, UdebugStep, UdebugHolds, PTL DEF UdebugSpec

-----------------------------------------------------------------------------
(* The hub of the open pages.                                              *)

HubSpec == HubInit /\ [][HubNext]_hubVars

(* The messages of a queue come in their order, pongs aside, between the   *)
(* last one taken and the last one moved to the client.                    *)
InOrder(q, low, high) ==
    \A k \in 1..Len(q) : q[k] # 0 => /\ low <= q[k] /\ q[k] <= high
                                     /\ \A l \in 1..k : q[l] <= q[k]

(* The last message there is, taken or still in the queue, is m.           *)
LatestIs(q, last, m) ==
    \/ (\A k \in 1..Len(q) : q[k] = 0) /\ last = m
    \/ m # 0 /\ \E k \in 1..Len(q) : q[k] = m /\ \A l \in 1..Len(q) : l > k => q[l] = 0

HubTypes ==
    /\ broadcast \in Seq(Nat) /\ newest \in Nat
    /\ DOMAIN hub = {"pc", "msg", "todo", "at"}
    /\ hub.pc \in {"select", "moving", "full", "retry", "stopped"} /\ hub.msg \in Nat
    /\ clients \subseteq Clients /\ hub.todo \subseteq clients
    /\ send \in [Clients -> [queue : Seq(Nat), closed : BOOLEAN]]
    /\ DOMAIN reader = Clients /\ DOMAIN open = Clients
    /\ writer \in [Clients -> [pc : {"wait", "count", "batch", "done"}, n : Int, last : Nat]]
    /\ expected \in [Clients -> Nat] /\ shown \in [Clients -> Nat]

(* What waits in the hub is newer than all that was moved on.              *)
Fresh ==
    /\ \A k \in 1..Len(broadcast) : /\ 0 < broadcast[k] /\ broadcast[k] <= newest
                                    /\ \A l \in 1..(k - 1) : broadcast[l] < broadcast[k]
                                    /\ \A c \in Clients : expected[c] < broadcast[k]
    /\ \A c \in Clients : expected[c] <= newest

\* The message being moved is the last of each page it is yet to be moved to.
Moving ==
    /\ hub.pc \in {"select", "stopped"} => hub.todo = {}
    /\ hub.pc \in {"full", "retry"} => hub.at \in hub.todo
    /\ \A c \in hub.todo : 0 < hub.msg /\ expected[c] = hub.msg

\* A client whose pumps have not started: its buffer has never been used.
Unborn(c) == reader[c] \in {"none", "register"}

\* What links a page to its buffer and its pump.  The messages in the buffer lie, in
\* order, between the last its pump took and the last moved to it.
Page(c) ==
    /\ c \in clients => ~send[c].closed /\ ~Unborn(c)
    /\ Unborn(c) => /\ send[c] = [queue |-> <<>>, closed |-> FALSE] /\ writer[c] = Waiting
                 /\ expected[c] = 0 /\ shown[c] = 0
    /\ writer[c].last <= expected[c] /\ shown[c] <= writer[c].last
    /\ writer[c].pc = "wait" => shown[c] = writer[c].last
    /\ InOrder(send[c].queue, writer[c].last, expected[c])

Latest(c) == LatestIs(send[c].queue, writer[c].last, expected[c])

\* Unless a pong took its place, the last message moved to a registered page is the
\* last its buffer and its pump hold, or the loop is still to put it there.
PageKept(c) == Page(c) /\ (c \in clients \ overtaken => c \in hub.todo \/ Latest(c))

HubInv == HubTypes /\ Fresh /\ Moving /\ \A c \in Clients : PageKept(c)

\* A page whose pump has nothing to send shows the last message moved to it.
PagesCurrent ==
    \A c \in clients \ overtaken :
        c \notin hub.todo /\ writer[c].pc = "wait" /\ (\A k \in 1..Len(send[c].queue) : send[c].queue[k] = 0)
          => shown[c] = expected[c]

\* The loop of the hub only sends to clients whose channel is open.
SendsToOpen == \A c \in clients \cup hub.todo : ~send[c].closed

\* A page never goes back to an older message.
NeverBack == [][\A c \in Clients : shown'[c] >= shown[c]]_hubVars

-----------------------------------------------------------------------------
\* The entries of a buffer after the first.
LEMMA TailFacts ==
    ASSUME NEW q \in Seq(Nat), q # <<>>
    PROVE  /\ Head(q) = q[1] /\ Head(q) \in Nat /\ Tail(q) \in Seq(Nat)
           /\ Len(q) \in Nat /\ 1 \in 1..Len(q) /\ Len(Tail(q)) = Len(q) - 1
           /\ \A k \in 1..Len(Tail(q)) : k + 1 \in 1..Len(q) /\ Tail(q)[k] = q[k + 1]
           /\ \A k \in 1..Len(q) : k = 1 \/ (k - 1 \in 1..Len(Tail(q)) /\ q[k] = Tail(q)[k - 1])
<1>1. Len(q) \in Nat /\ Len(q) >= 1 /\ Head(q) = q[1] /\ Tail(q) \in Seq(Nat) /\ Len(Tail(q)) = Len(q) - 1
  OBVIOUS
<1>2. \A k \in 1..Len(Tail(q)) : Tail(q)[k] = q[k + 1]
  OBVIOUS
<1>3. \A k \in 1..Len(Tail(q)) : k + 1 \in 1..Len(q)
  BY <1>1
<1>4. \A k \in 1..Len(q) : k = 1 \/ (k - 1 \in 1..Len(Tail(q)) /\ q[k] = Tail(q)[k - 1])
  <2> SUFFICES ASSUME NEW k \in 1..Len(q), k # 1 PROVE k - 1 \in 1..Len(Tail(q)) /\ q[k] = Tail(q)[k - 1]
    OBVIOUS
  <2>1. k - 1 \in 1..Len(Tail(q)) /\ (k - 1) + 1 = k
    BY <1>1
  <2> QED BY <1>2, <2>1
<1>5. Head(q) \in Nat /\ 1 \in 1..Len(q)
  BY <1>1
<1> QED BY <1>1, <1>2, <1>3, <1>4, <1>5

\* The entries of a buffer that got one more.
LEMMA AppendFacts ==
    ASSUME NEW q \in Seq(Nat), NEW m \in Nat
    PROVE  /\ Append(q, m) \in Seq(Nat) /\ Len(q) \in Nat /\ Len(Append(q, m)) = Len(q) + 1
           /\ Append(q, m)[Len(q) + 1] = m
           /\ \A k \in 1..Len(q) : Append(q, m)[k] = q[k]
           /\ \A k \in 1..Len(Append(q, m)) : k \in 1..Len(q) \/ k = Len(q) + 1
<1>1. /\ Append(q, m) \in Seq(Nat) /\ Len(q) \in Nat /\ Len(Append(q, m)) = Len(q) + 1
      /\ Append(q, m)[Len(q) + 1] = m
  OBVIOUS
<1>2. \A k \in 1..Len(q) : Append(q, m)[k] = q[k]
  OBVIOUS
<1> QED BY <1>1, <1>2

(* A message is taken.                                                     *)
LEMMA OrderTaken ==
    ASSUME NEW q \in Seq(Nat), q # <<>>, NEW low \in Nat, NEW high \in Nat, low <= high, InOrder(q, low, high)
    PROVE  /\ Newer(Head(q), low) \in Nat /\ low <= Newer(Head(q), low) /\ Newer(Head(q), low) <= high
           /\ InOrder(Tail(q), Newer(Head(q), low), high)
<1> DEFINE t == Tail(q)
           h == Newer(Head(q), low)
<1>1. h = IF q[1] = 0 THEN low ELSE q[1]
  BY TailFacts DEF Newer
<1>2. /\ q[1] \in Nat /\ 1 \in 1..Len(q) /\ Len(q) \in Nat /\ Len(t) \in Nat
      /\ \A k \in 1..Len(t) : k + 1 \in 1..Len(q) /\ t[k] = q[k + 1]
  BY TailFacts
<1>3. h \in Nat /\ low <= h /\ h <= high
  BY <1>1, <1>2 DEF InOrder
<1> HIDE DEF t, h
<1>4. InOrder(t, h, high)
  <2> SUFFICES ASSUME NEW k \in 1..Len(t), t[k] # 0
               PROVE  h <= t[k] /\ t[k] <= high /\ \A l \in 1..k : t[l] <= t[k]
    BY DEF InOrder
  <2>1. k + 1 \in 1..Len(q) /\ t[k] = q[k + 1]
    BY <1>2
  <2>2. low <= q[k + 1] /\ q[k + 1] <= high /\ \A l \in 1..(k + 1) : q[l] <= q[k + 1]
    BY <2>1 DEF InOrder
  <2>3. 1 \in 1..(k + 1)
    BY <1>2
  <2>4. h <= t[k]
    BY <1>1, <2>1, <2>2, <2>3
  <2>5. ASSUME NEW l \in 1..k PROVE t[l] <= t[k]
    <3>1. l + 1 \in 1..(k + 1) /\ l \in 1..Len(t)
      BY <1>2
    <3>2. t[l] = q[l + 1]
      BY <1>2, <3>1
    <3> QED BY <2>1, <2>2, <3>1, <3>2
  <2> QED BY <2>1, <2>2, <2>4, <2>5
<1> QED BY <1>3, <1>4 DEF t, h

(* A message is dropped.                                                   *)
LEMMA OrderDropped ==
    ASSUME NEW q \in Seq(Nat), q # <<>>, NEW low \in Nat, NEW high \in Nat, low <= high, InOrder(q, low, high)
    PROVE  InOrder(Tail(q), low, high)
<1> DEFINE t == Tail(q)
           h == Newer(Head(q), low)
<1>1. h \in Nat /\ low <= h /\ InOrder(t, h, high)
  BY OrderTaken
<1>2. t \in Seq(Nat)
  BY TailFacts
<1> HIDE DEF t, h
<1>3. \A k \in 1..Len(t) : t[k] \in Nat
  BY <1>2
<1> QED BY <1>1, <1>3 DEF InOrder, t

(* A pong, or the newest message, is put behind the others.                *)
LEMMA OrderAppended ==
    ASSUME NEW q \in Seq(Nat), NEW low \in Nat, NEW high \in Nat, low <= high, InOrder(q, low, high),
           NEW m \in {0, high}
    PROVE  InOrder(Append(q, m), low, high)
<1> DEFINE a == Append(q, m)
<1>0. m \in Nat
  OBVIOUS
<1>1. /\ Len(q) \in Nat /\ Len(a) = Len(q) + 1 /\ a[Len(q) + 1] = m
      /\ \A k \in 1..Len(q) : a[k] = q[k] /\ q[k] \in Nat
      /\ \A k \in 1..Len(a) : k \in 1..Len(q) \/ k = Len(q) + 1
  BY <1>0, AppendFacts
<1> HIDE DEF a
<1> SUFFICES ASSUME NEW k \in 1..Len(a), a[k] # 0
             PROVE  low <= a[k] /\ a[k] <= high /\ \A l \in 1..k : a[l] <= a[k]
  BY DEF InOrder, a
<1>2. CASE k \in 1..Len(q)
  <2>1. low <= q[k] /\ q[k] <= high /\ \A l \in 1..k : q[l] <= q[k]
    BY <1>1, <1>2 DEF InOrder
  <2>2. \A l \in 1..k : a[l] = q[l]
    BY <1>1, <1>2
  <2> QED BY <1>1, <1>2, <2>1, <2>2
<1>3. CASE k = Len(q) + 1
  <2>1. a[k] = high
    BY <1>1, <1>3
  <2>2. ASSUME NEW l \in 1..k PROVE a[l] <= high
    <3>1. CASE l = k
      BY <2>1, <3>1
    <3>2. CASE l \in 1..Len(q)
      <4>1. a[l] = q[l] /\ q[l] \in Nat /\ (q[l] # 0 => q[l] <= high)
        BY <1>1, <3>2 DEF InOrder
      <4> QED BY <4>1
    <3> QED BY <1>1, <1>3, <3>1, <3>2
  <2> QED BY <2>1, <2>2
<1> QED BY <1>1, <1>2, <1>3

\* Taking a message leaves the last there is what it was ...
LEMMA LatestTaken ==
    ASSUME NEW q \in Seq(Nat), q # <<>>, NEW low \in Nat, NEW m \in Nat, LatestIs(q, low, m)
    PROVE  LatestIs(Tail(q), Newer(Head(q), low), m)
<1> DEFINE t == Tail(q)
           h == Newer(Head(q), low)
<1>1. h = IF q[1] = 0 THEN low ELSE q[1]
  BY TailFacts DEF Newer
<1>2. /\ 1 \in 1..Len(q) /\ Len(q) \in Nat /\ Len(t) \in Nat
      /\ \A k \in 1..Len(t) : k + 1 \in 1..Len(q) /\ t[k] = q[k + 1]
      /\ \A k \in 1..Len(q) : k = 1 \/ (k - 1 \in 1..Len(t) /\ q[k] = t[k - 1])
  BY TailFacts
<1> HIDE DEF t, h
<1>3. CASE (\A k \in 1..Len(q) : q[k] = 0) /\ low = m
  <2>1. \A k \in 1..Len(t) : t[k] = 0
    BY <1>2, <1>3
  <2>2. h = m
    BY <1>1, <1>2, <1>3
  <2> QED BY <2>1, <2>2 DEF LatestIs, t, h
<1>4. CASE m # 0 /\ \E k \in 1..Len(q) : q[k] = m /\ \A l \in 1..Len(q) : l > k => q[l] = 0
  <2>1. PICK k \in 1..Len(q) : q[k] = m /\ \A l \in 1..Len(q) : l > k => q[l] = 0
    BY <1>4
  <2>2. ASSUME NEW l \in 1..Len(t), l + 1 > k PROVE t[l] = 0
    BY <1>2, <2>1, <2>2
  <2>3. CASE k = 1
    <3>1. \A l \in 1..Len(t) : t[l] = 0
      BY <1>2, <2>2, <2>3
    <3>2. h = m
      BY <1>1, <1>4, <2>1, <2>3
    <3> QED BY <3>1, <3>2 DEF LatestIs, t, h
  <2>4. CASE k # 1
    <3>1. k - 1 \in 1..Len(t) /\ t[k - 1] = m
      BY <1>2, <2>1, <2>4
    <3>2. \A l \in 1..Len(t) : l > k - 1 => t[l] = 0
      BY <1>2, <2>2
    <3> QED BY <1>4, <3>1, <3>2 DEF LatestIs, t, h
  <2> QED BY <2>3, <2>4
<1> QED BY <1>3, <1>4 DEF LatestIs

\* ... and so does a pong behind it,
LEMMA LatestPong ==
    ASSUME NEW q \in Seq(Nat), NEW low \in Nat, NEW m \in Nat, LatestIs(q, low, m)
    PROVE  LatestIs(Append(q, 0), low, m)
<1> DEFINE a == Append(q, 0)
<1>1. /\ Len(q) \in Nat /\ Len(a) = Len(q) + 1 /\ a[Len(q) + 1] = 0
      /\ \A k \in 1..Len(q) : a[k] = q[k]
      /\ \A k \in 1..Len(a) : k \in 1..Len(q) \/ k = Len(q) + 1
  BY AppendFacts
<1> HIDE DEF a
<1>2. CASE (\A k \in 1..Len(q) : q[k] = 0) /\ low = m
  <2>1. \A k \in 1..Len(a) : a[k] = 0
    BY <1>1, <1>2
  <2> QED BY <1>2, <2>1 DEF LatestIs, a
<1>3. CASE m # 0 /\ \E k \in 1..Len(q) : q[k] = m /\ \A l \in 1..Len(q) : l > k => q[l] = 0
  <2>1. PICK k \in 1..Len(q) : q[k] = m /\ \A l \in 1..Len(q) : l > k => q[l] = 0
    BY <1>3
  <2>2. k \in 1..Len(a) /\ a[k] = m /\ \A l \in 1..Len(a) : l > k => a[l] = 0
    BY <1>1, <2>1
  <2> QED BY <1>3, <2>2 DEF LatestIs, a
<1> QED BY <1>2, <1>3 DEF LatestIs

\* and a message put behind the others is the last.
LEMMA LatestMessage ==
    ASSUME NEW q \in Seq(Nat), NEW low \in Nat, NEW m \in Nat, m # 0
    PROVE  LatestIs(Append(q, m), low, m)
<1> DEFINE a == Append(q, m)
<1>1. Len(q) \in Nat /\ Len(a) = Len(q) + 1 /\ a[Len(q) + 1] = m
  BY AppendFacts
<1> HIDE DEF a
<1>2. Len(q) + 1 \in 1..Len(a) /\ \A l \in 1..Len(a) : ~(l > Len(q) + 1)
  BY <1>1
<1> QED BY <1>1, <1>2 DEF LatestIs, a

\* The hub starts with no client and no message.
LEMMA HubStarts == HubInit => HubInv
<1> SUFFICES ASSUME HubInit PROVE HubInv
  OBVIOUS
<1>1. <<>> \in Seq(Nat) /\ Len(<<>>) = 0
  OBVIOUS
<1>2. HubTypes
  <2>1. DOMAIN hub = {"pc", "msg", "todo", "at"} /\ hub.pc = "select" /\ hub.msg = 0 /\ hub.todo = {}
    BY DEF HubInit, Loop
  <2>2. send \in [Clients -> [queue : Seq(Nat), closed : BOOLEAN]]
    BY <1>1 DEF HubInit
  <2>3. writer \in [Clients -> [pc : {"wait", "count", "batch", "done"}, n : Int, last : Nat]]
    BY DEF HubInit, Waiting
  <2>4. broadcast \in Seq(Nat) /\ newest \in Nat /\ clients = {} /\ DOMAIN reader = Clients /\ DOMAIN open = Clients
        /\ expected \in [Clients -> Nat] /\ shown \in [Clients -> Nat]
    BY <1>1 DEF HubInit
  <2> QED BY <2>1, <2>2, <2>3, <2>4 DEF HubTypes
<1>3. Fresh
  BY <1>1 DEF HubInit, Fresh
<1>4. Moving
  BY DEF HubInit, Moving, Loop
<1>5. ASSUME NEW c \in Clients PROVE PageKept(c)
  <2>1. c \notin clients /\ send[c] = [queue |-> <<>>, closed |-> FALSE] /\ writer[c] = Waiting /\ expected[c] = 0 /\ shown[c] = 0
    BY DEF HubInit
  <2>2. writer[c].last = 0
    BY <2>1 DEF Waiting
  <2>3. InOrder(send[c].queue, writer[c].last, expected[c])
    BY <1>1, <2>1 DEF InOrder
  <2> QED BY <2>1, <2>2, <2>3 DEF PageKept, Page
<1> QED BY <1>2, <1>3, <1>4, <1>5 DEF HubInv

(* What is known of a page, taken apart.                                   *)
LEMMA PageFacts ==
    ASSUME HubInv, NEW c \in Clients
    PROVE  /\ send[c] \in [queue : Seq(Nat), closed : BOOLEAN]
           /\ send[c].queue \in Seq(Nat) /\ writer[c].last \in Nat /\ expected[c] \in Nat /\ shown[c] \in Nat
           /\ writer[c] \in [pc : {"wait", "count", "batch", "done"}, n : Int, last : Nat]
           /\ Page(c) /\ (c \in clients \ overtaken => c \in hub.todo \/ Latest(c))
BY DEF HubInv, HubTypes, PageKept

(* A page nothing happens to.                                              *)
LEMMA PageRests ==
    ASSUME NEW c \in Clients, PageKept(c), UNCHANGED <<send[c], writer[c], expected[c], shown[c]>>,
           c \in clients' <=> c \in clients, Unborn(c)' <=> Unborn(c),
           c \in overtaken => c \in overtaken', c \in hub.todo => c \in hub'.todo
    PROVE  PageKept(c)'
BY DEF PageKept, Page, Latest

\* A step of the broadcasters is none of the pages.
LEMMA PagesRest ==
    ASSUME HubInv, UNCHANGED <<hub, clients, send, reader, writer, expected, shown, overtaken>>
    PROVE  Moving' /\ \A c \in Clients : PageKept(c)'
<1>1. Moving'
  BY DEF HubInv, Moving
<1>2. \A c \in Clients : Unborn(c)' <=> Unborn(c)
  BY DEF Unborn
<1>3. \A c \in Clients : PageKept(c)'
  BY <1>2, PageRests DEF HubInv
<1> QED BY <1>1, <1>3

(* The buffer of the hub.                                                  *)
LEMMA PutKeeps ==
    ASSUME HubTypes, Fresh, Put, UNCHANGED expected
    PROVE  Fresh' /\ broadcast' \in Seq(Nat) /\ newest' \in Nat
<1> DEFINE b == broadcast
           m == newest + 1
           a == Append(b, m)
<1>1. b \in Seq(Nat) /\ newest \in Nat /\ m \in Nat /\ \A c \in Clients : expected[c] \in Nat
  BY DEF HubTypes
<1>2. broadcast' = a /\ newest' = m
  BY DEF Put
<1>3. a \in Seq(Nat) /\ Len(b) \in Nat /\ Len(a) = Len(b) + 1 /\ a[Len(b) + 1] = m
      /\ (\A k \in 1..Len(b) : a[k] = b[k])
      /\ \A k \in 1..Len(a) : k \in 1..Len(b) \/ k = Len(b) + 1
  <2> HIDE DEF b, m
  <2> QED BY <1>1, AppendFacts DEF a
<1>4. /\ \A k \in 1..Len(b) : /\ 0 < b[k] /\ b[k] <= newest /\ b[k] \in Nat
                              /\ \A l \in 1..(k - 1) : b[l] < b[k]
                              /\ \A c \in Clients : expected[c] < b[k]
      /\ \A c \in Clients : expected[c] <= newest
  BY <1>1 DEF Fresh
<1> HIDE DEF b, a
<1>5. ASSUME NEW k \in 1..Len(a)
      PROVE  /\ 0 < a[k] /\ a[k] <= m /\ \A l \in 1..(k - 1) : a[l] < a[k]
             /\ \A c \in Clients : expected[c] < a[k]
  <2>1. CASE k \in 1..Len(b)
    <3>1. a[k] = b[k] /\ \A l \in 1..(k - 1) : l \in 1..Len(b) /\ a[l] = b[l]
      BY <1>3, <2>1
    <3> QED BY <1>1, <1>4, <2>1, <3>1
  <2>2. CASE k = Len(b) + 1
    <3>1. a[k] = m /\ \A l \in 1..(k - 1) : l \in 1..Len(b) /\ a[l] = b[l]
      BY <1>3, <2>2
    <3>2. \A l \in 1..(k - 1) : a[l] < m
      BY <1>1, <1>4, <3>1
    <3> QED BY <1>1, <1>4, <3>1, <3>2
  <2> QED BY <1>3, <2>1, <2>2
<1>6. \A c \in Clients : expected[c] <= m
  BY <1>1, <1>4
<1>7. Fresh'
  BY <1>2, <1>5, <1>6 DEF Fresh
<1> QED BY <1>1, <1>2, <1>3, <1>7

\* The oldest goes: dropped, or taken by the loop, which then expects it of the registered.
LEMMA DropKeeps ==
    ASSUME HubTypes, Fresh, broadcast # <<>>, broadcast' = Tail(broadcast), UNCHANGED newest,
           \/ UNCHANGED expected
           \/ \A c \in Clients : expected'[c] \in {expected[c], Head(broadcast)}
    PROVE  Fresh' /\ broadcast' \in Seq(Nat)
<1> DEFINE b == broadcast
           t == Tail(b)
<1>1. b \in Seq(Nat) /\ b # <<>>
  BY DEF HubTypes
<1>2. /\ Head(b) = b[1] /\ t \in Seq(Nat) /\ Len(b) \in Nat /\ 1 \in 1..Len(b) /\ Len(t) \in Nat
      /\ \A k \in 1..Len(t) : k + 1 \in 1..Len(b) /\ t[k] = b[k + 1]
  <2> HIDE DEF b
  <2> QED BY <1>1, TailFacts
<1>3. \A k \in 1..Len(b) : /\ 0 < b[k] /\ b[k] <= newest
                           /\ \A l \in 1..(k - 1) : b[l] < b[k]
                           /\ \A c \in Clients : expected[c] < b[k]
  BY DEF Fresh
<1>4. \A c \in Clients : expected[c] <= newest /\ expected'[c] \in {expected[c], b[1]}
  BY <1>2 DEF Fresh
<1>5. broadcast' = t
  OBVIOUS
<1> HIDE DEF b, t
<1>6. ASSUME NEW k \in 1..Len(t)
      PROVE  /\ 0 < t[k] /\ t[k] <= newest /\ \A l \in 1..(k - 1) : t[l] < t[k]
             /\ \A c \in Clients : expected'[c] < t[k]
  <2>1. k + 1 \in 1..Len(b) /\ t[k] = b[k + 1] /\ 1 \in 1..((k + 1) - 1)
    BY <1>2
  <2>2. /\ 0 < b[k + 1] /\ b[k + 1] <= newest /\ \A l \in 1..((k + 1) - 1) : b[l] < b[k + 1]
        /\ \A c \in Clients : expected[c] < b[k + 1]
    BY <1>3, <2>1
  <2>3. ASSUME NEW l \in 1..(k - 1) PROVE t[l] < t[k]
    <3>1. l \in 1..Len(t) /\ l + 1 \in 1..((k + 1) - 1)
      BY <1>2
    <3>2. t[l] = b[l + 1]
      BY <1>2, <3>1
    <3> QED BY <2>1, <2>2, <3>1, <3>2
  <2>4. b[1] < b[k + 1]
    BY <2>1, <2>2
  <2>5. \A c \in Clients : expected'[c] < t[k]
    BY <1>4, <2>1, <2>2, <2>4
  <2> QED BY <2>1, <2>2, <2>3, <2>5
<1>7. \A c \in Clients : expected'[c] <= newest
  <2>1. b[1] <= newest
    BY <1>2, <1>3
  <2> QED BY <1>4, <2>1
<1>8. Fresh'
  BY <1>5, <1>6, <1>7 DEF Fresh
<1> QED BY <1>2, <1>5, <1>8

\* The three steps of Broadcast.
LEMMA BroadcastKeeps ==
    ASSUME HubInv, NEW p \in Producers, Broadcast(p) \/ BroadcastDrop(p) \/ BroadcastRetry(p)
    PROVE  HubInv'
<1>1. UNCHANGED <<hub, clients, send, reader, writer, open, expected, shown, overtaken>>
  BY DEF Broadcast, BroadcastDrop, BroadcastRetry
<1>2. Put \/ UNCHANGED <<broadcast, newest>>
      \/ (broadcast # <<>> /\ broadcast' = Tail(broadcast) /\ UNCHANGED newest)
  <2>1. CASE Broadcast(p) \/ BroadcastRetry(p)
    BY <2>1 DEF Broadcast, BroadcastRetry
  <2>2. CASE BroadcastDrop(p)
    BY <2>2 DEF BroadcastDrop
  <2> QED BY <2>1, <2>2
<1>3. HubTypes /\ Fresh
  BY DEF HubInv
<1>4. Fresh' /\ broadcast' \in Seq(Nat) /\ newest' \in Nat
  <2>1. CASE Put
    BY <1>1, <1>3, <2>1, PutKeeps
  <2>2. CASE UNCHANGED <<broadcast, newest>>
    BY <1>1, <1>3, <2>2 DEF Fresh, HubTypes
  <2>3. CASE broadcast # <<>> /\ broadcast' = Tail(broadcast) /\ UNCHANGED newest
    <3>1. Fresh' /\ broadcast' \in Seq(Nat)
      BY <1>1, <1>3, <2>3, DropKeeps
    <3> QED BY <1>3, <2>3, <3>1 DEF HubTypes
  <2> QED BY <1>2, <2>1, <2>2, <2>3
<1>5. HubTypes'
  BY <1>1, <1>3, <1>4 DEF HubTypes
<1> QED BY <1>1, <1>4, <1>5, PagesRest DEF HubInv

(* The loop takes a message for all clients there are.                     *)
LEMMA TakeKeeps == ASSUME HubInv, Take PROVE HubInv'
<1> DEFINE m == Head(broadcast)
<1>1. HubTypes /\ Fresh /\ broadcast # <<>> /\ broadcast' = Tail(broadcast)
      /\ UNCHANGED <<newest, clients, send, reader, writer, open, shown, overtaken>>
  BY DEF HubInv, Take
<1>2. \A c \in Clients : expected'[c] = IF c \in clients THEN m ELSE expected[c]
  BY DEF Take
<1>3. broadcast \in Seq(Nat)
  BY <1>1 DEF HubTypes
<1>4. m = broadcast[1] /\ m \in Nat /\ 1 \in 1..Len(broadcast)
  BY <1>1, <1>3, TailFacts
<1>5. 0 < m /\ \A c \in Clients : expected[c] < m
  BY <1>1, <1>4 DEF Fresh
<1> HIDE DEF m
<1>6. Fresh' /\ broadcast' \in Seq(Nat)
  <2>1. \A c \in Clients : expected'[c] \in {expected[c], Head(broadcast)}
    BY <1>2 DEF m
  <2> QED BY <1>1, <2>1, DropKeeps
<1>7. expected' \in [Clients -> Nat]
  <2>1. expected' = [c \in Clients |-> IF c \in clients THEN m ELSE expected[c]]
    BY DEF Take, m
  <2> QED BY <1>1, <1>4, <2>1 DEF HubTypes
<1>8. \/ clients = {} /\ hub' = Loop
      \/ clients # {} /\ hub' = [pc |-> "moving", msg |-> m, todo |-> clients, at |-> NoClient]
  BY DEF Take, Loop, m
<1>9. HubTypes'
  <2>1. DOMAIN hub' = {"pc", "msg", "todo", "at"} /\ hub'.pc \in {"select", "moving"} /\ hub'.msg \in Nat
        /\ hub'.todo \subseteq clients
    BY <1>4, <1>8 DEF Loop
  <2> QED BY <1>1, <1>6, <1>7, <2>1 DEF HubTypes
<1>10. Moving'
  <2>1. CASE hub' = Loop
    BY <2>1 DEF Moving, Loop
  <2>2. CASE hub' = [pc |-> "moving", msg |-> m, todo |-> clients, at |-> NoClient]
    BY <1>1, <1>2, <1>5, <2>2 DEF Moving, HubTypes
  <2> QED BY <1>8, <2>1, <2>2
<1>11. ASSUME NEW c \in Clients PROVE PageKept(c)'
  <2>1. Unborn(c)' <=> Unborn(c)
    BY <1>1 DEF Unborn
  <2>2. CASE c \in clients
    <3>1. Page(c) /\ send[c].queue \in Seq(Nat) /\ writer[c].last \in Nat /\ expected[c] \in Nat
      BY PageFacts
    <3>2. expected'[c] = m /\ c \in hub'.todo
      BY <1>2, <1>8, <2>2
    <3>3. InOrder(send[c].queue, writer[c].last, m)
      <4> DEFINE q == send[c].queue
      <4>1. q \in Seq(Nat) /\ InOrder(q, writer[c].last, expected[c])
        BY <3>1 DEF Page
      <4> HIDE DEF q
      <4>2. \A k \in 1..Len(q) : q[k] \in Nat
        BY <4>1
      <4>3. expected[c] < m
        BY <1>5
      <4>4. ASSUME NEW k \in 1..Len(q), q[k] # 0
            PROVE  writer[c].last <= q[k] /\ q[k] <= m /\ \A l \in 1..k : q[l] <= q[k]
        <5>1. writer[c].last <= q[k] /\ q[k] <= expected[c] /\ \A l \in 1..k : q[l] <= q[k]
          BY <4>1, <4>4 DEF InOrder
        <5>2. q[k] <= m
          <6>1. q[k] \in Nat /\ expected[c] \in Nat /\ m \in Nat
            BY <1>4, <3>1, <4>2
          <6> QED BY <4>3, <5>1, <6>1
        <5> QED BY <5>1, <5>2
      <4>5. InOrder(q, writer[c].last, m)
        BY <4>4 DEF InOrder
      <4> QED BY <4>5 DEF q
    <3>4. writer[c].last <= m
      BY <1>4, <1>5, <3>1 DEF Page
    <3>5. Page(c)'
      BY <1>1, <2>1, <2>2, <3>1, <3>2, <3>3, <3>4 DEF Page
    <3> QED BY <3>2, <3>5 DEF PageKept
  <2>3. CASE c \notin clients
    <3>1. c \notin hub.todo /\ PageKept(c)
      BY <1>1, <2>3 DEF HubTypes, HubInv
    <3>2. expected'[c] = expected[c]
      BY <1>2, <2>3
    <3> QED BY <1>1, <2>1, <3>1, <3>2, PageRests
  <2> QED BY <2>2, <2>3
<1> QED BY <1>6, <1>9, <1>10, <1>11 DEF HubInv

SendType == [Clients -> [queue : Seq(Nat), closed : BOOLEAN]]
HubType == DOMAIN hub = {"pc", "msg", "todo", "at"} /\ hub.msg \in Nat
           /\ hub.pc \in {"select", "moving", "full", "retry", "stopped"}

\* One message more in the buffer of a client ...
LEMMA EnqueueSends ==
    ASSUME HubInv, NEW c \in Clients, NEW m \in Nat, Enqueue(c, m)
    PROVE  /\ send' \in SendType /\ \A d \in Clients : d # c => send'[d] = send[d]
           /\ send'[c].queue = Append(send[c].queue, m) /\ send'[c].closed = send[c].closed
<1>1. send \in SendType /\ send' = [send EXCEPT ![c].queue = Append(@, m)]
  BY DEF HubInv, HubTypes, SendType, Enqueue
<1>2. Append(send[c].queue, m) \in Seq(Nat)
  <2>1. send[c].queue \in Seq(Nat)
    BY PageFacts
  <2> QED BY <2>1, AppendFacts
<1> QED BY <1>1, <1>2 DEF SendType

\* ... or one less.
LEMMA DequeueSends ==
    ASSUME HubInv, NEW c \in Clients, send[c].queue # <<>>, send' = [send EXCEPT ![c].queue = Tail(send[c].queue)]
    PROVE  /\ send' \in SendType /\ \A d \in Clients : d # c => send'[d] = send[d]
           /\ send'[c].queue = Tail(send[c].queue) /\ send'[c].closed = send[c].closed
<1>1. send \in SendType
  BY DEF HubInv, HubTypes, SendType
<1>2. Tail(send[c].queue) \in Seq(Nat)
  <2>1. send[c].queue \in Seq(Nat)
    BY PageFacts
  <2> QED BY <2>1, TailFacts
<1> QED BY <1>1, <1>2 DEF SendType

\* One client less to move the message to; the loop selects again after the last.
LEMMA MovedLoop ==
    ASSUME HubInv, NEW c \in hub.todo, Moved(c), UNCHANGED <<clients, expected>>
    PROVE  HubType' /\ hub'.todo = hub.todo \ {c} /\ Moving'
<1>1. HubTypes /\ Moving
  BY DEF HubInv
<1>2. CASE hub.todo = {c} /\ hub' = Loop
  BY <1>2 DEF Moving, HubType, Loop
<1>3. CASE hub.todo # {c} /\ hub' = [hub EXCEPT !.pc = "moving", !.todo = @ \ {c}, !.at = NoClient]
  <2>1. DOMAIN hub' = DOMAIN hub /\ hub'.pc = "moving" /\ hub'.todo = hub.todo \ {c} /\ hub'.msg = hub.msg
    BY <1>1, <1>3 DEF HubTypes
  <2> QED BY <1>1, <2>1 DEF Moving, HubTypes, HubType
<1> QED BY <1>2, <1>3 DEF Moved

\* The message goes in: it is now the last of that page, whatever was before.
LEMMA PlaceFound ==
    ASSUME HubInv, NEW c \in hub.todo, Enqueue(c, hub.msg), Moved(c), overtaken' = overtaken \ {c},
           UNCHANGED <<broadcast, newest, clients, reader, writer, open, expected, shown>>
    PROVE  HubInv'
<1> DEFINE q == send[c].queue
           m == expected[c]
<1>1. HubTypes /\ Fresh /\ Moving /\ c \in Clients /\ c \in clients /\ m = hub.msg /\ m \in Nat /\ m # 0
  BY DEF HubInv, HubTypes, Moving
<1>2. HubType' /\ hub'.todo = hub.todo \ {c} /\ Moving'
  BY MovedLoop
<1>3. /\ send' \in SendType /\ \A d \in Clients : d # c => send'[d] = send[d]
      /\ send'[c].queue = Append(q, m) /\ send'[c].closed = send[c].closed
  BY <1>1, EnqueueSends
<1>4. q \in Seq(Nat) /\ writer[c].last \in Nat /\ Page(c)
  BY <1>1, PageFacts
<1> HIDE DEF q, m
<1>5. HubTypes' /\ Fresh'
  BY <1>1, <1>2, <1>3 DEF HubTypes, HubType, SendType, Fresh
<1>6. \A d \in Clients : Unborn(d)' <=> Unborn(d)
  BY DEF Unborn
<1>7. PageKept(c)'
  <2>1. writer[c].last <= m /\ InOrder(q, writer[c].last, m)
    BY <1>4 DEF Page, q, m
  <2>2. InOrder(Append(q, m), writer[c].last, m)
    <3> DEFINE low == writer[c].last
    <3>1. low \in Nat /\ low <= m /\ InOrder(q, low, m) /\ m \in {0, m}
      BY <1>4, <2>1
    <3> HIDE DEF low
    <3>2. InOrder(Append(q, m), low, m)
      BY <1>1, <1>4, <3>1, OrderAppended
    <3> QED BY <3>2 DEF low
  <2>3. LatestIs(Append(q, m), writer[c].last, m)
    BY <1>1, <1>4, LatestMessage
  <2>4. ~Unborn(c)
    BY <1>1, <1>4 DEF Page
  <2>5. Page(c)'
    BY <1>3, <1>4, <1>6, <2>2, <2>4, <1>1 DEF Page, m
  <2>6. Latest(c)'
    BY <1>3, <2>3 DEF Latest, m
  <2> QED BY <2>5, <2>6 DEF PageKept
<1>8. ASSUME NEW d \in Clients, d # c PROVE PageKept(d)'
  <2>1. d \in overtaken => d \in overtaken'
    BY <1>8
  <2>2. d \in hub.todo => d \in hub'.todo
    BY <1>2, <1>8
  <2>3. PageKept(d)
    BY DEF HubInv
  <2> QED BY <1>3, <1>6, <1>8, <2>1, <2>2, <2>3, PageRests
<1> QED BY <1>2, <1>5, <1>7, <1>8 DEF HubInv

\* The first try, ...
LEMMA MoveKeeps == ASSUME HubInv, NEW c \in Clients, Move(c) PROVE HubInv'
<1>1. c \in hub.todo /\ hub.pc = "moving"
      /\ UNCHANGED <<broadcast, newest, clients, reader, writer, open, expected, shown>>
  BY DEF Move
<1>2. CASE Room(c)
  <2>1. Enqueue(c, hub.msg) /\ Moved(c) /\ overtaken' = overtaken \ {c}
    BY <1>2 DEF Move
  <2> QED BY <1>1, <2>1, PlaceFound
<1>3. CASE ~Room(c)
  <2>1. hub' = [hub EXCEPT !.pc = "full", !.at = c] /\ UNCHANGED <<send, overtaken>>
    BY <1>3 DEF Move
  <2>2. HubTypes /\ Fresh /\ Moving
    BY DEF HubInv
  <2>3. DOMAIN hub' = DOMAIN hub /\ hub'.pc = "full" /\ hub'.at = c /\ hub'.todo = hub.todo /\ hub'.msg = hub.msg
    BY <2>1, <2>2 DEF HubTypes
  <2>4. HubTypes' /\ Fresh' /\ Moving'
    BY <1>1, <2>1, <2>2, <2>3 DEF HubTypes, Fresh, Moving
  <2>5. \A d \in Clients : PageKept(d) /\ (Unborn(d)' <=> Unborn(d))
    BY <1>1 DEF HubInv, Unborn
  <2>6. \A d \in Clients : PageKept(d)'
    BY <1>1, <2>1, <2>3, <2>5, PageRests
  <2> QED BY <2>4, <2>6 DEF HubInv
<1> QED BY <1>2, <1>3

\* ... the drop, at whose end the loop still owes the page its message, ...
LEMMA MoveDropKeeps == ASSUME HubInv, MoveDrop PROVE HubInv'
<1>0. PICK c \in hub.todo : c = hub.at
  BY DEF HubInv, Moving, MoveDrop
<1> DEFINE q == send[c].queue
<1>1. HubTypes /\ Fresh /\ Moving /\ c \in hub.todo /\ c \in clients /\ c \in Clients
  BY DEF HubInv, HubTypes
<1>2. UNCHANGED <<broadcast, newest, clients, reader, writer, open, expected, shown, overtaken>>
  BY DEF MoveDrop
<1>3. DOMAIN hub' = DOMAIN hub /\ hub'.pc = "retry" /\ hub'.at = c /\ hub'.todo = hub.todo /\ hub'.msg = hub.msg
  BY <1>0, <1>1 DEF HubTypes, MoveDrop
<1>4. /\ send' \in SendType /\ \A d \in Clients : d # c => send'[d] = send[d]
      /\ send'[c].closed = send[c].closed
      /\ send'[c].queue = IF q = <<>> THEN q ELSE Tail(q)
  <2>1. CASE q = <<>>
    <3>1. send' = send
      <4>1. send' = [send EXCEPT ![c].queue = send[c].queue]
        BY <1>0, <2>1 DEF MoveDrop
      <4> QED BY <1>1, <4>1 DEF HubTypes
    <3> QED BY <1>1, <2>1, <3>1 DEF HubTypes, SendType
  <2>2. CASE q # <<>>
    <3>1. send' = [send EXCEPT ![c].queue = Tail(send[c].queue)]
      BY <1>0, <2>2 DEF MoveDrop
    <3> QED BY <1>1, <2>2, <3>1, DequeueSends
  <2> QED BY <2>1, <2>2
<1>5. HubTypes' /\ Fresh' /\ Moving'
  BY <1>1, <1>2, <1>3, <1>4 DEF HubTypes, SendType, Fresh, Moving
<1>6. \A d \in Clients : PageKept(d) /\ (Unborn(d)' <=> Unborn(d))
  BY <1>2 DEF HubInv, Unborn
<1>7. q \in Seq(Nat) /\ writer[c].last \in Nat /\ expected[c] \in Nat /\ Page(c)
  BY <1>1, PageFacts
<1>8. PageKept(c)'
  <2>1. writer[c].last <= expected[c] /\ InOrder(q, writer[c].last, expected[c])
    BY <1>7 DEF Page
  <2>2. InOrder(send'[c].queue, writer[c].last, expected[c])
    <3> DEFINE low == writer[c].last
               high == expected[c]
    <3>1. low \in Nat /\ high \in Nat /\ low <= high /\ InOrder(q, low, high)
      BY <1>7, <2>1
    <3> HIDE DEF q, low, high
    <3>2. q # <<>> => InOrder(Tail(q), low, high)
      BY <1>7, <3>1, OrderDropped
    <3>3. InOrder(send'[c].queue, low, high)
      BY <1>4, <3>1, <3>2
    <3> QED BY <3>3 DEF low, high
  <2>3. ~Unborn(c)
    BY <1>1, <1>7 DEF Page
  <2>4. Page(c)'
    BY <1>1, <1>2, <1>4, <1>6, <1>7, <2>2, <2>3 DEF Page
  <2> QED BY <1>1, <1>3, <2>4 DEF PageKept
<1>9. ASSUME NEW d \in Clients, d # c PROVE PageKept(d)'
  BY <1>2, <1>3, <1>4, <1>6, <1>9, PageRests
<1> QED BY <1>5, <1>8, <1>9 DEF HubInv

\* ... and the second try, which a pong can spoil: the page is then overtaken.
LEMMA MoveRetryKeeps == ASSUME HubInv, MoveRetry PROVE HubInv'
<1>0. PICK c \in hub.todo : c = hub.at
  BY DEF HubInv, Moving, MoveRetry
<1>1. HubTypes /\ Fresh /\ c \in clients /\ c \in Clients /\ Moved(c)
      /\ UNCHANGED <<broadcast, newest, clients, reader, writer, open, expected, shown>>
  BY <1>0 DEF HubInv, HubTypes, MoveRetry
<1>2. CASE Room(c)
  <2>1. Enqueue(c, hub.msg) /\ overtaken' = overtaken \ {c}
    BY <1>0, <1>2 DEF MoveRetry
  <2> QED BY <1>1, <2>1, PlaceFound
<1>3. CASE ~Room(c)
  <2>1. overtaken' = overtaken \cup {c} /\ UNCHANGED send
    BY <1>0, <1>3 DEF MoveRetry
  <2>2. HubType' /\ hub'.todo = hub.todo \ {c} /\ Moving'
    BY <1>1, MovedLoop
  <2>3. HubTypes' /\ Fresh'
    BY <1>1, <2>1, <2>2 DEF HubTypes, HubType, Fresh
  <2>4. \A d \in Clients : PageKept(d) /\ (Unborn(d)' <=> Unborn(d))
    BY <1>1 DEF HubInv, Unborn
  <2>5. ASSUME NEW d \in Clients PROVE PageKept(d)'
    <3>1. CASE d = c
      <4>1. Page(c)'
        BY <1>1, <2>1, <2>4 DEF PageKept, Page
      <4> QED BY <2>1, <3>1, <4>1 DEF PageKept
    <3>2. CASE d # c
      BY <1>1, <2>1, <2>2, <2>4, <3>2, PageRests
    <3> QED BY <3>1, <3>2
  <2> QED BY <2>2, <2>3, <2>5 DEF HubInv
<1> QED BY <1>2, <1>3

(* Pages come and go.                                                      *)
LEMMA RegisterKeeps == ASSUME HubInv, NEW c \in Clients, Register(c) PROVE HubInv'
<1>1. /\ hub.pc = "select" /\ reader[c] = "register" /\ clients' = clients \cup {c}
      /\ UNCHANGED <<broadcast, newest, hub, send, writer, open, expected, shown, overtaken>>
  BY DEF Register
<1>2. HubTypes /\ Fresh /\ Moving
  BY DEF HubInv
<1>3. DOMAIN reader' = Clients /\ reader'[c] = "reading" /\ \A d \in Clients : d # c => reader'[d] = reader[d]
  BY <1>2 DEF Register, HubTypes
<1>4. HubTypes' /\ Fresh' /\ Moving'
  BY <1>1, <1>2, <1>3 DEF HubTypes, Fresh, Moving
<1>5. Unborn(c) /\ ~Unborn(c)' /\ \A d \in Clients : d # c => (Unborn(d)' <=> Unborn(d))
  BY <1>1, <1>3 DEF Unborn
<1>6. PageKept(c)'
  <2>1. Page(c) /\ send[c] = [queue |-> <<>>, closed |-> FALSE] /\ writer[c] = Waiting /\ expected[c] = 0
    BY <1>5 DEF HubInv, PageKept, Page
  <2>2. Len(<<>>) = 0
    OBVIOUS
  <2>3. send[c].queue = <<>> /\ ~send[c].closed /\ writer[c].last = 0
    BY <2>1 DEF Waiting
  <2>4. Latest(c)
    BY <2>1, <2>2, <2>3 DEF Latest, LatestIs
  <2>5. Latest(c)'
    BY <1>1, <2>4 DEF Latest
  <2>6. Page(c)'
    BY <1>1, <1>5, <2>1, <2>3 DEF Page
  <2> QED BY <2>5, <2>6 DEF PageKept
<1>7. ASSUME NEW d \in Clients, d # c PROVE PageKept(d)'
  BY <1>1, <1>5, <1>7, PageRests DEF HubInv
<1> QED BY <1>4, <1>6, <1>7 DEF HubInv

\* A page that leaves is no client any more, and its buffer is closed.
LEMMA UnregisterKeeps == ASSUME HubInv, NEW c \in Clients, Unregister(c) PROVE HubInv'
<1>1. /\ hub.pc = "select" /\ reader[c] = "leaving" /\ clients' = clients \ {c}
      /\ UNCHANGED <<broadcast, newest, hub, writer, expected, shown, overtaken>>
  BY DEF Unregister
<1>2. HubTypes /\ Fresh /\ Moving
  BY DEF HubInv
<1>3. /\ DOMAIN reader' = Clients /\ reader'[c] = "gone" /\ DOMAIN open' = Clients
      /\ \A d \in Clients : d # c => reader'[d] = reader[d]
  BY <1>2 DEF Unregister, HubTypes
<1>4. /\ send' \in SendType /\ \A d \in Clients : d # c => send'[d] = send[d]
      /\ send'[c].queue = send[c].queue
  <2>1. send \in SendType /\ send' = [send EXCEPT ![c].closed = TRUE]
    BY <1>2 DEF Unregister, HubTypes, SendType
  <2>2. \A d \in Clients : d # c => send'[d] = send[d]
    BY <2>1 DEF SendType
  <2>3. send[c] \in [queue : Seq(Nat), closed : BOOLEAN]
        /\ send'[c] = [send[c] EXCEPT !.closed = TRUE] /\ DOMAIN send' = Clients
    BY <2>1 DEF SendType
  <2>4. send'[c] \in [queue : Seq(Nat), closed : BOOLEAN] /\ send'[c].queue = send[c].queue
    BY <2>3
  <2>5. send' \in SendType
    BY <2>1, <2>4 DEF SendType
  <2> QED BY <2>2, <2>4, <2>5
<1>5. HubTypes' /\ Fresh' /\ Moving'
  BY <1>1, <1>2, <1>3, <1>4 DEF HubTypes, SendType, Fresh, Moving
<1>6. ~Unborn(c)' /\ \A d \in Clients : d # c => (Unborn(d)' <=> Unborn(d))
  BY <1>3 DEF Unborn
<1>7. PageKept(c)'
  <2>1. Page(c)
    BY DEF HubInv, PageKept
  <2> QED BY <1>1, <1>4, <1>6, <2>1 DEF PageKept, Page
<1>8. ASSUME NEW d \in Clients, d # c PROVE PageKept(d)'
  BY <1>1, <1>4, <1>6, <1>8, PageRests DEF HubInv
<1> QED BY <1>5, <1>7, <1>8 DEF HubInv

\* The hub stops, and every client's buffer is closed.
LEMMA StopHubKeeps == ASSUME HubInv, StopHub PROVE HubInv'
<1>1. hub.pc = "select" /\ clients' = {}
      /\ UNCHANGED <<broadcast, newest, reader, writer, open, expected, shown, overtaken>>
  BY DEF StopHub
<1>2. HubTypes /\ Fresh /\ Moving
  BY DEF HubInv
<1>3. /\ send' \in SendType
      /\ \A d \in Clients : /\ send'[d].queue = send[d].queue
                            /\ d \notin clients => send'[d] = send[d]
  <2>1. send \in SendType
        /\ send' = [c \in Clients |-> IF c \in clients THEN [send[c] EXCEPT !.closed = TRUE] ELSE send[c]]
    BY <1>2 DEF StopHub, HubTypes, SendType
  <2>2. ASSUME NEW d \in Clients
        PROVE  /\ send'[d] \in [queue : Seq(Nat), closed : BOOLEAN] /\ send'[d].queue = send[d].queue
               /\ d \notin clients => send'[d] = send[d]
    <3>1. send[d] \in [queue : Seq(Nat), closed : BOOLEAN]
      BY <2>1 DEF SendType
    <3>2. send'[d] = IF d \in clients THEN [send[d] EXCEPT !.closed = TRUE] ELSE send[d]
      BY <2>1
    <3> QED BY <3>1, <3>2
  <2>3. send' \in SendType
    BY <2>1, <2>2 DEF SendType
  <2> QED BY <2>2, <2>3
<1>4. DOMAIN hub' = {"pc", "msg", "todo", "at"} /\ hub'.pc = "stopped" /\ hub'.msg = 0 /\ hub'.todo = {}
  BY DEF StopHub, Loop
<1>5. HubTypes' /\ Fresh' /\ Moving'
  BY <1>1, <1>2, <1>3, <1>4 DEF HubTypes, SendType, Fresh, Moving
<1>6. ASSUME NEW d \in Clients PROVE PageKept(d)'
  <2>1. Page(d) /\ (Unborn(d)' <=> Unborn(d)) /\ (Unborn(d) => d \notin clients)
    BY <1>1 DEF HubInv, PageKept, Page, Unborn
  <2> QED BY <1>1, <1>3, <2>1 DEF PageKept, Page
<1> QED BY <1>5, <1>6 DEF HubInv

\* ServeWS starts a page; its readPump ends.
LEMMA ReaderKeeps ==
    ASSUME HubInv, NEW c \in Clients, ServeWS(c) \/ Leave(c)
    PROVE  HubInv'
<1>1. UNCHANGED <<broadcast, newest, hub, clients, send, writer, expected, shown, overtaken>>
  BY DEF ServeWS, Leave
<1>2. HubTypes /\ Fresh
  BY DEF HubInv
<1>3. /\ DOMAIN reader' = Clients /\ DOMAIN open' = Clients
      /\ \A d \in Clients : Unborn(d)' <=> Unborn(d)
  <2>1. CASE ServeWS(c)
    BY <1>2, <2>1 DEF ServeWS, HubTypes, Unborn
  <2>2. CASE Leave(c)
    BY <1>2, <2>2 DEF Leave, HubTypes, Unborn
  <2> QED BY <2>1, <2>2
<1>4. HubTypes' /\ Fresh' /\ Moving'
  BY <1>1, <1>2, <1>3 DEF HubInv, HubTypes, Fresh, Moving
<1>5. \A d \in Clients : PageKept(d)'
  BY <1>1, <1>3, PageRests DEF HubInv
<1> QED BY <1>4, <1>5 DEF HubInv

\* A pong, like a message, goes to the end, and is not one.
LEMMA PingKeeps == ASSUME HubInv, NEW c \in Clients, Ping(c) PROVE HubInv'
<1>1. reader[c] = "reading" /\ (Enqueue(c, 0) \/ UNCHANGED send)
      /\ UNCHANGED <<broadcast, newest, hub, clients, reader, writer, open, expected, shown, overtaken>>
  BY DEF Ping
<1>2. HubTypes /\ Fresh
  BY DEF HubInv
<1>3. CASE UNCHANGED send
  <2>1. HubTypes' /\ Fresh'
    BY <1>1, <1>2, <1>3 DEF HubTypes, Fresh
  <2> QED BY <1>1, <1>3, <2>1, PagesRest DEF HubInv
<1>4. CASE Enqueue(c, 0)
  <2> DEFINE q == send[c].queue
             low == writer[c].last
             high == expected[c]
  <2>1. /\ send' \in SendType /\ \A d \in Clients : d # c => send'[d] = send[d]
        /\ send'[c].queue = Append(q, 0) /\ send'[c].closed = send[c].closed
    BY <1>4, EnqueueSends
  <2>2. q \in Seq(Nat) /\ low \in Nat /\ high \in Nat /\ Page(c)
        /\ (c \in clients \ overtaken => c \in hub.todo \/ Latest(c))
    BY PageFacts
  <2>3. low <= high /\ InOrder(q, low, high) /\ (Latest(c) => LatestIs(q, low, high))
    BY <2>2 DEF Page, Latest
  <2>4. HubTypes' /\ Fresh' /\ Moving'
    BY <1>1, <1>2, <2>1 DEF HubInv, HubTypes, SendType, Fresh, Moving
  <2>5. \A d \in Clients : Unborn(d)' <=> Unborn(d)
    BY <1>1 DEF Unborn
  <2>6. ~Unborn(c)
    BY <1>1 DEF Unborn
  <2>7. low = writer'[c].last /\ high = expected'[c]
    BY <1>1
  <2> HIDE DEF q, low, high
  <2>8. InOrder(Append(q, 0), low, high) /\ (LatestIs(q, low, high) => LatestIs(Append(q, 0), low, high))
    <3>1. 0 \in {0, high}
      OBVIOUS
    <3>2. InOrder(Append(q, 0), low, high)
      BY <2>2, <2>3, <3>1, OrderAppended
    <3> QED BY <2>2, <3>2, LatestPong
  <2>9. PageKept(c)'
    <3>1. InOrder(send'[c].queue, writer'[c].last, expected'[c])
      BY <2>1, <2>7, <2>8
    <3>2. Latest(c) => Latest(c)'
      BY <2>1, <2>3, <2>7, <2>8 DEF Latest
    <3>3. Page(c)'
      BY <1>1, <2>1, <2>2, <2>5, <2>6, <3>1 DEF Page
    <3> QED BY <1>1, <2>2, <3>2, <3>3 DEF PageKept
  <2>10. ASSUME NEW d \in Clients, d # c PROVE PageKept(d)'
    BY <1>1, <2>1, <2>5, <2>10, PageRests DEF HubInv
  <2> QED BY <2>4, <2>9, <2>10 DEF HubInv
<1> QED BY <1>1, <1>3, <1>4

WriterType == [pc : {"wait", "count", "batch", "done"}, n : Int, last : Nat]

(* writePump takes a message from the buffer.                              *)
LEMMA TakenKeeps ==
    ASSUME HubInv, NEW c \in Clients, NEW w \in WriterType, Write(c, w), ~Unborn(c), w.pc # "wait",
           send[c].queue # <<>>, send' = [send EXCEPT ![c].queue = Tail(send[c].queue)],
           w.last = Newer(Head(send[c].queue), writer[c].last),
           UNCHANGED <<broadcast, newest, hub, clients, reader, open, expected, shown, overtaken>>
    PROVE  HubInv'
<1> DEFINE q == send[c].queue
           low == writer[c].last
           high == expected[c]
<1>1. /\ send' \in SendType /\ \A d \in Clients : d # c => send'[d] = send[d]
      /\ send'[c].queue = Tail(q) /\ send'[c].closed = send[c].closed
  BY DequeueSends
<1>2. q \in Seq(Nat) /\ q # <<>> /\ low \in Nat /\ high \in Nat /\ shown[c] \in Nat /\ Page(c)
      /\ (c \in clients \ overtaken => c \in hub.todo \/ Latest(c))
  BY PageFacts
<1>3. low <= high /\ InOrder(q, low, high) /\ (Latest(c) => LatestIs(q, low, high)) /\ shown[c] <= low
  BY <1>2 DEF Page, Latest
<1>4. /\ writer' \in [Clients -> WriterType] /\ writer'[c] = w
      /\ \A d \in Clients : d # c => writer'[d] = writer[d]
  BY DEF HubInv, HubTypes, Write, WriterType
<1>5. HubTypes' /\ Fresh' /\ Moving'
  BY <1>1, <1>4 DEF HubInv, HubTypes, SendType, WriterType, Fresh, Moving
<1>6. \A d \in Clients : Unborn(d)' <=> Unborn(d)
  BY DEF Unborn
<1>7. w.last = Newer(Head(q), low) /\ high = expected'[c]
  OBVIOUS
<1> HIDE DEF q, low, high
<1>8. /\ w.last \in Nat /\ low <= w.last /\ w.last <= high /\ InOrder(Tail(q), w.last, high)
      /\ (LatestIs(q, low, high) => LatestIs(Tail(q), w.last, high))
  BY <1>2, <1>3, <1>7, OrderTaken, LatestTaken
<1>9. PageKept(c)'
  <2>1. InOrder(send'[c].queue, writer'[c].last, expected'[c])
    BY <1>1, <1>4, <1>7, <1>8
  <2>2. Latest(c) => Latest(c)'
    BY <1>1, <1>3, <1>4, <1>7, <1>8 DEF Latest
  <2>3. shown'[c] <= writer'[c].last /\ writer'[c].last <= expected'[c]
    BY <1>2, <1>3, <1>4, <1>7, <1>8
  <2>4. Page(c)'
    BY <1>1, <1>2, <1>4, <1>6, <2>1, <2>3 DEF Page
  <2> QED BY <1>2, <2>2, <2>4 DEF PageKept
<1>10. ASSUME NEW d \in Clients, d # c PROVE PageKept(d)'
  BY <1>1, <1>4, <1>6, <1>10, PageRests DEF HubInv
<1> QED BY <1>5, <1>9, <1>10 DEF HubInv

(* writePump goes on, and has sent what it took when it waits again.       *)
LEMMA WrittenKeeps ==
    ASSUME HubInv, NEW c \in Clients, NEW w \in WriterType, Write(c, w), ~Unborn(c),
           w.last = writer[c].last,
           \/ UNCHANGED shown /\ w.pc # "wait"
           \/ shown' = [shown EXCEPT ![c] = w.last],
           UNCHANGED <<broadcast, newest, hub, clients, send, reader, expected, overtaken>>,
           DOMAIN open' = Clients
    PROVE  HubInv'
<1>1. shown[c] \in Nat /\ writer[c].last \in Nat /\ Page(c)
      /\ (c \in clients \ overtaken => c \in hub.todo \/ Latest(c))
  BY PageFacts
<1>2. /\ writer' \in [Clients -> WriterType] /\ writer'[c] = w
      /\ \A d \in Clients : d # c => writer'[d] = writer[d]
  BY DEF HubInv, HubTypes, Write, WriterType
<1>3. /\ shown' \in [Clients -> Nat] /\ (\A d \in Clients : d # c => shown'[d] = shown[d])
      /\ shown'[c] <= w.last /\ (w.pc = "wait" => shown'[c] = w.last)
  BY <1>1 DEF HubInv, HubTypes, Page
<1>4. HubTypes' /\ Fresh' /\ Moving'
  BY <1>2, <1>3 DEF HubInv, HubTypes, WriterType, Fresh, Moving
<1>5. \A d \in Clients : Unborn(d)' <=> Unborn(d)
  BY DEF Unborn
<1>6. PageKept(c)'
  <2>1. Page(c)'
    BY <1>1, <1>2, <1>3, <1>5 DEF Page
  <2>2. Latest(c) => Latest(c)'
    BY <1>2 DEF Latest
  <2> QED BY <1>1, <2>1, <2>2 DEF PageKept
<1>7. ASSUME NEW d \in Clients, d # c PROVE PageKept(d)'
  BY <1>2, <1>3, <1>5, <1>7, PageRests DEF HubInv
<1> QED BY <1>4, <1>6, <1>7 DEF HubInv

\* The steps of writePump.
LEMMA PumpKeeps ==
    ASSUME HubInv, NEW c \in Clients,
           WriteTake(c) \/ WriteCount(c) \/ WriteBatch(c) \/ WriteFlush(c) \/ WriteStop(c)
    PROVE  HubInv'
<1> DEFINE w == writer[c]
<1>1. w \in WriterType /\ Page(c) /\ DOMAIN open = Clients /\ send[c].queue \in Seq(Nat)
  BY PageFacts DEF WriterType, HubInv, HubTypes
<1>2. ~Unborn(c)
  <2>1. CASE Started(c)
    BY <2>1 DEF Started, Unborn
  <2>2. CASE w.pc # "wait"
    BY <1>1, <2>2 DEF Page, Waiting
  <2> QED BY <2>1, <2>2 DEF WriteTake, WriteCount, WriteBatch, WriteFlush, WriteStop
<1>3. \A q \in Seq(Nat) : q # <<>> => Newer(Head(q), w.last) \in Nat
  BY <1>1 DEF Newer, WriterType
<1>4. CASE WriteTake(c)
  <2> DEFINE v == [w EXCEPT !.pc = "count", !.last = Newer(Head(send[c].queue), @)]
  <2>1. send[c].queue # <<>> /\ Write(c, v) /\ send' = [send EXCEPT ![c].queue = Tail(send[c].queue)]
    BY <1>4 DEF WriteTake
  <2>2. v \in WriterType /\ v.pc = "count" /\ v.last = Newer(Head(send[c].queue), writer[c].last)
    BY <1>1, <1>3, <2>1 DEF WriterType
  <2>3. UNCHANGED <<broadcast, newest, hub, clients, reader, open, expected, shown, overtaken>>
    BY <1>4 DEF WriteTake
  <2> HIDE DEF v
  <2> QED BY <1>2, <2>1, <2>2, <2>3, TakenKeeps
<1>5. CASE WriteCount(c)
  <2> DEFINE v == [w EXCEPT !.pc = "batch", !.n = Len(send[c].queue)]
  <2>1. Write(c, v) /\ UNCHANGED <<broadcast, newest, hub, clients, send, reader, open, expected, shown, overtaken>>
    BY <1>5 DEF WriteCount
  <2>2. Len(send[c].queue) \in Int
    BY <1>1
  <2>3. v \in WriterType /\ v.pc = "batch" /\ v.last = writer[c].last
    BY <1>1, <2>2 DEF WriterType
  <2> HIDE DEF v
  <2> QED BY <1>1, <1>2, <2>1, <2>3, WrittenKeeps
<1>6. CASE WriteBatch(c)
  <2>1. w.pc = "batch" /\ UNCHANGED <<broadcast, newest, hub, clients, reader, open, expected, shown, overtaken>>
    BY <1>6 DEF WriteBatch
  <2>2. CASE send[c].queue = <<>>
    <3> DEFINE v == [w EXCEPT !.n = @ - 1]
    <3>1. Write(c, v) /\ UNCHANGED send
      BY <1>6, <2>2 DEF WriteBatch
    <3>2. v \in WriterType /\ v.pc = "batch" /\ v.last = writer[c].last
      BY <1>1, <2>1 DEF WriterType
    <3> HIDE DEF v
    <3> QED BY <1>1, <1>2, <2>1, <3>1, <3>2, WrittenKeeps
  <2>3. CASE send[c].queue # <<>>
    <3> DEFINE v == [w EXCEPT !.n = @ - 1, !.last = Newer(Head(send[c].queue), @)]
    <3>1. Write(c, v) /\ send' = [send EXCEPT ![c].queue = Tail(send[c].queue)]
      BY <1>6, <2>3 DEF WriteBatch
    <3>2. w.n - 1 \in Int /\ Newer(Head(send[c].queue), w.last) \in Nat
      BY <1>1, <1>3, <2>3 DEF WriterType
    <3>3. v \in WriterType /\ v.pc = "batch" /\ v.last = Newer(Head(send[c].queue), writer[c].last)
      BY <1>1, <2>1, <3>2 DEF WriterType
    <3> HIDE DEF v
    <3> QED BY <1>2, <2>1, <2>3, <3>1, <3>3, TakenKeeps
  <2> QED BY <2>2, <2>3
<1>7. CASE WriteFlush(c)
  <2>1. w.pc = "batch" /\ UNCHANGED <<broadcast, newest, hub, clients, send, reader, open, expected, overtaken>>
    BY <1>7 DEF WriteFlush
  <2>2. CASE open[c]
    <3> DEFINE v == [w EXCEPT !.pc = "wait"]
    <3>1. Write(c, v) /\ shown' = [shown EXCEPT ![c] = v.last]
      BY <1>1, <1>7, <2>2 DEF WriteFlush, WriterType
    <3>2. v \in WriterType /\ v.last = writer[c].last
      BY <1>1 DEF WriterType
    <3> HIDE DEF v
    <3> QED BY <1>1, <1>2, <2>1, <3>1, <3>2, WrittenKeeps
  <2>3. CASE ~open[c]
    <3> DEFINE v == [w EXCEPT !.pc = "done"]
    <3>1. Write(c, v) /\ UNCHANGED shown
      BY <1>7, <2>3 DEF WriteFlush
    <3>2. v \in WriterType /\ v.pc = "done" /\ v.last = writer[c].last
      BY <1>1 DEF WriterType
    <3> HIDE DEF v
    <3> QED BY <1>1, <1>2, <2>1, <3>1, <3>2, WrittenKeeps
  <2> QED BY <2>2, <2>3
<1>8. CASE WriteStop(c)
  <2> DEFINE v == [w EXCEPT !.pc = "done"]
  <2>1. Write(c, v) /\ UNCHANGED <<broadcast, newest, hub, clients, send, reader, expected, shown, overtaken>>
    BY <1>8 DEF WriteStop
  <2>2. v \in WriterType /\ v.pc = "done" /\ v.last = writer[c].last
    BY <1>1 DEF WriterType
  <2>3. DOMAIN open' = Clients
    BY <1>1, <1>8 DEF WriteStop
  <2> HIDE DEF v
  <2> QED BY <1>2, <2>1, <2>2, <2>3, WrittenKeeps
<1> QED BY <1>4, <1>5, <1>6, <1>7, <1>8

\* Every step of the hub keeps its invariant.
LEMMA HubKeeps == HubInv /\ [HubNext]_hubVars => HubInv'
<1> SUFFICES ASSUME HubInv, [HubNext]_hubVars PROVE HubInv'
  OBVIOUS
<1>1. CASE \E p \in Producers : Broadcast(p) \/ BroadcastDrop(p) \/ BroadcastRetry(p)
  BY <1>1, BroadcastKeeps
<1>2. CASE Take \/ MoveDrop \/ MoveRetry \/ StopHub
  BY <1>2, TakeKeeps, MoveDropKeeps, MoveRetryKeeps, StopHubKeeps
<1>3. CASE \E c \in Clients : Move(c) \/ Register(c) \/ Unregister(c)
  BY <1>3, MoveKeeps, RegisterKeeps, UnregisterKeeps
<1>4. CASE \E c \in Clients : ServeWS(c) \/ Leave(c) \/ Ping(c)
  BY <1>4, ReaderKeeps, PingKeeps
<1>5. CASE \E c \in Clients : WriteTake(c) \/ WriteCount(c) \/ WriteBatch(c) \/ WriteFlush(c) \/ WriteStop(c)
  BY <1>5, PumpKeeps
<1>6. CASE UNCHANGED hubVars
  <2>1. UNCHANGED <<broadcast, newest, hub, clients, send, reader, writer, open, expected, shown, overtaken>>
    BY <1>6 DEF hubVars
  <2>2. HubTypes' /\ Fresh'
    BY <2>1 DEF HubInv, HubTypes, Fresh
  <2> QED BY <2>1, <2>2, PagesRest DEF HubInv
<1> QED BY <1>1, <1>2, <1>3, <1>4, <1>5, <1>6 DEF HubNext, HubStep, ReadFails

\* HubInv is an invariant of the hub.
LEMMA HubInvariant == HubSpec => []HubInv
BY HubStarts, HubKeeps, PTL DEF HubSpec

\* A page that waits, with no message in its buffer, has shown the last there is.
LEMMA CurrentPages == HubInv => PagesCurrent
<1> SUFFICES ASSUME HubInv, NEW c \in clients \ overtaken, c \notin hub.todo, writer[c].pc = "wait",
                    \A k \in 1..Len(send[c].queue) : send[c].queue[k] = 0
             PROVE  shown[c] = expected[c]
  BY DEF PagesCurrent
<1>1. c \in Clients
  BY DEF HubInv, HubTypes
<1>2. Page(c) /\ Latest(c)
  BY <1>1, PageFacts
<1>3. writer[c].last = expected[c]
  BY <1>2 DEF Latest, LatestIs
<1> QED BY <1>2, <1>3 DEF Page

\* Whatever was dropped from full buffers, raced with pongs, batched or lost with
\* pages that left: a registered page whose pump waits with no message buffered
\* (nothing is written before another is moved to it, hub.go) shows
\* the last message moved to it, unless a pong took that message's place.
THEOREM PagesShowLatest == HubSpec => []PagesCurrent
BY HubInvariant, CurrentPages, PTL

\* The loop never sends on a buffer it has closed, so only readPump's pong can
\* panic: at every step of a message being moved, the buffers of the clients it is
\* still to go to are open.
THEOREM HubSendsToOpen == HubSpec => []SendsToOpen
<1>1. HubInv => SendsToOpen
  BY DEF HubInv, HubTypes, PageKept, Page, SendsToOpen
<1> QED BY <1>1, HubInvariant, PTL

\* Only a flush changes what a page shows, to what its pump took last.
LEMMA PagesKeepUp ==
    ASSUME HubInv, [HubNext]_hubVars, NEW c \in Clients
    PROVE  shown'[c] >= shown[c]
<1>1. shown \in [Clients -> Nat] /\ shown[c] \in Nat /\ Page(c)
  BY PageFacts DEF HubInv, HubTypes
<1>2. CASE \E d \in Clients : WriteFlush(d)
  <2>1. PICK d \in Clients : WriteFlush(d)
    BY <1>2
  <2>2. UNCHANGED shown \/ shown' = [shown EXCEPT ![d] = writer[d].last]
    BY <2>1 DEF WriteFlush
  <2>3. shown[c] <= writer[c].last /\ writer[c].last \in Nat
    BY <1>1, PageFacts DEF Page
  <2> QED BY <1>1, <2>2, <2>3
<1>3. CASE ~\E d \in Clients : WriteFlush(d)
  <2>1. UNCHANGED shown
    BY <1>3 DEF HubNext, HubStep, hubVars, Take, MoveDrop, MoveRetry, BroadcastDrop, BroadcastRetry, Move, Register,
       Unregister, ReadFails, Leave, WriteTake, WriteCount, WriteBatch, WriteStop, StopHub, Broadcast, ServeWS, Ping
  <2> QED BY <1>1, <2>1
<1> QED BY <1>2, <1>3

\* A page never shows an older message after a newer one: dropping the oldest,
\* from both ends of a buffer at once, keeps the order of the rest.
THEOREM PagesNeverGoBack == HubSpec => NeverBack
<1>1. HubInv /\ [HubNext]_hubVars => [\A c \in Clients : shown'[c] >= shown[c]]_hubVars
  BY PagesKeepUp
<1> QED BY <1>1, HubInvariant, PTL DEF HubSpec, NeverBack
=============================================================================
