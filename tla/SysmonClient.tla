---------------------------- MODULE SysmonClient ----------------------------
(***************************************************************************)
(* The sysmon-web alerter client: one long-lived authenticated connection, *)
(* shared by the maintenance loop (Run), the sender of alerts (Send) and   *)
(* the operator's test (Test), while the settings may change at any time.  *)
(* opMu serialises the users of the wire; mu guards only the fields, so a  *)
(* change of settings comes between any two steps of the others.  The      *)
(* server (external) admits one connection for each alerter name.          *)
(*                                                                         *)
(* Time is left out: the loop's timer may fire whenever the loop waits, so *)
(* wake and the backoff only shorten or lengthen a wait, and whether the   *)
(* last activity is older than keepaliveAfter is a free choice.            *)
(***************************************************************************)
EXTENDS Integers, Sequences, FiniteSets, SequencesExt

CONSTANTS Configs,      \* the settings an operator may save
          FirstConfig,  \* the settings at start
          NoCfg, Nobody,
          MaxChanges, MaxFaults, MaxCalls

DefaultPort == 1345

VARIABLES cfg, generation,
          session,    \* the number of the installed connection, or 0
          lastError,  \* the settings the error shown is about, or NoCfg
          tested,     \* the last test recorded: its generation and outcome
          conns,      \* every connection dialled: settings, generation, state
          opMu,
          me,         \* each user of the wire: where it is and what it holds
          running, changes, faults, calls

sysmonVars == <<cfg, generation, session, lastError, tested, conns, opMu, me, running, changes, faults, calls>>

Users == {"loop", "send", "test"}
ASSUME SysmonAssumption == Nobody \notin Users

Idle == [pc |-> "idle", snap |-> NoCfg, gen |-> 0, line |-> "none", conn |-> 0, stale |-> FALSE, res |-> "ok"]

------------------------------------------------------------- \* the settings
normalizeConfig(c) == [c EXCEPT !.padded = FALSE, !.port = IF @ = 0 THEN DefaultPort ELSE @]

\* A host is its shape: a name or an address, bracketed or not, with or
\* without a port.
validateHost(host) ==
    /\ host.text # "none"
    /\ host.open = host.close
    /\ host.text = "address" \/ ~host.ported

\* A PEM is the sequence of its blocks.
ValidateCAPEM(pem) == /\ ToSet(pem) \cap {"malformed", "key", "badcert"} = {}
                      /\ "cert" \in ToSet(pem)

ValidateConfig(raw) ==
    LET c == normalizeConfig(raw)
    IN  /\ validateHost(c.host)
        /\ c.port \in 1..65535
        /\ c.name # "none"
        /\ c.token # "none"
        /\ ValidateCAPEM(c.pem)

sameConfig(a, b) == a = b

-------------------------------------------------------------- \* connections
Conn(k, state) == [conns EXCEPT ![k].state = state]
InUse(name) == \E k \in DOMAIN conns : conns[k].cfg.name = name /\ conns[k].state # "closed"

\* The client lets go of the installed connection; the socket is closed after mu.
Detach == /\ session' = 0
          /\ conns' = IF session = 0 THEN conns ELSE Conn(session, "closing")
CloseSocket(k) == /\ conns[k].state = "closing"
                  /\ conns' = Conn(k, "closed")
                  /\ UNCHANGED <<cfg, generation, session, lastError, tested, opMu, me, running, changes, faults, calls>>

setLastError(c) == lastError' = IF sameConfig(cfg, c) THEN c ELSE lastError

SysmonInit ==
    /\ cfg = normalizeConfig(FirstConfig) /\ generation = 0
    /\ session = 0 /\ lastError = NoCfg /\ tested = [gen |-> -1, ok |-> FALSE]
    /\ conns = <<>> /\ opMu = Nobody
    /\ me = [u \in Users |-> Idle]
    /\ running = TRUE /\ changes = 0 /\ faults = 0 /\ calls = [u \in Users |-> 0]

UpdateConfig(raw) ==
    LET new == normalizeConfig(raw)
    IN  /\ changes < MaxChanges
        /\ new.enabled => ValidateConfig(new)
        /\ ~sameConfig(cfg, new)
        /\ cfg' = new /\ generation' = generation + 1 /\ lastError' = NoCfg
        /\ Detach
        /\ changes' = changes + 1
        /\ UNCHANGED <<tested, opMu, me, running, faults, calls>>

---------------------------------------------------- \* the users of the wire
Goto(u, pc) == me' = [me EXCEPT ![u].pc = pc]
Return(u) == me' = [me EXCEPT ![u] = Idle] /\ opMu' = Nobody

\* The loop's timer fires.  What it will do is decided before opMu is taken:
\* connect, PING, or nothing.
Maintain ==
    /\ running /\ me["loop"].pc = "idle"
    /\ IF ~cfg.enabled
       THEN session # 0 /\ Detach /\ UNCHANGED me
       ELSE /\ \E line \in {"connect", "PING", "none"} :
                   /\ (line = "connect") <=> (session = 0)
                   /\ line # "none"
                   /\ line = "PING" => calls["loop"] < MaxCalls
                   /\ me' = [me EXCEPT !["loop"] = [Idle EXCEPT !.pc = "want", !.snap = cfg, !.line = line]]
            /\ UNCHANGED <<session, conns>>
    /\ calls' = [calls EXCEPT !["loop"] = IF me'["loop"].line = "PING" THEN @ + 1 ELSE @]
    /\ UNCHANGED <<cfg, generation, lastError, tested, opMu, running, changes, faults>>

\* The server's process ends: Run closes the connection and returns.
StopRun == /\ running /\ me["loop"].pc = "idle"
           /\ running' = FALSE /\ Detach
           /\ UNCHANGED <<cfg, generation, lastError, tested, opMu, me, changes, faults, calls>>

Send == /\ me["send"].pc = "idle" /\ calls["send"] < MaxCalls
        /\ cfg.enabled /\ ValidateConfig(cfg)
        /\ \E stale \in BOOLEAN :
               me' = [me EXCEPT !["send"] = [Idle EXCEPT !.pc = "want", !.snap = cfg, !.line = "ALERT", !.stale = stale]]
        /\ calls' = [calls EXCEPT !["send"] = @ + 1]
        /\ UNCHANGED <<cfg, generation, session, lastError, tested, conns, opMu, running, changes, faults>>

recordTest(c, gen, ok) ==
    IF sameConfig(cfg, c) /\ generation = gen
    THEN /\ tested' = [gen |-> gen, ok |-> ok]
         /\ lastError' = IF ok THEN NoCfg ELSE c
    ELSE UNCHANGED <<tested, lastError>>

Test == /\ me["test"].pc = "idle" /\ calls["test"] < MaxCalls
        /\ calls' = [calls EXCEPT !["test"] = @ + 1]
        /\ IF ValidateConfig(cfg)
           THEN /\ me' = [me EXCEPT !["test"] = [Idle EXCEPT !.pc = "want", !.snap = cfg, !.gen = generation, !.line = "QUIT"]]
                /\ UNCHANGED <<tested, lastError>>
           ELSE recordTest(cfg, generation, FALSE) /\ UNCHANGED me
        /\ UNCHANGED <<cfg, generation, session, conns, opMu, running, changes, faults>>

Acquire(u) ==
    /\ me[u].pc = "want" /\ opMu = Nobody
    /\ opMu' = u
    /\ Goto(u, IF me[u].line \in {"connect", "ALERT"} THEN "ensure" ELSE "pick")
    /\ UNCHANGED <<cfg, generation, session, lastError, tested, conns, running, changes, faults, calls>>

\* A connection is there: go on.  For the loop that was all.
Ensured(u) == IF me[u].line = "connect" THEN Return(u)
              ELSE Goto(u, "pick") /\ UNCHANGED opMu

ensureConnected(u) ==
    /\ me[u].pc = "ensure"
    /\ IF ~sameConfig(cfg, me[u].snap) \/ (session = 0 /\ ~cfg.enabled) THEN Return(u)
       ELSE IF session # 0 THEN Ensured(u)
       ELSE me' = [me EXCEPT ![u].pc = "dial", ![u].gen = generation] /\ UNCHANGED opMu
    /\ UNCHANGED <<cfg, generation, session, lastError, tested, conns, running, changes, faults, calls>>

\* The dial and the greeting: refused for a name already connected, and open
\* to every other failure.
dialAndHandshake(u) ==
    /\ me[u].pc = "dial"
    /\ \/ /\ ~InUse(me[u].snap.name)
          /\ conns' = Append(conns, [cfg |-> me[u].snap, gen |-> me[u].gen, state |-> "open"])
          /\ me' = [me EXCEPT ![u].pc = IF u = "test" THEN "tried" ELSE "install", ![u].conn = Len(conns) + 1]
          /\ UNCHANGED <<opMu, lastError, tested, faults>>
       \/ /\ IF InUse(me[u].snap.name) THEN UNCHANGED faults
             ELSE faults < MaxFaults /\ faults' = faults + 1
          /\ UNCHANGED conns
          /\ IF u = "test"
             THEN Goto(u, "tried") /\ UNCHANGED <<opMu, lastError, tested>>
             ELSE Return(u) /\ setLastError(me[u].snap) /\ UNCHANGED tested
    /\ UNCHANGED <<cfg, generation, session, running, changes, calls>>

\* Mutant of install: the settings are not looked at again after the dial.
installUnchecked(u) ==
    /\ me[u].pc = "install"
    /\ session' = me[u].conn /\ lastError' = NoCfg
    /\ Ensured(u)
    /\ UNCHANGED <<cfg, generation, tested, conns, running, changes, faults, calls>>

\* Mutant of install: a connection made for old settings is left open.
installLeaky(u) ==
    /\ me[u].pc = "install"
    /\ IF generation # me[u].gen \/ ~cfg.enabled
       THEN Return(u) /\ UNCHANGED <<conns, session, lastError>>
       ELSE /\ session' = me[u].conn /\ lastError' = NoCfg
            /\ Ensured(u) /\ UNCHANGED conns
    /\ UNCHANGED <<cfg, generation, tested, running, changes, faults, calls>>

\* The second half of ensureConnected: only a connection of the settings in
\* force is installed.
install(u) ==
    /\ me[u].pc = "install"
    /\ IF generation # me[u].gen \/ ~sameConfig(cfg, me[u].snap) \/ ~cfg.enabled
       THEN /\ conns' = Conn(me[u].conn, "closed")
            /\ Return(u) /\ UNCHANGED <<session, lastError>>
       ELSE IF session # 0
       THEN conns' = Conn(me[u].conn, "closed") /\ Ensured(u) /\ UNCHANGED <<session, lastError>>
       ELSE /\ session' = me[u].conn /\ lastError' = NoCfg
            /\ Ensured(u) /\ UNCHANGED conns
    /\ UNCHANGED <<cfg, generation, tested, running, changes, faults, calls>>

\* commandCurrent up to the wire: it takes the session there is now.  A PING
\* comes before the alert when the connection has been quiet.
Failed(u) == IF u = "test" THEN me' = [me EXCEPT ![u].pc = "dial", ![u].conn = 0] /\ UNCHANGED opMu
             ELSE IF u = "send" /\ me[u].stale
             THEN me' = [me EXCEPT ![u].pc = "ensure", ![u].stale = FALSE] /\ UNCHANGED opMu
             ELSE Return(u)

commandCurrent(u) ==
    /\ me[u].pc = "pick"
    /\ IF session = 0 THEN Failed(u)
       ELSE me' = [me EXCEPT ![u].pc = "wire", ![u].conn = session] /\ UNCHANGED opMu
    /\ UNCHANGED <<cfg, generation, session, lastError, tested, conns, running, changes, faults, calls>>

\* The command and its reply: 333, 444, or an error of the wire.
command(u) ==
    /\ me[u].pc = "wire"
    /\ \E res \in {"ok", "refused", "error"} :
           /\ conns[me[u].conn].state # "open" => res = "error"
           /\ IF res = "ok" \/ conns[me[u].conn].state # "open" THEN UNCHANGED faults
              ELSE faults < MaxFaults /\ faults' = faults + 1
           /\ me' = [me EXCEPT ![u].pc = "replied", ![u].res = res]
    /\ UNCHANGED <<cfg, generation, session, lastError, tested, conns, opMu, running, changes, calls>>

\* The rest of commandCurrent: a refusal keeps the connection, any other error
\* drops it, unless it has been replaced.  QUIT is followed by the close.
replied(u) ==
    LET k == me[u].conn
        drops == me[u].res = "error" \/ u = "test"
    IN  /\ me[u].pc = "replied"
        /\ session' = IF session = k /\ drops THEN 0 ELSE session
        /\ conns' = IF drops /\ (session = k \/ u = "test") THEN Conn(k, "closed") ELSE conns
        /\ lastError' = IF session # k THEN lastError ELSE IF me[u].res = "ok" THEN NoCfg ELSE conns[k].cfg
        /\ IF me[u].res # "ok" \/ u = "test" THEN Failed(u)
           ELSE IF u = "send" /\ me[u].stale
           THEN me' = [me EXCEPT ![u].pc = "pick", ![u].stale = FALSE] /\ UNCHANGED opMu
           ELSE Return(u)
        /\ UNCHANGED <<cfg, generation, tested, running, changes, faults, calls>>

\* The test's own PING and QUIT, its close, and the record of the outcome,
\* which counts only for the settings that were tested.
Tried == /\ me["test"].pc = "tried"
         /\ \E ok \in BOOLEAN :
                /\ me["test"].conn = 0 => ~ok
                /\ recordTest(me["test"].snap, me["test"].gen, ok)
         /\ conns' = IF me["test"].conn = 0 THEN conns ELSE Conn(me["test"].conn, "closed")
         /\ Return("test")
         /\ UNCHANGED <<cfg, generation, session, running, changes, faults, calls>>

UserStep(u) == \/ Acquire(u) \/ ensureConnected(u) \/ dialAndHandshake(u) \/ install(u)
               \/ commandCurrent(u) \/ command(u) \/ replied(u)
SysmonStep == Maintain \/ Tried \/ (\E u \in Users : UserStep(u))
CloseStep == \E k \in DOMAIN conns : CloseSocket(k)
SysmonNext == SysmonStep \/ CloseStep \/ StopRun \/ Send \/ Test \/ (\E c \in Configs : UpdateConfig(c))

\* The goroutines run and a socket let go of is closed; nothing is said of callers.
SysmonFairness == WF_sysmonVars(SysmonStep) /\ WF_sysmonVars(CloseStep)
----------------------------------------------------------------- \* properties
\* UpdateConfig against a dial, a command, a test and the loop in flight: the
\* installed connection is always an authenticated one of the settings in
\* force, and the error shown is about those settings too.
ShownIsCurrent ==
    /\ session # 0 => /\ conns[session].cfg = cfg /\ conns[session].gen = generation
                      /\ cfg.enabled /\ conns[session].state # "closed"
    /\ lastError # NoCfg => lastError = cfg

\* Once the settings rest and the server answers, the client ends connected
\* exactly when it is enabled, and no connection it has left is still open to
\* keep the server from admitting the next one.
SettlesConnected ==
    <>[](/\ running => (cfg.enabled <=> session # 0)
         /\ \A k \in DOMAIN conns : k # session => conns[k].state = "closed")
=============================================================================
