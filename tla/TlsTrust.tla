------------------------------ MODULE TlsTrust ------------------------------
(***************************************************************************)
(* The certificates WaveControl trusts its devices by.  What is pinned is  *)
(* kept in rows of device_certs and in a cache by device and by address;   *)
(* every operation writes its rows first and the cache later, with other   *)
(* operations in between, and a handshake looks at the cache alone.  The   *)
(* two caches share objects: a change or a verification made through the   *)
(* device shows at every address that still points to the same object, and *)
(* a new pin leaves the other addresses with the old one.                  *)
(*                                                                         *)
(* RegisterDeviceIP is left out: nothing calls it.  Without it an address  *)
(* is entered in deviceIDByIP only together with byIP.                     *)
(***************************************************************************)
EXTENDS Integers, FiniteSets

CONSTANTS Devices, IPs, Prints, \* fingerprints
          NoCert, NoTask, NoTransport,
          FirstIP, FirstCert, \* the devices' addresses, and what is presented there
          Workers,      \* operations and background writes in flight
          MaxOps, MaxRenewals, MaxMoves

VARIABLES mode,
          rows,         \* device -> its row of device_certs
          ip,           \* device -> its address in the devices table
          cert,         \* address -> the fingerprint presented there
          byDeviceID, byIP, deviceIDByIP, \* the caches
          task,         \* worker -> the operation it is in
          transport,    \* a transport built and not yet used
          approved,     \* history: <<device, fingerprint>> verified by an operator
          accepted,     \* history: <<device, fingerprint>> let through in strict mode
          overlapped,   \* history: devices two writers worked on at once
          ops, renewals, moves

tlsVars == <<mode, rows, ip, cert, byDeviceID, byIP, deviceIDByIP, task, transport, approved, accepted, overlapped, ops, renewals, moves>>

Modes == {"insecure", "tofu", "strict"}
RowType == [fp : Prints, verified : BOOLEAN, changed : BOOLEAN]
ObjectType == [dev : Devices, fp : Prints, verified : BOOLEAN]
EntryType == [dev : Devices, shared : BOOLEAN, fp : Prints \cup {NoCert}, verified : BOOLEAN]
TransportType == [mode : Modes, kind : {"device"}, key : Devices] \cup [mode : Modes, kind : {"ip"}, key : IPs]
RowsType == [Devices -> RowType \cup {NoCert}]
LoadType == [op : {"load"}, devs : SUBSET Devices, stage : {"cache"}, rows : RowsType, ip : [Devices -> IPs]]
TaskType == [op : {"pin", "verify", "verify_all", "unpin", "unpin_group", "change", "autopin"}, devs : SUBSET Devices,
             stage : {"row", "query", "cache"}, fp : Prints \cup {NoCert}, verify : BOOLEAN, ip : [Devices -> IPs]]

ASSUME TlsAssumption == /\ FirstIP \in [Devices -> IPs] /\ FirstCert \in [IPs -> Prints]
                        /\ NoCert \notin Devices \cup Prints \cup RowType \cup ObjectType \cup EntryType
                        /\ NoTask \notin TaskType \cup LoadType /\ NoTransport \notin TransportType

\* An entry by address either points to the device's own object, or keeps the
\* values of one the device no longer has.
Shared(d) == [dev |-> d, shared |-> TRUE, fp |-> NoCert, verified |-> FALSE]
AtIP(i) == IF byIP[i] # NoCert /\ byIP[i].shared THEN byDeviceID[byIP[i].dev] ELSE byIP[i]
Left(ds) == [i \in IPs |-> IF byIP[i] # NoCert /\ byIP[i].shared /\ byIP[i].dev \in ds
                           THEN [dev |-> byIP[i].dev, shared |-> FALSE, fp |-> AtIP(i).fp, verified |-> AtIP(i).verified]
                           ELSE byIP[i]]

FreeSlot(s) == task[s] = NoTask
Start(s, t) == task' = [task EXCEPT ![s] = t]
Task(op, ds) == [op |-> op, devs |-> ds, stage |-> "row", fp |-> NoCert, verify |-> FALSE, ip |-> ip]

TlsInit == /\ mode = "insecure"
           /\ rows = [d \in Devices |-> NoCert] /\ ip = FirstIP
           /\ cert = FirstCert
           /\ byDeviceID = [d \in Devices |-> NoCert] /\ byIP = [i \in IPs |-> NoCert]
           /\ deviceIDByIP = [i \in IPs |-> NoCert]
           /\ task = [s \in Workers |-> NoTask] /\ transport = NoTransport
           /\ approved = {} /\ accepted = {} /\ overlapped = {}
           /\ ops = 0 /\ renewals = 0 /\ moves = 0

----------------------------------------------- \* what happens to the devices
Renew(i, fp) == /\ renewals < MaxRenewals /\ fp # cert[i]
                /\ cert' = [cert EXCEPT ![i] = fp] /\ renewals' = renewals + 1
                /\ UNCHANGED <<mode, rows, ip, byDeviceID, byIP, deviceIDByIP, task, transport, approved, accepted, overlapped, ops, moves>>

Readdress(d, i) == /\ moves < MaxMoves /\ \A e \in Devices : ip[e] # i
                   /\ ip' = [ip EXCEPT ![d] = i] /\ moves' = moves + 1
                   /\ UNCHANGED <<mode, rows, cert, byDeviceID, byIP, deviceIDByIP, task, transport, approved, accepted, overlapped, ops, renewals>>

------------------------------------------------- \* the operator's operations
SetMode(m) == /\ m # mode
              /\ mode' = m
              /\ UNCHANGED <<rows, ip, cert, byDeviceID, byIP, deviceIDByIP, task, transport, approved, accepted, overlapped, ops, renewals, moves>>

\* The certificate is fetched first, unverified, from the device's address.
PinCertFromDevice(s, d, verify) ==
    Start(s, [Task("pin", {d}) EXCEPT !.fp = cert[ip[d]], !.verify = verify])

\* Devices that have no row when the rows are read.
BulkLearnCerts(s, verify) == \E d \in Devices : rows[d] = NoCert /\ PinCertFromDevice(s, d, verify)

Operate(s) == /\ ops < MaxOps /\ FreeSlot(s)
              /\ \/ \E d \in Devices : \/ PinCertFromDevice(s, d, TRUE)
                                       \/ Start(s, Task("verify", {d})) \/ Start(s, Task("unpin", {d}))
                 \/ BulkLearnCerts(s, FALSE)
                 \/ Start(s, Task("unpin_group", Devices)) \/ Start(s, Task("verify_all", Devices))
              /\ ops' = ops + 1
              /\ UNCHANGED <<mode, rows, ip, cert, byDeviceID, byIP, deviceIDByIP, transport, approved, accepted, overlapped, renewals, moves>>

--------------------------------------------------------------- \* the rows
Row(fp, verified, changed) == [fp |-> fp, verified |-> verified, changed |-> changed]
Written(s) == {d \in task[s].devs : \E o \in Workers \ {s} : task[o] # NoTask /\ task[o].stage # "row" /\ d \in task[o].devs}

PinRow(t) == LET d == CHOOSE e \in t.devs : TRUE
                 old == rows[d]
             IN  [rows EXCEPT ![d] = Row(t.fp, t.verify, /\ ~t.verify /\ old # NoCert
                                                         /\ old.fp # t.fp \/ old.changed)]
VerifyRows(ds) == [d \in Devices |-> IF d \in ds /\ rows[d] # NoCert THEN Row(rows[d].fp, TRUE, FALSE) ELSE rows[d]]

\* Mutant of recordCertChange: the new certificate keeps the old one's approval.
recordKeepsVerified(t) == [d \in Devices |-> IF d \in t.devs /\ rows[d] # NoCert THEN Row(t.fp, rows[d].verified, TRUE) ELSE rows[d]]

recordCertChange(t) == [d \in Devices |-> IF d \in t.devs /\ rows[d] # NoCert THEN Row(t.fp, FALSE, TRUE) ELSE rows[d]]

WriteRows(s) ==
    LET t == task[s]
    IN  /\ ~FreeSlot(s) /\ t.stage = "row"
        /\ rows' = CASE t.op = "pin" -> PinRow(t)
                     [] t.op \in {"verify", "verify_all"} -> VerifyRows(t.devs)
                     [] t.op \in {"unpin", "unpin_group"} -> [d \in Devices |-> IF d \in t.devs THEN NoCert ELSE rows[d]]
                     [] t.op = "change" -> recordCertChange(t)
                     [] t.op = "autopin" -> [d \in Devices |-> IF d \in t.devs /\ rows[d] = NoCert THEN Row(t.fp, FALSE, FALSE) ELSE rows[d]]
        /\ task' = [task EXCEPT ![s] = IF t.op = "verify" /\ rows'[CHOOSE d \in t.devs : TRUE] = NoCert THEN NoTask
                                       ELSE [t EXCEPT !.stage = IF t.op = "verify_all" THEN "query" ELSE "cache"]]
        /\ approved' = approved \cup {<<d, rows'[d].fp>> : d \in {e \in Devices : rows'[e] # NoCert /\ rows'[e].verified}}
        /\ overlapped' = overlapped \cup Written(s)
        /\ UNCHANGED <<mode, ip, cert, byDeviceID, byIP, deviceIDByIP, transport, accepted, ops, renewals, moves>>

--------------------------------------------------------------- \* the cache
Object(d, fp, verified) == [dev |-> d, fp |-> fp, verified |-> verified]

\* A new object for the device; the address it was pinned at points to it.
PinCache(t) ==
    LET d == CHOOSE e \in t.devs : TRUE
    IN  /\ byDeviceID' = [byDeviceID EXCEPT ![d] = Object(d, t.fp, t.verify)]
        /\ byIP' = [Left({d}) EXCEPT ![t.ip[d]] = Shared(d)]
        /\ deviceIDByIP' = [deviceIDByIP EXCEPT ![t.ip[d]] = d]

\* autoPinCert: the first certificate seen, whatever the row holds.
AutoPinCache(t) ==
    /\ byDeviceID' = [d \in Devices |-> IF d \in t.devs THEN Object(d, t.fp, FALSE) ELSE byDeviceID[d]]
    /\ byIP' = Left(t.devs) /\ UNCHANGED deviceIDByIP

\* VerifyCert and recordCertChange change the device's object in place.
InPlace(t) ==
    /\ byDeviceID' = [d \in Devices |->
           IF d \notin t.devs \/ byDeviceID[d] = NoCert THEN byDeviceID[d]
           ELSE IF t.op = "verify" THEN Object(d, byDeviceID[d].fp, TRUE) ELSE Object(d, t.fp, FALSE)]
    /\ UNCHANGED <<byIP, deviceIDByIP>>

\* UnpinCert stops at the first address it finds; UnpinGroup takes them all.
UnpinCache(t) ==
    LET of(ds) == {i \in IPs : byIP[i] # NoCert /\ byIP[i].dev \in ds}
        Forget(gone) == /\ byIP' = [i \in IPs |-> IF i \in gone THEN NoCert ELSE Left(t.devs)[i]]
                        /\ deviceIDByIP' = [i \in IPs |-> IF i \in gone THEN NoCert ELSE deviceIDByIP[i]]
    IN  /\ byDeviceID' = [d \in Devices |-> IF d \in t.devs THEN NoCert ELSE byDeviceID[d]]
        /\ IF t.op = "unpin_group" \/ of(t.devs) = {} THEN Forget(of(t.devs))
           ELSE \E i \in of(t.devs) : Forget({i})

\* loadCerts replaces the object of every device that has a row, and forgets
\* no one; the rows and addresses are those of its query.
LoadQuery(s) == /\ ~FreeSlot(s) /\ task[s].stage = "query"
                /\ task' = [task EXCEPT ![s] = [op |-> "load", devs |-> task[s].devs, stage |-> "cache", rows |-> rows, ip |-> ip]]
                /\ UNCHANGED <<mode, rows, ip, cert, byDeviceID, byIP, deviceIDByIP, transport, approved, accepted, overlapped, ops, renewals, moves>>

loadCerts(t) ==
    LET loaded == {d \in Devices : t.rows[d] # NoCert}
    IN  /\ byDeviceID' = [d \in Devices |-> IF d \in loaded THEN Object(d, t.rows[d].fp, t.rows[d].verified) ELSE byDeviceID[d]]
        /\ byIP' = [i \in IPs |-> IF \E d \in loaded : t.ip[d] = i THEN Shared(CHOOSE d \in loaded : t.ip[d] = i)
                                  ELSE Left(loaded)[i]]
        /\ deviceIDByIP' = [i \in IPs |-> IF \E d \in loaded : t.ip[d] = i THEN CHOOSE d \in loaded : t.ip[d] = i
                                          ELSE deviceIDByIP[i]]

WriteCache(s) ==
    LET t == task[s]
    IN  /\ ~FreeSlot(s) /\ t.stage = "cache"
        /\ CASE t.op = "pin" -> PinCache(t)
             [] t.op = "autopin" -> AutoPinCache(t)
             [] t.op \in {"verify", "change"} -> InPlace(t)
             [] t.op \in {"unpin", "unpin_group"} -> UnpinCache(t)
             [] t.op = "load" -> loadCerts(t)
        /\ Start(s, NoTask)
        /\ UNCHANGED <<mode, rows, ip, cert, transport, approved, accepted, overlapped, ops, renewals, moves>>

---------------------------------------------------------------- \* handshakes
\* A transport keeps the mode it was built in.
GetTransport(kind, key) ==
    /\ transport = NoTransport
    /\ transport' = [mode |-> mode, kind |-> kind, key |-> key]
    /\ UNCHANGED <<mode, rows, ip, cert, byDeviceID, byIP, deviceIDByIP, task, approved, accepted, overlapped, ops, renewals, moves>>

Cached == IF transport.kind = "device" THEN byDeviceID[transport.key] ELSE AtIP(transport.key)
Presented == cert[IF transport.kind = "device" THEN ip[transport.key] ELSE transport.key]

\* Strict asks for a verified entry; a change is recorded in the background,
\* and in TOFU mode the connection goes on.  A transport for an address pins
\* what it is shown when it knows the device and not the certificate.
Changed == /\ Cached # NoCert /\ Cached.fp # Presented
           /\ transport.mode = "tofu" \/ (transport.mode = "strict" /\ Cached.verified)
FirstUse == /\ Cached = NoCert /\ transport.mode = "tofu" /\ transport.kind = "ip"
            /\ deviceIDByIP[transport.key] # NoCert
Background(op, d) == \E s \in Workers : FreeSlot(s) /\ Start(s, [Task(op, {d}) EXCEPT !.fp = Presented])

Handshake ==
    /\ transport # NoTransport
    /\ IF Changed THEN Background("change", Cached.dev)
       ELSE IF FirstUse THEN Background("autopin", deviceIDByIP[transport.key])
       ELSE UNCHANGED task
    /\ accepted' = IF transport.mode = "strict" /\ Cached # NoCert /\ Cached.verified /\ Cached.fp = Presented
                   THEN accepted \cup {<<Cached.dev, Presented>>} ELSE accepted
    /\ transport' = NoTransport
    /\ UNCHANGED <<mode, rows, ip, cert, byDeviceID, byIP, deviceIDByIP, approved, overlapped, ops, renewals, moves>>

TlsNext == \/ \E m \in Modes : SetMode(m)
           \/ \E i \in IPs : (\E fp \in Prints : Renew(i, fp)) \/ (\E d \in Devices : Readdress(d, i)) \/ GetTransport("ip", i)
           \/ \E d \in Devices : GetTransport("device", d)
           \/ Handshake
           \/ \E s \in Workers : Operate(s) \/ WriteRows(s) \/ LoadQuery(s) \/ WriteCache(s)

----------------------------------------------------------------- \* properties
InFlight(d) == \E s \in Workers : ~FreeSlot(s) /\ d \in task[s].devs

\* The cache a handshake looks at against the rows the operator sees: where no
\* two writers met on a device the cache says what its row says, and a strict
\* handshake, by device or by any address it ever had, let through only what
\* an operator approved for it.
TrustFollowsRows ==
    \A d \in Devices \ overlapped :
        /\ InFlight(d) \/ (IF rows[d] = NoCert THEN byDeviceID[d] = NoCert
                           ELSE byDeviceID[d] = Object(d, rows[d].fp, rows[d].verified))
        /\ \A a \in accepted : a[1] = d => a \in approved

=============================================================================
