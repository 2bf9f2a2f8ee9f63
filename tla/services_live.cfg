SPECIFICATION ServicesSpec
CONSTANTS
    Configs <- MCConfigs
    FirstConfig <- Off
    NoCfg = NoCfg
    Nobody = Nobody
    MaxChanges = 2
    MaxFaults = 1
    MaxCalls = 1
    Clients = {"c1"}
    Producers = {"p1", "p2"}
    NoClient = NoClient
    Origins <- MCOrigins
    Host = "here"
    Allowed <- MCAllowed
    wsBroadcastBuffer = 1
    wsClientSendBuffer = 2
    MaxMessages = 4
    MaxPings = 1
    Devices = {"d1"}
    IPs = {"i1", "i2"}
    Prints = {"f1", "f2"}
    NoCert = NoCert
    NoTask = NoTask
    NoTransport = NoTransport
    FirstIP <- MCIP
    FirstCert <- MCCert
    Workers = {1, 2}
    MaxOps = 1
    MaxRenewals = 1
    MaxMoves = 1
    DebugDevices = {"r1"}
    DebugHosts = {"h1"}
    Spellings <- MCSpellings
    Bodies <- MCBodies
    MaxBytes = 6
    Limit = 4
    Writers = {"w1"}
    MaxRecords = 3
    MaxBuffers = 2
INVARIANTS
    ShownIsCurrent
    
    NewestEntriesKept
PROPERTIES
    SettlesConnected
    NewestArrives
CHECK_DEADLOCK FALSE
