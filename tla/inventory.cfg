SPECIFICATION InventorySpec
CONSTANTS
    MACs = {m1, m2}
    Addrs = {a1, a2}
    Allowed = {a1}
    Sites = {a1}
    Ids = {1, 2}
    NoMAC = NoMAC
    NoAddr = NoAddr
    NoEntry = NoEntry
    NoRow = NoRow
    NoJob = NoJob
    Pollers = {p1, p2}
    Airmax = {m1}
    MaxTurns = 2
    APs = {"x", "y"}
    Stations = {"s"}
    Managed = {"x"}
    Echo <- HeardForwards
    None = None
    MaxRoams = 2
INVARIANTS
    EntriesInPlace
    NoGhostEntry
PROPERTIES
    NeverDemoted
    
    
CHECK_DEADLOCK FALSE
