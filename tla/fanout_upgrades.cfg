SPECIFICATION MCFirmwareSpec
CONSTANTS
    a1 = a1
    s1 = s1
    m1 = m1
    r1 = r1
    r2 = r2
    NoRadio = NoRadio
    Radios = {a1, s1, m1}
    Requests = {r1, r2}
    Files <- MCFiles
    Parent <- MCParent
    Flavor <- MCFlavor
    Orders <- MCOrders
    MaxLosses = 1
    BulkJobs = {"fan", "job"}
    Ops <- MCOps
    Ap <- MCAp
    NoAp = 0
    GlobalCap = 1
    InnerCap = 1
    MaxRetries = 2
    MaxResizes = 1
INVARIANT
    FanoutUpgrades
CHECK_DEADLOCK FALSE
