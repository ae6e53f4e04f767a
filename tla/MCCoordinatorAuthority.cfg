SPECIFICATION FairSpec
CONSTANTS
    w1 = w1
    w2 = w2
    o1 = o1
    o2 = o2
    Workers = {w1, w2}
    Ops = {o1, o2}
    None = None
    Requests <- SlotRequests
    MaxEpoch = 2
    MaxExits = 1
INVARIANTS
    SingleWriter
    LeasesExact
PROPERTIES
    NoLateSuccess
    WaitsEnd
