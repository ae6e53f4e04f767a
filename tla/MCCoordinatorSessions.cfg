SPECIFICATION FairSessionsSpec
CONSTANTS
    p1 = p1
    p2 = p2
    Peers = {p1, p2}
    NoBinding = NoBinding
    MaxOpens <- OpensOfPages
    MaxIdentity = 2
INVARIANTS
    BindingCurrent
    SessionKept
    ExposureCurrent
    OwnerIsLatestOpen
PROPERTIES
    OpensAnswered
