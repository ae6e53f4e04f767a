SPECIFICATION FairSessionSpec
CONSTANTS
    Peers = {p1}
    Operations = {o1, o2}
    MaxAttempt = 2
    MaxEpoch = 3
INVARIANTS
    SettledPagesAnswered
    UnlockedOnlyWhenClean
    LockedTasksBlocked
PROPERTIES
    NoOverlappingCleanup
    NoUnlockAcrossLock
    BarrierSpec
    CleanupEnds
