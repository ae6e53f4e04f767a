SPECIFICATION FairTasksSpec
CONSTANTS
    Policies = {"managed", "smart"}
    MaxEpoch = 6
CHECK_DEADLOCK FALSE
INVARIANTS
    SingleRun
    QuietWhileLocked
PROPERTIES
    KeepsSyncing
