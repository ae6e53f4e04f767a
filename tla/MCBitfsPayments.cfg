CONSTANTS
    MaxRequests = 2
    MaxFaults = 1
    MaxQueue = 1
SPECIFICATION PoolFairSpec
INVARIANT PaymentsAgree
INVARIANT CloseIsFinal
INVARIANT OneSettlement
PROPERTY CloseServed
CHECK_DEADLOCK FALSE
