CONSTANTS
    MaxOpens = 3
    MaxRestarts = 2
SPECIFICATION FairSpec
INVARIANT ReleasedUntaken
INVARIANT OpenIsFunded
INVARIANT CancelledFreed
PROPERTY PaidIsFunded
CHECK_DEADLOCK FALSE
