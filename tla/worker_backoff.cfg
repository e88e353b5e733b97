SPECIFICATION FairSpec
CONSTANTS
    r1 = r1
    Requests = {}
    Goroutines = 1
    MessagesCap = 1
    ErrorsCap = 1
    HeartbeatCap = 1
    BaseDelay = 5
    MaxDelay = 10
    Width = 5
    MaxFaults = 3
    MaxDisconnects = 1
    MayStop = "never"
INVARIANTS
    BackoffWithinBounds
CHECK_DEADLOCK FALSE
