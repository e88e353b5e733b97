SPECIFICATION FairSpec
CONSTANTS
    r1 = r1
    Requests = {}
    Goroutines = 1
    MessagesCap = 1
    ErrorsCap = 1
    HeartbeatCap = 1
    BaseDelay = 5
    MaxDelay = 30
    Width = 8
    MaxFaults = 1
    MaxDisconnects = 0
    MayStop = "never"
PROPERTIES
    LostConnectionIsReplaced
CHECK_DEADLOCK FALSE
