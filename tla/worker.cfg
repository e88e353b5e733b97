SPECIFICATION FairSpec
CONSTANTS
    r1 = r1
    Requests = {r1}
    Goroutines = 1
    MessagesCap = 1
    ErrorsCap = 1
    HeartbeatCap = 1
    BaseDelay = 5
    MaxDelay = 30
    Width = 8
    MaxFaults = 1
    MaxDisconnects = 2
    MayStop = "idle"
INVARIANTS
    TypeOK
    LostSocketHasOwner
PROPERTIES
    LostSocketIsReplaced
    ReadyWorkerBeats
    RequestIsAnswered
    StoppedRetriesEnd
CHECK_DEADLOCK FALSE
