SPECIFICATION FairSpec
CONSTANTS
    w1 = w1
    w2 = w2
    r1 = r1
    r2 = r2
    Workers = {w1}
    Requests = {r1}
    Services <- MCServices
    HubControl = "hub.control"
    ServiceOf <- HubWorkers
    Target <- HubRequests
    MessagesCap = 1
    EventsCap = 1
    HeartbeatCap = 2
    ExpiryTicks = 0
    MaxCopies = 1
    TimePasses = TRUE
INVARIANT
    TypeOK
PROPERTIES
    ReplyReachesClient
    HubRequestSettles
    ExpiredIsRemovedUnlessWedged
CHECK_DEADLOCK FALSE
