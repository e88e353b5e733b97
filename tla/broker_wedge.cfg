SPECIFICATION FairSpec
CONSTANTS
    w1 = w1
    w2 = w2
    r1 = r1
    r2 = r2
    Workers = {w1}
    Requests = {}
    Services <- MCServices
    HubControl = "hub.control"
    ServiceOf <- HubWorkers
    Target <- HubRequests
    MessagesCap = 1
    EventsCap = 1
    HeartbeatCap = 10
    ExpiryTicks = 14
    MaxCopies = 1
    TimePasses = TRUE
PROPERTY
    ExpiredIsRemoved
CHECK_DEADLOCK FALSE
