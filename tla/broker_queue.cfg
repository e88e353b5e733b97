SPECIFICATION Spec
CONSTANTS
    w1 = w1
    w2 = w2
    r1 = r1
    r2 = r2
    Workers = {w1, w2}
    Requests = {r1, r2}
    Services <- MCServices
    HubControl = "hub.control"
    ServiceOf <- EchoWorkers
    Target <- EchoRequests
    MessagesCap = 1
    EventsCap = 1
    HeartbeatCap = 0
    ExpiryTicks = 0
    MaxCopies = 2
    TimePasses = FALSE
INVARIANTS
    RegisteredIsListed
    WaitingIsListed
    NoIdleWorkerWhileQueued
    AtMostOneAnswer
PROPERTIES
    ImplementsLifecycle
    OutcomeIsFinal
SYMMETRY Symmetry
CHECK_DEADLOCK FALSE
