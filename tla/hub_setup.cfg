SPECIFICATION Spec
CONSTANTS
    Processes = {p1, p2, p3}
    Kinds = {"hub", "init", "register", "keys", "generate", "edit"}
    MaxFresh = 3
    MaxConfigures = 1
    AtOnce = 2
SYMMETRY Renamed
INVARIANTS
    TypeOK
    KeySavedBeforeRegistered
    IdentityIsReplacedKnowingly
    RunningHubIsRegistered
CHECK_DEADLOCK FALSE
