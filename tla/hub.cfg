SPECIFICATION FairSpec
CONSTANTS
    d1 = d1
    d2 = d2
    x = x
    y = y
    n1 = n1
    n2 = n2
    Devices = {d1, d2}
    Addresses = {x, y}
    Nonces = {n1, n2}
    Bad = bad
    None = none
    Size = 1
    Lists <- TwoLists
    FirstList <- OneDevice
    Handlers = {h1, h2}
    Objects = {o1, o2, o3, o4}
    Asked <- Requested
    MaxEvents = 3
INVARIANTS
    TypeOK
    RepeatNeedsCause
    ReplayIsLastAnswer
    SettledDevicesMatch
    NotFoundIsLate
PROPERTIES
    SettledListIsTrue
    AgedIsForgotten
CHECK_DEADLOCK FALSE
