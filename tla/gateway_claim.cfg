SPECIFICATION Spec
CONSTANTS
    h1 = h1
    h2 = h2
    d1 = d1
    Hubs = {h1}
    Plain = {}
    Sockets = {s1}
    Users = {u1}
    Keys = {k1}
    Devices = {d1}
    Lists <- ListsOfBoth
    NoUser = NoUser
    NoKey = NoKey
    MaxRequests = 2
    MaxReports = 1
    MaxBusy = 0
PROPERTY
    ClaimGrantsDevices
CHECK_DEADLOCK FALSE
