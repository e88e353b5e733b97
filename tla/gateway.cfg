SPECIFICATION Spec
CONSTANTS
    h1 = h1
    h2 = h2
    d1 = d1
    Hubs = {h1, h2}
    Plain = {h2}
    Sockets = {s1, s2}
    Users = {u1, u2}
    Keys = {k1}
    Devices = {d1}
    Lists <- ListsOfBoth
    NoUser = NoUser
    NoKey = NoKey
    MaxRequests = 3
    MaxReports = 1
    MaxBusy = 1
INVARIANTS
    TypeOK
    ClaimHolds
    CommandIsOwners
    RowsByOrigin
    UnknownIsBrief
SYMMETRY Symmetry
CHECK_DEADLOCK FALSE
