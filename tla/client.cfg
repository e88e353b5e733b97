SPECIFICATION FairSpec
CONSTANTS
    s1 = s1
    a1 = a1
    f1 = f1
    f2 = f2
    n1 = n1
    Calls = {s1}
    Asyncs = {a1}
    Fires = {f1, f2}
    Nonces = {n1}
    NonceOf <- SameNonce
    Mixes <- OneKindAtATime
    Retries = 1
    MessagesCap = 1
    ErrorsCap = 1
    Stoppable = {a1}
INVARIANTS
    TypeOK
    PendingIsOpen
    ClosedEarlyOnlyLate
    TablesAreTidy
PROPERTIES
    EveryCallReturns
    NonceIsForgotten
    ErrorIsRepaired
CHECK_DEADLOCK FALSE
