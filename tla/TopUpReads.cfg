CONSTANTS
    h1 = h1
    h2 = h2
    x1 = x1
    NoHub = NoHub
    Outside = Outside
    Requests = {r1, r2}
    MaxBalance = 3
    Hubs <- TwoHubs
    Riders <- OneRider
    InitialAssigned <- FirstHub
    InitialWallets <- FirstWallets
    Opening <- FundsOnFirst
    Offered <- EveryRead
SYMMETRY Permutation
SPECIFICATION Spec
INVARIANTS
    RidersInScopeAreReadable
\* Every request has ended and every hub is gone: nothing is left to do.
CHECK_DEADLOCK FALSE
