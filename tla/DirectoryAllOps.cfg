CONSTANTS
    h1 = h1
    x1 = x1
    p1 = p1
    p2 = p2
    a1 = a1
    NoHub = NoHub
    Nobody = Nobody
    Requests = {r1, r2, r3}
    Phones = {p1, p2}
    Hubs <- HubsAndNew
    Areas <- OneArea
    InitialHubs <- OneHub
    InitialRiders <- OneRider
    InitialUsers <- FirstUser
    InitialRows <- FirstRow
    Offered <- EveryOperation
SYMMETRY Permutation
SPECIFICATION Spec
INVARIANTS
    TypeOK
    RowsAreSound
    WritesStayInScope
    AnswersAreTruthful
    RidersWithoutHub
    ListsAddUp
PROPERTY
    ImplementsMembership
\* Every request has ended: nothing is left to do.
CHECK_DEADLOCK FALSE
