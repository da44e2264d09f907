CONSTANTS
    Callers = {c1, c2, c3}
    Owners = {hub, rider}
    NoWallet = NoWallet
SPECIFICATION FairSpec
INVARIANTS
    TypeOK
    ReturnsTheOneWallet
    RaceNeverSurfaces
PROPERTIES
    EveryCallEnds
    ImplementsAtomicEnsure
\* Every call has ended: nothing is left to do.
CHECK_DEADLOCK FALSE
