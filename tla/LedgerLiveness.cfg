CONSTANTS
    WalletCount = 2
    MaxBalance = 4
    Requests = {r1, r2, r3}
    PoolSize = 2
    Offered <- Waiting
    InitialWallets <- AllWallets
    Opening <- FundsOnEach
SPECIFICATION FairSpec
INVARIANTS
    NeverStuck
PROPERTIES
    EveryCallEnds
\* Every call has ended: nothing is left to do.
CHECK_DEADLOCK FALSE
