CONSTANTS
    WalletCount = 3
    MaxBalance = 4
    Requests = {r1, r2, r3}
    PoolSize = 3
    Offered <- Contending
    InitialWallets <- AllWallets
    Opening <- FundsOnEach
SYMMETRY Permutation
SPECIFICATION Spec
INVARIANTS
    MoneyIsConserved
    NoLockCycle
\* Every call has ended: nothing is left to do.
CHECK_DEADLOCK FALSE
