CONSTANTS
    WalletCount = 2
    MaxBalance = 3
    Requests = {r1, r2}
    PoolSize = 2
    Offered <- EveryOperation
    InitialWallets <- OneWallet
    Opening <- FundsOnFirst
SPECIFICATION Spec
INVARIANTS
    TypeOK
    BalanceMatchesLedger
    AllOrNothing
    AnswerIsTruthful
PROPERTIES
    ImplementsAtomicWallet
\* Every call has ended: nothing is left to do.
CHECK_DEADLOCK FALSE
