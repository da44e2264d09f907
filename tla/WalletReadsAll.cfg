CONSTANTS
    h1 = h1
    h2 = h2
    x1 = x1
    wh = wh
    wx = wx
    wn = wn
    o1 = o1
    o2 = o2
    o3 = o3
    NoHub = NoHub
    Readers = {r1}
    MaxClock = 3
    Hubs <- TwoHubs
    Riders <- OneRider
    WalletIds <- AnyWallet
    Wallets <- TwoWallets
    Owner <- OwnerOfEach
    Operations <- ThreeOperations
    Parties <- Changes
    InitialAssigned <- FirstHub
    Offered <- EveryRead
SYMMETRY Permutation
SPECIFICATION Spec
INVARIANTS
    TypeOK
    NothingIsMissed
    TotalsAddUp
    ReadsStayInScope
\* The reader has ended, every operation committed, every hub gone: nothing is
\* left to do.
CHECK_DEADLOCK FALSE
