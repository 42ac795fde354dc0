SPECIFICATION FairSpec
CONSTANTS
    Accounts = {a1, a2}
    Batches <- MCBatches
    Nonces <- MCNonces
    GasLimit = 3
    Nil = Nil
INVARIANTS
    TypeOK
    NothingExecutableLeftBehind
PROPERTIES
    KeepsFillContract
    FillReturns
CHECK_DEADLOCK FALSE
