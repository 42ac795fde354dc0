SPECIFICATION SealingSpec
CONSTANTS
    MaxHead = 1
    Budgets <- AllBudgets
    GasSlots = 1
    AdjustChanSize = 1
    HeadChanSize = 1
    SideChanSize = 2
    TxChanSize = 1
    StaleThreshold = 1
    DevModes = {FALSE, TRUE}
    InitTokens = {TRUE}
    Etherbases = {TRUE}
    Second <- MCSecond
    Intervals <- MCIntervals
    Cells = {c1, c2}
    NoCell = NoCell
    Nil = Nil
PROPERTIES
    SnapshotMonotone
INVARIANTS
    TypeOK
    SupersededRoundSignalled
    ResubmitTimerStaysArmed
    PrefetchersAreOwned
    SnapshotIsCurrent
CHECK_DEADLOCK FALSE
