SPECIFICATION FairSpec
CONSTANTS
    MaxHead = 0
    Budgets <- ShutdownBudgets
    GasSlots = 1
    AdjustChanSize = 1
    HeadChanSize = 1
    SideChanSize = 1
    TxChanSize = 1
    StaleThreshold = 1
    DevModes = {FALSE}
    InitTokens = {TRUE}
    Etherbases = {FALSE, TRUE}
    Second <- MCSecond
    Intervals <- MCPinnedInterval
    Cells = {c1, c2}
    NoCell = NoCell
    Nil = Nil
PROPERTIES
    ShutdownCompletes
    CallsReturn
INVARIANTS
    PrefetchersAreOwned
CHECK_DEADLOCK FALSE
