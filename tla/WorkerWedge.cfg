SPECIFICATION Spec
CONSTANTS
    MaxHead = 1
    Budgets <- CloseBudgets
    GasSlots = 1
    AdjustChanSize = 2
    HeadChanSize = 1
    SideChanSize = 1
    TxChanSize = 1
    StaleThreshold = 1
    DevModes = {FALSE}
    InitTokens = {TRUE}
    Etherbases = {TRUE}
    Second <- MCSecond
    Intervals <- MCPinnedInterval
    Cells = {c1, c2}
    NoCell = NoCell
    Nil = Nil
INVARIANTS
    MainLoopCanExit
CHECK_DEADLOCK FALSE
