SPECIFICATION Spec
CONSTANTS
    MaxHead = 2
    Budgets <- TwoHeadsBudgets
    GasSlots = 1
    AdjustChanSize = 1
    HeadChanSize = 1
    SideChanSize = 1
    TxChanSize = 1
    StaleThreshold = 1
    DevModes = {FALSE}
    InitTokens = {TRUE}
    Etherbases = {TRUE}
    Second <- MCSecond
    Intervals <- MCPinnedInterval
    Cells = {c1, c2}
    NoCell = NoCell
    Nil = Nil
INVARIANTS
    PendingTasksFresh
CHECK_DEADLOCK FALSE
