SPECIFICATION IntervalSpec
CONSTANTS
    Second    <- MCSecond
    Intervals <- MCIntervals
    Ratios    <- MCRatios
INVARIANTS
    IntervalTypeOK
    RecommitBetweenFloorAndMax
    FeedbackMakesProgress
CHECK_DEADLOCK TRUE
