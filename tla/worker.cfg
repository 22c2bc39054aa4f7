SPECIFICATION WorkerFairSpec
CONSTANTS
    c1 = c1
    c2 = c2
    Idle = Idle
    Callers <- TwoCallers
    Intervals = {1, 2}
    Strict = TRUE
    MaxTime = 3
CHECK_DEADLOCK FALSE
INVARIANT WorkerTypeOK
INVARIANT SleepsNoLonger
INVARIANT PlannedWithinInterval
PROPERTY DueRotates
PROPERTY DropReturns
