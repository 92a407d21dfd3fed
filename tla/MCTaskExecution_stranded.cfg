SPECIFICATION FairSpec
CONSTANTS
    r1 = r1
    r2 = r2
    p1 = p1
    p2 = p2
    NoPod = NoPod
    Runs <- OneRun
    Pods <- TwoPods
    Capacity = 1
    MaxAttempts = 2
    Scenarios <- Loss
PROPERTY ScheduledRunsMove
CHECK_DEADLOCK FALSE
