SPECIFICATION FairSpec
CONSTANTS
    r1 = r1
    r2 = r2
    p1 = p1
    p2 = p2
    NoPod = NoPod
    Runs <- TwoRuns
    Pods <- TwoPods
    Capacity <- OneSlot
    Placement <- Anywhere
    MaxAttempts = 2
    Scenarios <- Mixed
INVARIANT CapacityRespected
PROPERTY ExactHandoff
PROPERTY NoPlacementAfterTermination
PROPERTY ImplementsLifecycle
PROPERTY EventuallyDecided
CHECK_DEADLOCK FALSE
