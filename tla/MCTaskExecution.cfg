SPECIFICATION Spec
CONSTANTS
    r1 = r1
    r2 = r2
    p1 = p1
    p2 = p2
    NoPod = NoPod
    Runs <- TwoRuns
    Pods <- TwoPods
    Capacity = 1
    MaxAttempts = 2
    Scenarios <- Safety
 
INVARIANT NoOrphanExecution
PROPERTY ImplementsLifecycle
PROPERTY NeverKillsLiveExecution
 
SYMMETRY Symmetric
CHECK_DEADLOCK FALSE
