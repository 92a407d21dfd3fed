SPECIFICATION Spec
CONSTANTS
    t1 = t1
    t2 = t2
    t3 = t3
    s1 = s1
    f1 = f1
    Runs <- MCRuns
    Mode <- MCMode
    Capacity = 2
INVARIANT GateKeepsSessionsAlone
INVARIANT GateKeepsCapacity
CHECK_DEADLOCK FALSE
