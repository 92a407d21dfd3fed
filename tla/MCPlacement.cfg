SPECIFICATION Spec
CONSTANTS
    r1 = r1
    r2 = r2
    r3 = r3
    Runs <- ThreeRuns
    Pods = {1, 2}
    Labels = {"a", "b"}
    Resources = {"runs", "gpu"}
    Scenarios <- MCScenarios
    MaxAttempts = 2
INVARIANT CapacityVectorKept
INVARIANT CohortTogether
INVARIANT WokenWhenPlaceable
 
CHECK_DEADLOCK FALSE
