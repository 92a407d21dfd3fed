SPECIFICATION FairSpec
CONSTANTS
    p1 = p1
    p2 = p2
    r1 = r1
    r2 = r2
    NoPod = NoPod
    Pods <- MCPods
    Runs <- MCRuns
    MaxUid = 2
    MaxGen = 2
    MaxTime = 4
    Scenarios <- MCScenarios
 
 
PROPERTY FilesKept
PROPERTY WorkspacesSettle
CHECK_DEADLOCK FALSE
