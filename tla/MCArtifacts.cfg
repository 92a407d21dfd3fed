SPECIFICATION FairSpec
CONSTANTS
    a = a
    b = b
    p1 = p1
    p2 = p2
    s1 = s1
    s2 = s2
    Runs <- MCRuns
    Pods <- MCPods
    Stores <- MCStores
    NoPod = NoPod
    NoStore = NoStore
    MaxAttempts = 2
    MaxArtifactRefs = 3
    MaxArtifact = 2
    MaxTotal = 3
    Scenarios <- MCScenarios
INVARIANT PublishedSound
 
PROPERTY ArtifactsSettle
CHECK_DEADLOCK FALSE
