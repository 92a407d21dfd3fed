SPECIFICATION FairSpec
CONSTANTS
    Names = {"a", "b"}
    Accounts = {"default", "own"}
    DefaultAccount = "default"
    None = None
    MaxLag = 2
    Scenarios <- MCScenarios
INVARIANT PodsCanServe
 
PROPERTY RuntimesConverge
CHECK_DEADLOCK FALSE
