SPECIFICATION FairSpec
CONSTANTS
    Specs <- AllSpecs
    MaxFaults = 1
INVARIANT StartsInOrder
INVARIANT OutcomeHonest
PROPERTY OutcomeFinal
PROPERTY WorkflowsSettle
CHECK_DEADLOCK FALSE
