SPECIFICATION FairSpec
CONSTANTS
    Invocations <- MCInvocations
    Scenarios <- MCScenarios
INVARIANT CallsSound
INVARIANT EndsClean
PROPERTY RegistrationsSettle
CHECK_DEADLOCK FALSE
