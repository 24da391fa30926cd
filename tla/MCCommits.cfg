SPECIFICATION FairSpec
CONSTANTS
    Sessions = {s1, s2}
    Settling = {s1}
    PerSession = 2
    MaxBatches = 2
    MaxExecuting = 1
    MaxReads = 1
    MaxCalls = 2
INVARIANTS
    FailStop
    AcknowledgedIsOwned
    WritesAreCharged
    ShutdownProves
PROPERTIES
    SettleMeansQuiet
    EveryCommitAnswered
    EveryWaitEnds
CHECK_DEADLOCK FALSE
