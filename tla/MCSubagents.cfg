SPECIFICATION Spec
CONSTANTS
    a = a
    b = b
    Children = {a, b}
    Isolated = {}
    Slots = 1
    MaxTurns = 2
    MaxFaults = 1
    MaxCrashes = 1
INVARIANTS LifecyclesBracketed EndIsProof RecordsMatchChildren ResumeLoads
PROPERTY QueueAndCleanupEnd
CHECK_DEADLOCK FALSE
