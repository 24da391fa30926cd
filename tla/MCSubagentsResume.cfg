SPECIFICATION Spec
CONSTANTS
    a = a
    b = b
    Children = {a, b}
    Isolated = {a}
    Slots = 1
    MaxTurns = 2
    MaxFaults = 0
    MaxCrashes = 1
INVARIANT ResumeLoads
CHECK_DEADLOCK FALSE
