SPECIFICATION Spec
CONSTANTS
    Total = 3
    Window = 3
    Permits = 2
    MaxChunks = 0
    Faults = {}
    MaxUnproven = 0
INVARIANT FreshApprovalRuns
