SPECIFICATION Spec
CONSTANTS
    Total = 3
    Window = 3
    Permits = 2
    MaxChunks = 1
    Faults = {"emit", "interrupt"}
    MaxUnproven = 1
INVARIANTS TranscriptInOrder MutationAlone ApprovedDiffHolds
PROPERTY PreparedCallsFinish
