SPECIFICATION Spec
CONSTANTS
    m1 = m1
    m2 = m2
    Inputs = {m1, m2}
    MaxTurn = 2
    MaxCrashes = 1
    RetryOpening = FALSE
INVARIANTS TurnsBracketed MemoryFollowsJournal InputsSurvive CloseIsProof
PROPERTY FenceEnds
CHECK_DEADLOCK FALSE
