SPECIFICATION Spec
CONSTANTS
    m1 = m1
    m2 = m2
    Inputs = {m1, m2}
    MaxTurn = 3
    MaxCrashes = 1
    RetryOpening = TRUE
INVARIANT InputsSurvive
CHECK_DEADLOCK FALSE
