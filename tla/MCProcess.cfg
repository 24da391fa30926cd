SPECIFICATION FairProcessSpec
CONSTANTS
    Requesters = {a1, a2}
    Runners = {r1}
    Launchers = {p1}
    Capacity = 2
    MaxWaiting = 2
INVARIANTS
    PermitsAccounted
    ProcessIsLeased
    NeverSignalStranger
PROPERTIES
    EveryAdmissionEnds
    OwnersFinish
CHECK_DEADLOCK FALSE
