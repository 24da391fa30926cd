SPECIFICATION FairSpec
CONSTANTS
    Subs = {s1}
    Clients = {c1, c2}
    Everyone = Everyone
    Capacity = 1
    MaxSubscriptions = 1
    MaxSeq = 2
    MaxBatch = 2
    MaxSends = 2
    MaxPage = 1
INVARIANTS
    ContiguousDelivery
    NoSilentLoss
    SleepingIsCaughtUp
PROPERTIES
    ImplementsOrderedDelivery
    PublishedIsDelivered
    CloseIsReported
CHECK_DEADLOCK FALSE
