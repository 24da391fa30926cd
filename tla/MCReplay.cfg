SPECIFICATION Spec
CONSTANTS
    Readers = {r1, r2, r3, r4}
    Window = 2
    Limit = 4
    PageSizes = {1, 2}
    MaxWaiters = 3
INVARIANT
    CreditsAccounted
PROPERTY
    ReadersServed
