CONSTANTS
    Client = {c1}
    Sub = {s1, s2}
    None = None
    MaxSubscriptions = 1
    PageSize = 2
    Window = 2
    MaxEvents = 3
    MaxFaults = 2
CHECK_DEADLOCK FALSE
SPECIFICATION FairSpec
INVARIANTS
    StreamIsContiguous
    PermitsConserved
    PageConverges
PROPERTY EveryRowIsShown
