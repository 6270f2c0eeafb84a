SPECIFICATION FairSpec
CONSTANTS
    MaxConnections = 2
    MaxStreams = 1
    QueueCapacity = 1
    WireCapacity = 1
    MaxLines = 2
    MaxFaults = 1
INVARIANTS
    LogIsFaithful
    WithinBounds
PROPERTIES
    ClosedIsReleased
    StopReturns
    LinesArrive
CHECK_DEADLOCK FALSE
