CONSTANTS
    Project = {p1, p2}
    Hostname = {h1, h2}
    Worker = {w1}
    None = None
    MaxAttempts = 2
    MaxRevision = 2
    MaxFaults = 2
CHECK_DEADLOCK FALSE
SPECIFICATION FairGatewaySpec
PROPERTIES RequestsFinish
