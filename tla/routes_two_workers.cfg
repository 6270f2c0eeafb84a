CONSTANTS
    Project = {p1, p2}
    Hostname = {h1, h2}
    Worker = {w1, w2}
    None = None
    MaxAttempts = 1
    MaxRevision = 2
    MaxFaults = 2
CHECK_DEADLOCK FALSE
SPECIFICATION Spec
SYMMETRY RouteSymmetry
INVARIANTS HostnameHasOneOwner SettledIsServed
PROPERTIES AppliedIsServedFirst
