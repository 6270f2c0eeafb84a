SPECIFICATION Spec
CONSTANTS
    Deployment = {d1}
    Project = {p1}
    ProjectOf <- OneProject
    Worker = {w1}
    None = None
    MaxAttempts = 2
    MaxFaults = 1
    LateErrors = TRUE
CHECK_DEADLOCK FALSE
PROPERTIES UncertainIsPreserved
