SPECIFICATION FairSpec
CONSTANTS
    Deployment = {d1, d2}
    Project = {p1}
    ProjectOf <- OneProject
    Worker = {w1}
    None = None
    MaxAttempts = 2
    MaxFaults = 3
    LateErrors = FALSE
INVARIANTS
    ActiveGenerationExists
PROPERTIES
    SuccessIsActive
    UncertainIsPreserved
    EverySettles
CHECK_DEADLOCK FALSE
