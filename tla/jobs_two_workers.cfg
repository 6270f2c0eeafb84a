SPECIFICATION Spec
CONSTANTS
    Deployment = {d1, d2}
    Project = {p1}
    ProjectOf <- OneProject
    Worker = {w1, w2}
    None = None
    MaxAttempts = 2
    MaxFaults = 1
    LateErrors = TRUE
SYMMETRY WorkerSymmetry
INVARIANTS
    TypeOK
    JobAgreesWithStatus
    OneActivePerProject
    AttemptsWithinBudget
PROPERTIES
    OnlyTheHolderDecides
    TerminalIsFinal
    DrainedStaysDrained
    ImplementsLifecycle
CHECK_DEADLOCK FALSE
