SPECIFICATION FairSpec
CONSTANTS
    None = None
    Settings = Settings
    Request = {r1}
    Worker = {w1, w2}
    MaxAttempts = 2
    MaxRetries = 1
    MaxFaults = 1
INVARIANTS
    NothingLeftBehind
    PhaseIsDone
PROPERTIES
    RemovedOutOfUse
    DeletionEnds
CHECK_DEADLOCK FALSE
