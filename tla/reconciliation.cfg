SPECIFICATION FairSpec
CONSTANTS
    Worker = {w1, w2}
    None = None
    Active = "older"
    MaxAttempts = 2
    MaxRequests = 1
    MaxFaults = 2
INVARIANTS
    ActiveGenerationExists
    OutcomeIsTrue
PROPERTIES
    FinishedByLatestClaim
    DrainedStaysDrained
    ReconciliationEnds
CHECK_DEADLOCK FALSE
