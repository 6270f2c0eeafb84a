CONSTANTS
    Deployment = {d1, d2, d3}
    Default = Default
    None = None
    MaxAttempts = 2
    MaxCrashes = 2
    MaxFailures = 1
    MaxStops = 1
CHECK_DEADLOCK FALSE
SPECIFICATION FairSpec
INVARIANTS PreviewIsServed ActiveGenerationExists RebuiltIsNotServed
PROPERTIES DeploymentSettles
