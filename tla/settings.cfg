SPECIFICATION SettingsSpec
CONSTANTS
    None = None
    Keep = Keep
    Omit = Omit
    Request = {r1, r2}
    Editor = {e1, e2}
    Variable = {v1}
    Value = {a, b}
    MaxVersion = 2
    MaxConfig = 3
    MaxFaults = 1
SYMMETRY Symmetric
INVARIANTS
    ReferencesResolve
    RecordedIsUsable
CHECK_DEADLOCK FALSE
