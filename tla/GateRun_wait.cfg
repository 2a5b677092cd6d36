SPECIFICATION Spec
CONSTANTS
    Items = {a, b}
    RunIds = {1}
    Keys = {k1}
    Options = {"notify"}
    Limit = 0
    Grace = 0
    PruneAfter = 9
    MaxTime = 0
    LastCall = 1
    MaxCalls = 2
    MaxCrashes = 1
    MaxRefusals = 1
    MaxSlow = 0
INVARIANTS
    RecordedIsComplete
    FinishedIsSettled
PROPERTIES
    SettledWakesStay
SYMMETRY ItemSymmetry
CHECK_DEADLOCK FALSE
