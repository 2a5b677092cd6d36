SPECIFICATION Spec
CONSTANTS
    Items = {a, b, c}
    RunIds = {1, 2}
    Keys = {k1}
    Options = {}
    Limit = 1
    Grace = 0
    PruneAfter = 0
    MaxTime = 1
    LastCall = 1
    MaxCalls = 1
    MaxCrashes = 0
    MaxRefusals = 0
    MaxSlow = 1
INVARIANTS
    TypeOK
    WithinLimit
    PrunedOwesNothing
PROPERTIES
    RequestersFrozen
SYMMETRY ItemSymmetry
CHECK_DEADLOCK FALSE
