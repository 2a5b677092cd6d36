SPECIFICATION FairSpec
CONSTANTS
    Items = {a}
    RunIds = {1, 2}
    Keys = {k1, k2}
    Options = {"notify"}
    Limit = 1
    Grace = 0
    PruneAfter = 9
    MaxTime = 1
    LastCall = 0
    MaxCalls = 2
    MaxCrashes = 1
    MaxRefusals = 0
    MaxSlow = 0
PROPERTIES
    NobodyWaitsForever
    QueueMoves
CHECK_DEADLOCK FALSE
