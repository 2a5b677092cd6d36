SPECIFICATION FairSpec
CONSTANTS
    Keys = {k1}
    Kinds = {"ok", "heartbeat"}
    MaxLines = 2
    MaxProcs = 2
    MaxCrashes = 1
    MaxFaults = 1
    PidReuse = TRUE
PROPERTIES
    CrashedChildSettles
    EveryLineDelivered
    IsEventFeed
CHECK_DEADLOCK FALSE
