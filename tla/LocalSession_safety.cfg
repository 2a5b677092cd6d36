SPECIFICATION Spec
CONSTANTS
    Keys = {k1}
    Kinds = {"ok", "question", "heartbeat"}
    MaxLines = 3
    MaxProcs = 2
    MaxCrashes = 1
    MaxFaults = 1
    PidReuse = FALSE
INVARIANTS
    TypeOK
    AckedIsRead
    AckedWereDelivered
    NoAckedReplay
    SuccessHasEvidence
    AnswersMatch
CHECK_DEADLOCK FALSE
