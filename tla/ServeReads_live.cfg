SPECIFICATION FairSpec
CONSTANTS
    Readers = {r1, r2}
    Threads = {t1}
    Applier = applier
    Layouts = {i1}
    Reverts = FALSE
    MaxEdits = 1
    MaxApplies = 1
    MaxConfigs = 0
    MaxFaults = 0
    MaxErrors = 0
INVARIANTS
    ApplyCovers
PROPERTIES
    ClientsCatchUp
