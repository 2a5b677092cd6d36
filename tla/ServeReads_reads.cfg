SPECIFICATION Spec
CONSTANTS
    Readers = {r1}
    Threads = {t1, t2}
    Applier = applier
    Layouts = {i1, i2}
    Reverts = FALSE
    MaxEdits = 1
    MaxApplies = 0
    MaxConfigs = 1
    MaxFaults = 1
    MaxErrors = 1
SYMMETRY Symmetry
VIEW View
INVARIANTS
    TypeOK
    StampCovers
