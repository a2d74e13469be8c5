SPECIFICATION Spec
CONSTANTS
    Runs = {r1, r2}
    Sources <- SomeSources
    MaxRecords = 0
SYMMETRY Symmetry
CHECK_DEADLOCK FALSE
INVARIANTS
    PassedIsComplete
