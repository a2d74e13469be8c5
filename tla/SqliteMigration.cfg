SPECIFICATION Spec
CONSTANTS
    Runs = {r1, r2, r3}
    Sources <- SomeSources
    MaxRecords = 2
SYMMETRY Symmetry
CHECK_DEADLOCK FALSE
INVARIANTS
    TypeOK
    OneWriter
    PassedHasItsRoutes
    RoutesComeFirst
