SPECIFICATION FairSpec
CONSTANTS
    Runs = {r1, r2}
    Readers = {d1}
    a = a
    Files <- OneRoute
    MaxConns = 1
CHECK_DEADLOCK FALSE
INVARIANTS
    TypeOK
    ReadsMoveForward
PROPERTIES
    StoreIsARegister
    EveryReadEnds
