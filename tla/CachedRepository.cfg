SPECIFICATION Spec
CONSTANTS
    Callers = {c1, c2}
    Keys = {hits}
    ListKeys = {hits}
    NoCaller = NoCaller
    TTL = 1
    Timeout = 1
    MaxVersion = 1
    MaxNow = 4
SYMMETRY Symmetry
CHECK_DEADLOCK FALSE
INVARIANTS
    TypeOK
    OneQueryPerKey
    MonotonicReads
    BoundedStaleness
    TruncationPasses
PROPERTIES
    EntriesAdvance
    ReadsAreStaleReads
