SPECIFICATION Spec
CONSTANTS
    Requests = {r1, r2}
    FacetFields = {terrain}
    Kind = "refData"
    NoCaller = NoCaller
    NamesTTL = 0
    MaxEdition = 0
    MaxVersion = 1
    TTL = 0
    Timeout = 1
    MaxNow = 3
CHECK_DEADLOCK FALSE
SYMMETRY Symmetry
INVARIANTS
    PartsAreRecent
PROPERTIES
    PartsAreStaleReads
