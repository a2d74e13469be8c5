SPECIFICATION Spec
CONSTANTS
    Requests = {r1, r2}
    FacetFields = {}
    Kind = "searchSkipFacets"
    NoCaller = NoCaller
    NamesTTL = 0
    MaxEdition = 1
    MaxVersion = 0
    TTL = 1
    Timeout = 1
    MaxNow = 3
CONSTRAINT Untroubled
SYMMETRY Symmetry
CHECK_DEADLOCK FALSE
INVARIANTS
    FailuresHaveACause
    CentreIsTheServices
    TruncationsHaveACause
