SPECIFICATION FairSpec
CONSTANTS
    Requests = {r1, r2}
    FacetFields = {terrain}
    Kind = "refData"
    NoCaller = NoCaller
    NamesTTL = 0
    MaxEdition = 0
    MaxVersion = 0
    TTL = 0
    Timeout = 1
    MaxNow = 2
CHECK_DEADLOCK FALSE
PROPERTIES
    EveryRequestEnds
