SPECIFICATION Spec
CONSTANTS
    Fields <- SomeFacets
    Dialect = "postgres"
    Boxes = {0, 2, 3, 4, 5}
    Limits <- SomeLimits
    Offsets = {100000, 100001}
    Phrases <- SomePhrases
    ObjectIDs <- SomeIDs
    Distances = {5, 2147484, 4294968}
CHECK_DEADLOCK FALSE
INVARIANTS
    TypeOK
    ParametersBind
    ProperRequestsRun
    TotalCountsTheHits
    ChoicesLeaveTheirFacet
    KeysDetermineQueries
