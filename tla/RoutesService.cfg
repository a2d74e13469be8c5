SPECIFICATION FairSpec
CONSTANTS
    Requests = {r1}
    FacetFields <- ThreeFacets
CHECK_DEADLOCK FALSE
INVARIANTS
    TypeOK
    SendsNeverBlock
    AnswersAreWhole
PROPERTIES
    EveryRequestIsAnswered
    NoGoroutineLeaks
    DeadlineIsKept
