SPECIFICATION Spec
CONSTANTS
    Fields <- TwoFacets
    Dialect = "sqlite"
    Boxes = {4}
    Limits = {0}
    Offsets = {0}
    Phrases <- SomePhrases
    ObjectIDs <- SomeIDs
    Distances = {5}
CHECK_DEADLOCK FALSE
INVARIANTS
    ParametersBind
