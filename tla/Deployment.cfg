SPECIFICATION FairDeployment
CONSTANTS
    a = a
    b = b
    Runs = {r1, r2}
    Readers = {}
    Files <- TwoRoutes
    MaxConns = 1
    Migrators = {m1, m2, d1}
    Down = {d1}
    NoMigrator = NoMigrator
    NoRun = NoRun
    MaxCrashes = 1
    MaxCommands = 2
CHECK_DEADLOCK FALSE
INVARIANTS
    TablesAgree
    CompletionIsDurable
    ServingIsReady
    CleanVersionIsTrue
PROPERTIES EveryStoreEnds ServerComesBack UpDeploys
