----------------------------- MODULE Deployment -----------------------------
(***************************************************************************)
(* src/docker-compose.yml brings the system up: the database, then         *)
(* run-migrations (SchemaMigration), then import-data (the imports of      *)
(* RouteStore), then api-server (src/cmds/http_api_server.go), each when   *)
(* what it depends on is healthy or has exited with success.  The jobs are *)
(* not restarted; an operator gives "docker compose up" again when one has *)
(* failed, or to import newer files.  The database and the server are      *)
(* restarted whenever they stop, and then in no particular order.          *)
(* Migrations and imports may be given by hand, too, at any time.  So may  *)
(* api-server (src/main.go), which then waits for neither job: such a      *)
(* server is not modelled, "server" is the container's.                    *)
(* XFault is X with a plausible mistake in it.                             *)
(***************************************************************************)
EXTENDS RouteStore, SchemaMigration

CONSTANTS
    NoRun,                         \* "nothing to import yet"
    MaxCommands,                   \* bound: times "migration" is run
    MaxCrashes                     \* bound: crashes of the database and the server

ASSUME NoRunAssumption == NoRun \notin Runs
ASSUME BoundsAssumption == MaxCommands \in Nat /\ MaxCrashes \in Nat

VARIABLES
    migration,  \* the process of the container run-migrations
    import,     \* the process of the container import-data
    database,   \* "up" (and healthy) or "down"
    server,     \* "off", "starting", "serving" or "exited"
    crashes,    \* crashes so far
    troubled    \* history: something failed since the last "docker compose up"

jobVars == <<migrationVars, dbVars, runVars>>
composeVars == <<migration, import, database, server, crashes>>
deploymentVars == <<jobVars, readVars, composeVars, troubled>>

-----------------------------------------------------------------------------
(* service_completed_successfully; jobs that have not exited.              *)
Migrated == migration # NoMigrator /\ stage[migration] \in Succeeded
Imported == Migrated /\ run[import] = "completed"
JobsGoOn ==
    /\ migration # NoMigrator
    /\ migration \notin dead /\ stage[migration] # "failed"
    /\ Migrated => run[import] \notin {"completed", "failed"}

DeploymentInit ==
    /\ Init
    /\ MigrationInit
    /\ migration = NoMigrator
    /\ import = NoRun
    /\ database = "up"
    /\ server = "off"
    /\ crashes = 0
    /\ troubled = FALSE

(* "docker compose up", again only when the jobs have exited.  Which of    *)
(* the processes that have not been used becomes a job makes no difference.*)
MayRunMore == Cardinality({m \in Migrators : stage[m] # "new" \/ m = migration}) < MaxCommands
NewMigrators == {m \in Migrators \ Down : stage[m] = "new" /\ m # migration}
NewRuns == {r \in Runs : run[r] = "new"}
Up ==
    /\ ~JobsGoOn
    /\ MayRunMore
    /\ NewMigrators # {} /\ NewRuns # {}
    /\ migration' = CHOOSE m \in NewMigrators : TRUE
    /\ import' = CHOOSE r \in NewRuns : TRUE
    /\ troubled' = FALSE
    /\ UNCHANGED <<jobVars, readVars, database, server, crashes>>

-----------------------------------------------------------------------------
(* run-migrations waits for the database only; going down, and importing   *)
(* more, are done by hand.                                                 *)
MayMigrate(m) ==
    /\ database = "up"
    /\ stage[m] = "new" => m = migration \/ (m \in Down /\ MayRunMore)
Migrate(m) ==
    /\ MayMigrate(m)
    /\ MigratorStep(m) \/ SessionEnds(m)
    /\ UNCHANGED <<dbVars, runVars, readVars, composeVars, troubled>>

MigrationRefused(m) ==
    /\ MayMigrate(m)
    /\ Refuse(m)
    /\ troubled' = TRUE
    /\ UNCHANGED <<dbVars, runVars, readVars, composeVars>>

MigrationFails(m) ==
    /\ MayMigrate(m)
    /\ MigratorFails(m)
    /\ troubled' = TRUE
    /\ UNCHANGED <<dbVars, runVars, readVars, composeVars>>

(* import-data starts when run-migrations has succeeded.  An import given  *)
(* by hand before there are tables fails at once and is left out.          *)
MayStart(r) ==
    /\ schema = "up"
    /\ r = import => Migrated
Import(r) ==
    /\ database = "up"
    /\ run[r] = "new" => MayStart(r)
    /\ \/ Start(r) \/ SendBatch(r) \/ StoreReturns(r) \/ Complete(r)
       \/ Statement(r) \/ Commit(r)
    /\ UNCHANGED <<migrationVars, composeVars, troubled>>

ImportFails(r) ==
    /\ Die(r) \/ Abort(r)
    /\ troubled' = TRUE
    /\ UNCHANGED <<migrationVars, composeVars>>

-----------------------------------------------------------------------------
(* api-server is started once both jobs have succeeded; from then on it is *)
(* restarted whatever happens.                                             *)
StartServerFault ==
    /\ server = "off"
    /\ database = "up"
    /\ Migrated
    /\ server' = "starting"
    /\ UNCHANGED <<jobVars, readVars, migration, import, database, crashes, troubled>>
StartServer ==
    /\ server = "off"
    /\ database = "up"
    /\ Imported
    /\ server' = "starting"
    /\ UNCHANGED <<jobVars, readVars, migration, import, database, crashes, troubled>>

(* NewHttpApiServer reaches the database within ten seconds, or exits.     *)
ServerConnects ==
    /\ server = "starting"
    /\ database = "up"
    /\ server' = "serving"
    /\ UNCHANGED <<jobVars, readVars, migration, import, database, crashes, troubled>>

ServerGivesUpFault ==
    /\ server = "starting"
    /\ server' = "hung"
    /\ troubled' = TRUE
    /\ UNCHANGED <<jobVars, readVars, migration, import, database, crashes>>
ServerGivesUp ==
    /\ server = "starting"
    /\ server' = "exited"
    /\ troubled' = TRUE
    /\ UNCHANGED <<jobVars, readVars, migration, import, database, crashes>>

ServerRestarts ==
    /\ server = "exited"
    /\ server' = "starting"
    /\ UNCHANGED <<jobVars, readVars, migration, import, database, crashes, troubled>>

ServerCrashes ==
    /\ server \in {"starting", "serving"}
    /\ crashes < MaxCrashes
    /\ crashes' = crashes + 1
    /\ server' = "exited"
    /\ troubled' = TRUE
    /\ UNCHANGED <<jobVars, readVars, migration, import, database>>

Server == StartServer \/ ServerConnects \/ ServerGivesUp \/ ServerRestarts \/ ServerCrashes

(* What the database has committed survives it; sessions do not.           *)
DatabaseCrashes ==
    /\ database = "up"
    /\ crashes < MaxCrashes
    /\ crashes' = crashes + 1
    /\ database' = "down"
    /\ SessionsBreak
    /\ tx' = [r \in Runs |-> IF tx[r].state = "open" THEN [tx[r] EXCEPT !.state = "aborted"]
                                                     ELSE tx[r]]
    /\ troubled' = TRUE
    /\ UNCHANGED <<dbVars, run, file, readVars, migration, import, server>>

DatabaseRestarts ==
    /\ database = "down"
    /\ database' = "up"
    /\ UNCHANGED <<jobVars, readVars, migration, import, server, crashes, troubled>>

DeploymentNext ==
    \/ Up
    \/ \E m \in Migrators : Migrate(m) \/ MigrationRefused(m) \/ MigrationFails(m)
    \/ \E r \in Runs : Import(r) \/ ImportFails(r)
    \/ Server
    \/ DatabaseCrashes
    \/ DatabaseRestarts

DeploymentSpec == DeploymentInit /\ [][DeploymentNext]_deploymentVars

(* Docker starts and restarts containers, processes that run go on, and    *)
(* the database does what it is sent.  No operator has to come, and        *)
(* nothing has to fail.                                                    *)
DeploymentFairness ==
    /\ \A m \in Migrators :
           /\ WF_deploymentVars(Migrate(m) /\ (stage[m] = "new" => m = migration))
           /\ WF_deploymentVars(MigrationRefused(m))
    /\ \A r \in Runs :
           /\ WF_deploymentVars(Import(r) /\ (run[r] = "new" => r = import) /\ run' # run)
           /\ WF_deploymentVars(Import(r) /\ run' = run)
    /\ WF_deploymentVars(StartServer)
    /\ WF_deploymentVars(ServerRestarts)
    /\ SF_deploymentVars(ServerConnects)
    /\ WF_deploymentVars(DatabaseRestarts)

FairDeployment == DeploymentSpec /\ DeploymentFairness

-----------------------------------------------------------------------------
(* While the container's server listens, the tables exist and every file of*)
(* the import folder has been committed: it answers no request from an     *)
(* empty or half imported database, whatever has crashed or failed,        *)
(* whatever migrations and imports were given by hand, and although a      *)
(* restarting server looks at none of it.                                  *)
ServingIsReady ==
    server = "serving" => /\ schema = "up"
                          /\ \A id \in Ids : log[id] # <<>>

(* Once started, the server comes back after every crash, its own or the   *)
(* database's, with which it may be restarted in any order.                *)
ServerComesBack == server = "exited" ~> server = "serving"

(* A "docker compose up" during which nothing fails ends with the server   *)
(* listening: what earlier ones left behind, by dying in the middle or     *)
(* with a statement still running, does not stand in its way, unless a     *)
(* migration refuses to build on it.                                       *)
UpDeploys == (migration # NoMigrator /\ []~troubled) ~> server = "serving"

=============================================================================
