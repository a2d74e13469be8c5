-------------------------- MODULE DeploymentProofs --------------------------
(***************************************************************************)
(* Proofs about Deployment, for any number of migrations, imports, files,  *)
(* commands and crashes.  The composed system keeps the invariants of its  *)
(* parts: a step of a part is a step of that part's own specification,     *)
(* but for the crash of the database, which ends all sessions at once.     *)
(***************************************************************************)
EXTENDS Deployment, SchemaMigrationProofs, RouteStoreProofs

(* The containers have processes; nothing was imported before there were   *)
(* tables, and once the server has been started everything is there.       *)
ContainersInv ==
    /\ migration # NoMigrator => import \in Runs
    /\ server \in {"off", "starting", "serving", "exited"}
    /\ \A r \in Runs : run[r] # "new" => schema = "up"
    /\ server # "off" => /\ schema = "up"
                         /\ \A id \in Ids : ToSet(log[id]) # {}

DeploymentIInv == IInv /\ MigrationIInv /\ ContainersInv

-----------------------------------------------------------------------------
(* Nothing takes the tables away.                                          *)
LEMMA TablesStay ==
    ASSUME \/ \E m \in Migrators : \/ MigratorStep(m) \/ MigratorFails(m)
                                   \/ Refuse(m) \/ SessionEnds(m)
           \/ SessionsBreak
    PROVE  schema' = schema \/ schema' = "up"
BY DEF MigratorStep, MigratorFails, Refuse, SessionEnds, SessionsBreak, Connect, NoChange, Change,
       MarkDirty, RunScript, MarkClean, ConnectFails, LockTimesOut, ScriptFails, MigratorDies,
       MarksDirty, CreatesTables, MarksClean

(* The writers' part of the store is as it was.                            *)
LEMMA WritersRest ==
    ASSUME IInv, UNCHANGED <<tables, log, run, file, tx>>
    PROVE  IInv'
BY DEF IInv, WriterTypes, Storing, RowsAreLocked, DeletesAll, TablesAgree,
       FilesAreCommitted, Locks, IdOf, Doc

LEMMA RunStepIInv ==
    ASSUME IInv, NEW r \in Runs, RunStep(r)
    PROVE  IInv'
BY WriterTypesStep, StoringStep, LocksStep, DeletesStep, TablesAgreeStep, FilesStep DEF IInv

(* A crash of the database aborts what is open and loses nothing else.     *)
LEMMA CrashIInv ==
    ASSUME IInv, DatabaseCrashes
    PROVE  IInv'
<1> DEFINE Tx == [at : 0..Len(Batch) + 1,
                  state : {"none", "open", "committed", "aborted"},
                  gone : [Tables -> SUBSET Docs]]
<1>1. UNCHANGED <<tables, log, run, file>>
  BY DEF DatabaseCrashes, dbVars
<1>2. \A r \in Runs : tx[r] \in Tx
  BY DEF IInv, WriterTypes
<1>3. \A u \in Tx : [u EXCEPT !.state = "aborted"] \in Tx
  OBVIOUS
<1>4. \A r \in Runs : tx'[r] = IF tx[r].state = "open" THEN [tx[r] EXCEPT !.state = "aborted"]
                                                       ELSE tx[r]
  BY DEF DatabaseCrashes
<1>5. \A r \in Runs : /\ tx'[r].state # "open"
                      /\ tx[r].state # "none" => tx'[r].state # "none"
                      /\ tx'[r].state = "committed" => tx[r].state = "committed"
  BY <1>2, <1>4
<1>6. WriterTypes'
  <2> HIDE DEF Tx
  <2>1. \A r \in Runs : tx'[r] \in Tx
    BY <1>2, <1>3, <1>4
  <2>2. tx' = [r \in Runs |-> tx'[r]]
    BY DEF DatabaseCrashes
  <2>3. tx' \in [Runs -> Tx]
    BY <2>1, <2>2
  <2> QED
    BY <1>1, <2>3 DEF Tx, IInv, WriterTypes
<1>7. Storing'
  BY <1>1, <1>5 DEF IInv, Storing
<1>8. RowsAreLocked' /\ DeletesAll'
  BY <1>5 DEF RowsAreLocked, DeletesAll, Locks
<1>9. TablesAgree'
  BY <1>1 DEF IInv, TablesAgree
<1>10. FilesAreCommitted'
  BY <1>1, <1>5 DEF IInv, FilesAreCommitted, Doc, IdOf
<1> QED
  BY <1>6, <1>7, <1>8, <1>9, <1>10 DEF IInv

(* A run that has completed has left something in the log of every route.  *)
LEMMA CompletedFillsLogs ==
    ASSUME IInv, NEW r \in Runs, run[r] = "completed", NEW id \in Ids
    PROVE  ToSet(log[id]) # {}
<1>1. PICK i \in DOMAIN Files : Files[i] = id
  BY DEF Ids, ToSet
<1>2. file[r] \in 1..Len(Files) + 1 /\ file[r] \notin DOMAIN Files
  BY DEF IInv, WriterTypes, FilesAreCommitted
<1>3. i < file[r]
  BY <1>2, FilesFacts
<1> QED
  BY <1>1, <1>3 DEF IInv, FilesAreCommitted

-----------------------------------------------------------------------------
LEMMA InitDeployment == DeploymentInit => DeploymentIInv
<1> SUFFICES ASSUME DeploymentInit PROVE DeploymentIInv
  OBVIOUS
<1>1. MigrationIInv
  BY InitIInv DEF DeploymentInit
<1>2. Init /\ ContainersInv
  BY DEF DeploymentInit, ContainersInv, Init
<1>3. WriterTypes
  BY <1>2, FilesFacts, BatchFacts DEF Init, WriterTypes, NoTx
<1>4. Storing /\ RowsAreLocked /\ DeletesAll
  BY <1>2 DEF Init, Storing, RowsAreLocked, DeletesAll, Locks, NoTx
<1>5. TablesAgree
  BY <1>2 DEF Init, TablesAgree
<1>6. FilesAreCommitted
  BY <1>2, FilesFacts DEF Init, FilesAreCommitted
<1> QED
  BY <1>1, <1>2, <1>3, <1>4, <1>5, <1>6 DEF DeploymentIInv, IInv

(* The steps of each part; the last one looks at none of them.             *)
LEMMA UpKeeps ==
    ASSUME DeploymentIInv, Up
    PROVE  DeploymentIInv'
<1>1. IInv'
  BY WritersRest DEF DeploymentIInv, Up, jobVars, dbVars, runVars
<1>2. MigrationIInv'
  BY StutterIInv DEF DeploymentIInv, Up, jobVars
<1>3. import' \in Runs
  BY DEF Up, NewRuns
<1> QED
  BY <1>1, <1>2, <1>3 DEF DeploymentIInv, ContainersInv, Up, jobVars, migrationVars, dbVars, runVars

LEMMA MigrationKeeps ==
    ASSUME DeploymentIInv, NEW m \in Migrators,
           Migrate(m) \/ MigrationRefused(m) \/ MigrationFails(m)
    PROVE  DeploymentIInv'
<1>1. /\ MigratorStep(m) \/ MigratorFails(m) \/ Refuse(m) \/ SessionEnds(m)
      /\ UNCHANGED <<dbVars, runVars, composeVars>>
  BY DEF Migrate, MigrationRefused, MigrationFails
<1>2. IInv'
  BY <1>1, WritersRest DEF DeploymentIInv, dbVars, runVars
<1>3. MigrationIInv'
  BY <1>1, MigratorStepIInv DEF DeploymentIInv
<1>4. schema' = schema \/ schema' = "up"
  BY <1>1, TablesStay
<1> QED
  BY <1>1, <1>2, <1>3, <1>4 DEF DeploymentIInv, ContainersInv, dbVars, runVars, composeVars

LEMMA ImportKeeps ==
    ASSUME DeploymentIInv, NEW r \in Runs, Import(r) \/ ImportFails(r)
    PROVE  DeploymentIInv'
<1>1. RunStep(r) /\ UNCHANGED <<migrationVars, composeVars>>
  BY DEF Import, ImportFails, RunStep
<1>2. IInv'
  BY <1>1, RunStepIInv DEF DeploymentIInv
<1>3. MigrationIInv'
  BY <1>1, StutterIInv DEF DeploymentIInv
<1>4. (run[r] = "new" /\ run'[r] # "new") => schema = "up"
  BY DEF Import, ImportFails, MayStart, Die, Abort
<1>5. \A q \in Runs : run'[q] # "new" => schema' = "up"
  BY <1>1, <1>4, OthersStay DEF DeploymentIInv, IInv, ContainersInv, migrationVars
<1>6. \A id \in Ids : ToSet(log[id]) # {} => ToSet(log'[id]) # {}
  BY <1>1, LogGrows DEF DeploymentIInv, IInv
<1> QED
  BY <1>1, <1>2, <1>3, <1>5, <1>6 DEF DeploymentIInv, ContainersInv, migrationVars, composeVars

LEMMA ServerKeeps ==
    ASSUME DeploymentIInv, Server
    PROVE  DeploymentIInv'
<1>1. UNCHANGED <<jobVars, migration, import>>
  BY DEF Server, StartServer, ServerConnects, ServerGivesUp, ServerRestarts, ServerCrashes
<1>2. IInv' /\ MigrationIInv'
  BY <1>1, WritersRest, StutterIInv DEF DeploymentIInv, jobVars, dbVars, runVars
<1>3. CASE StartServer
  <2>1. import \in Runs /\ run[import] = "completed"
    BY <1>3 DEF StartServer, Imported, Migrated, DeploymentIInv, ContainersInv
  <2>2. schema = "up"
    BY <2>1 DEF DeploymentIInv, ContainersInv
  <2>3. \A id \in Ids : ToSet(log[id]) # {}
    BY <2>1, CompletedFillsLogs DEF DeploymentIInv
  <2>4. server' = "starting"
    BY <1>3 DEF StartServer
  <2> QED
    BY <1>1, <1>2, <2>2, <2>3, <2>4
       DEF DeploymentIInv, ContainersInv, jobVars, migrationVars, dbVars, runVars
<1>4. CASE server # "off" /\ server' \in {"starting", "serving", "exited"}
  BY <1>1, <1>2, <1>4 DEF DeploymentIInv, ContainersInv, jobVars, migrationVars, dbVars, runVars
<1> QED
  BY <1>3, <1>4 DEF Server, ServerConnects, ServerGivesUp, ServerRestarts, ServerCrashes

LEMMA DatabaseKeeps ==
    ASSUME DeploymentIInv, DatabaseCrashes \/ DatabaseRestarts
    PROVE  DeploymentIInv'
<1>1. CASE DatabaseCrashes
  <2>1. IInv'
    BY <1>1, CrashIInv DEF DeploymentIInv
  <2>2. MigrationIInv'
    BY <1>1, SessionsBreakIInv DEF DeploymentIInv, DatabaseCrashes
  <2>3. UNCHANGED <<schema, log, run, migration, import, server>>
    BY <1>1 DEF DatabaseCrashes, SessionsBreak, dbVars
  <2> QED
    BY <2>1, <2>2, <2>3 DEF DeploymentIInv, ContainersInv
<1>2. CASE DatabaseRestarts
  <2>1. UNCHANGED <<migrationVars, tables, log, run, file, tx, migration, import, server>>
    BY <1>2 DEF DatabaseRestarts, jobVars, dbVars, runVars
  <2>2. IInv' /\ MigrationIInv'
    BY <2>1, WritersRest, StutterIInv DEF DeploymentIInv
  <2> QED
    BY <2>1, <2>2 DEF DeploymentIInv, ContainersInv, migrationVars
<1> QED
  BY <1>1, <1>2

LEMMA DeploymentStutters ==
    ASSUME DeploymentIInv, UNCHANGED deploymentVars
    PROVE  DeploymentIInv'
<1>1. UNCHANGED <<migrationVars, tables, log, run, file, tx, migration, import, server>>
  BY DEF deploymentVars, jobVars, dbVars, runVars, composeVars
<1>2. IInv' /\ MigrationIInv'
  BY <1>1, WritersRest, StutterIInv DEF DeploymentIInv
<1> QED
  BY <1>1, <1>2 DEF DeploymentIInv, ContainersInv, migrationVars

-----------------------------------------------------------------------------
(* The invariant of the whole system.                                      *)
THEOREM DeploymentInvariance == DeploymentSpec => []DeploymentIInv
<1>1. DeploymentIInv /\ [DeploymentNext]_deploymentVars => DeploymentIInv'
  BY UpKeeps, MigrationKeeps, ImportKeeps, ServerKeeps, DatabaseKeeps, DeploymentStutters
     DEF DeploymentNext
<1> QED
  BY InitDeployment, <1>1, PTL DEF DeploymentSpec

(* The server listens only when the tables exist and every file has been   *)
(* committed, for any number of commands, crashes and overlapping jobs.    *)
THEOREM ServersAreReady == DeploymentSpec => []ServingIsReady
<1>1. DeploymentIInv => ServingIsReady
  <2> SUFFICES ASSUME DeploymentIInv, server = "serving"
               PROVE  schema = "up" /\ \A id \in Ids : log[id] # <<>>
    BY DEF ServingIsReady
  <2>1. ToSet(<<>>) = {}
    BY DEF ToSet
  <2> QED
    BY <2>1 DEF DeploymentIInv, ContainersInv
<1> QED
  BY DeploymentInvariance, <1>1, PTL

(* What the parts promise on their own they promise together: crashes of   *)
(* the database, and whatever else goes on, take nothing from it.          *)
THEOREM DeploymentKeepsItsParts ==
    DeploymentSpec => [](TablesAgree /\ CompletionIsDurable /\ CleanVersionIsTrue)
<1>1. IInv => TablesAgree
  BY DEF IInv
<1>2. IInv => CompletionIsDurable
  <2> SUFFICES ASSUME IInv, NEW r \in Runs, run[r] = "completed", NEW i \in DOMAIN Files
               PROVE  <<r, i>> \in ToSet(log[Files[i]])
    BY DEF CompletionIsDurable
  <2>1. file[r] \in 1..Len(Files) + 1 /\ file[r] \notin DOMAIN Files
    BY DEF IInv, WriterTypes, FilesAreCommitted
  <2>2. i < file[r]
    BY <2>1, FilesFacts
  <2> QED
    BY <2>2 DEF IInv, FilesAreCommitted
<1>3. MigrationIInv => CleanVersionIsTrue
  BY DEF MigrationIInv
<1>4. DeploymentIInv => TablesAgree /\ CompletionIsDurable /\ CleanVersionIsTrue
  BY <1>1, <1>2, <1>3 DEF DeploymentIInv
<1> QED
  BY DeploymentInvariance, <1>4, PTL

-----------------------------------------------------------------------------
(* What is not a step of an import leaves documents and readers alone, and *)
(* commits nothing.                                                        *)
LEMMA StoreRests ==
    ASSUME DeploymentIInv, [DeploymentNext]_deploymentVars,
           ~\E r \in Runs : RunStep(r)
    PROVE  /\ UNCHANGED <<tables, log, run, file, readVars>>
           /\ \A r \in Runs : \/ tx'[r] = tx[r]
                              \/ tx[r].state = "open" /\ tx'[r].state = "aborted"
<1>1. CASE DatabaseCrashes
  <2>1. \A r \in Runs : tx[r].state = "open" => tx'[r].state = "aborted"
    <3> SUFFICES ASSUME NEW r \in Runs, tx[r].state = "open" PROVE tx'[r].state = "aborted"
      OBVIOUS
    <3>1. tx[r] \in [at : 0..Len(Batch) + 1,
                     state : {"none", "open", "committed", "aborted"},
                     gone : [Tables -> SUBSET Docs]]
      BY DEF DeploymentIInv, IInv, WriterTypes
    <3>2. tx'[r] = [tx[r] EXCEPT !.state = "aborted"]
      BY <1>1 DEF DatabaseCrashes
    <3> QED
      BY <3>1, <3>2
  <2>2. \A r \in Runs : tx[r].state # "open" => tx'[r] = tx[r]
    BY <1>1 DEF DatabaseCrashes
  <2> QED
    BY <1>1, <2>1, <2>2 DEF DatabaseCrashes, dbVars
<1>2. CASE UNCHANGED <<dbVars, runVars, readVars>>
  BY <1>2 DEF dbVars, runVars
<1>3. DatabaseCrashes \/ UNCHANGED <<dbVars, runVars, readVars>>
  BY DEF DeploymentNext, deploymentVars, jobVars, Up, Migrate, MigrationRefused, MigrationFails,
         Import, ImportFails, RunStep, Server, StartServer, ServerConnects, ServerGivesUp,
         ServerRestarts, ServerCrashes, DatabaseRestarts
<1> QED
  BY <1>1, <1>2, <1>3

(* Imports put each file once in the deployment, too: the crash of the     *)
(* database only aborts what has not been put.                             *)
LEMMA DeploymentPutsOnce == DeploymentSpec => []PutOnce
<1>1. DeploymentInit => PutOnce
  BY NothingPut DEF DeploymentInit
<1>2. DeploymentIInv /\ PutOnce /\ [DeploymentNext]_deploymentVars => PutOnce'
  <2> SUFFICES ASSUME DeploymentIInv, PutOnce, [DeploymentNext]_deploymentVars PROVE PutOnce'
    OBVIOUS
  <2>1. CASE \E r \in Runs : RunStep(r)
    BY <2>1, PutOnceStep DEF DeploymentIInv, IInv
  <2>2. CASE ~\E r \in Runs : RunStep(r)
    <3>1. UNCHANGED <<log, run, file>>
      BY <2>2, StoreRests
    <3>2. \A r \in Runs : \/ tx'[r] = tx[r]
                          \/ tx[r].state = "open" /\ tx'[r].state = "aborted"
      BY <2>2, StoreRests
    <3> QED
      BY <3>1, <3>2 DEF PutOnce
  <2> QED
    BY <2>1, <2>2
<1> QED
  BY <1>1, <1>2, DeploymentInvariance, PTL DEF DeploymentSpec

(* The deployment implements AtomicStore: repeated, dying and overlapping  *)
(* jobs and crashes of the database in between, each route is still one    *)
(* register that every file of an import is put into at most once.         *)
THEOREM DeploymentImplementsRegister == DeploymentSpec => StoreIsARegister
<1>1. DeploymentInit => Atomic!Init
  BY InitIsAtomic DEF DeploymentInit
<1>2. DeploymentIInv /\ PutOnce /\ [DeploymentNext]_deploymentVars => [Atomic!Next]_(Atomic!vars)
  <2> SUFFICES ASSUME DeploymentIInv, PutOnce, [DeploymentNext]_deploymentVars
               PROVE  [Atomic!Next]_(Atomic!vars)
    OBVIOUS
  <2>1. CASE \E r \in Runs : RunStep(r)
    BY <2>1, RunStepIsAtomic DEF DeploymentIInv
  <2>2. CASE ~\E r \in Runs : RunStep(r)
    <3>1. UNCHANGED <<tables, log, run, reader, part, route, seen, cut>>
      BY <2>2, StoreRests DEF readVars
    <3> QED
      BY <3>1 DEF Atomic!vars
  <2> QED
    BY <2>1, <2>2
<1> QED
  BY <1>1, <1>2, DeploymentInvariance, DeploymentPutsOnce, PTL
     DEF DeploymentSpec, StoreIsARegister, Atomic!Spec

=============================================================================
