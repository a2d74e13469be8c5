--------------------------- MODULE SchemaMigration --------------------------
(***************************************************************************)
(* The command "migration" (src/cmds/run_migrations.go): golang-migrate    *)
(* brings the schema of the database up or down, one process for each time *)
(* the command is given.  There is one migration,                          *)
(* src/db/migrations/00001_routes; 00002_sqlite_schema.sql has no          *)
(* direction in its name and golang-migrate does not see it.               *)
(*                                                                         *)
(* golang-migrate is a library.  Its postgres driver keeps a version and a *)
(* dirty flag in a table, and an advisory lock that belongs to the session *)
(* of the process: a process that dies leaves a session behind that may    *)
(* still carry out the statement it was sent, and only then gives up the   *)
(* lock.  XFault is X with a plausible mistake in it.                      *)
(***************************************************************************)
EXTENDS Integers

CONSTANTS
    Migrators,   \* processes that run the command
    Down,        \* those that were given "down", the others "up"
    NoMigrator   \* "the lock is free"

ASSUME DownAssumption == Down \subseteq Migrators
ASSUME NoMigratorAssumption == NoMigrator \notin Migrators

VARIABLES
    schema,   \* "none", or "up": the tables exist
    row,      \* schema_migrations: the version and whether it is dirty
    lock,     \* whose session has the advisory lock
    stage,    \* [migrator -> where it is]
    dead      \* migrators whose process has died, but not yet their session

migrationVars == <<schema, row, lock, stage, dead>>

-----------------------------------------------------------------------------
(* No version is -1 in golang-migrate, as is the target of going down.     *)
NoVersion == -1
Target(m) == IF m \in Down THEN NoVersion ELSE 1

Locked == {"mark", "run", "clean"}
Working == {"lock"} \cup Locked
Succeeded == {"applied", "unchanged"}
Stages == {"new", "failed"} \cup Working \cup Succeeded

MigrationInit ==
    /\ schema = "none"
    /\ row = [version |-> NoVersion, dirty |-> FALSE]
    /\ lock = NoMigrator
    /\ stage = [m \in Migrators |-> "new"]
    /\ dead = {}

(* m is at stage s and alive, and goes on to stage t.                      *)
Goes(m, s, t) ==
    /\ stage[m] = s
    /\ m \notin dead
    /\ stage' = [stage EXCEPT ![m] = t]
    /\ UNCHANGED dead

(* The process of m ends, and its session with it.                         *)
Released(m) == IF lock = m THEN NoMigrator ELSE lock

-----------------------------------------------------------------------------
(* NewDBPool, and postgres.WithInstance, which creates the version table   *)
(* under the lock, waits for it without a limit, and gives it back.  What  *)
(* cannot connect exits with log.Fatalf.                                   *)
Connect(m) ==
    /\ lock = NoMigrator
    /\ Goes(m, "new", "lock")
    /\ UNCHANGED <<schema, row, lock>>

ConnectFails(m) ==
    /\ Goes(m, "new", "failed")
    /\ UNCHANGED <<schema, row, lock>>

(* Up and Down take the lock, or give up after LockTimeout.                *)
LockTimesOut(m) ==
    /\ lock # NoMigrator
    /\ Goes(m, "lock", "failed")
    /\ UNCHANGED <<schema, row, lock>>

(* They read the version under the lock.  A dirty one is refused;          *)
(* ErrNoChange is no error for RunMigration.                               *)
Refuse(m) ==
    /\ lock = NoMigrator
    /\ row.dirty
    /\ Goes(m, "lock", "failed")
    /\ UNCHANGED <<schema, row, lock>>

NoChangeFault(m) ==
    /\ lock = NoMigrator
    /\ ~row.dirty /\ row.version = Target(m)
    /\ Goes(m, "lock", "failed")
    /\ UNCHANGED <<schema, row, lock>>
NoChange(m) ==
    /\ lock = NoMigrator
    /\ ~row.dirty /\ row.version = Target(m)
    /\ Goes(m, "lock", "unchanged")
    /\ UNCHANGED <<schema, row, lock>>

Change(m) ==
    /\ lock = NoMigrator
    /\ ~row.dirty /\ row.version # Target(m)
    /\ Goes(m, "lock", "mark")
    /\ lock' = m
    /\ UNCHANGED <<schema, row>>

(* What each of the three statements of a migration does, if it is carried *)
(* out: SetVersion(target, dirty), the script as one transaction, and      *)
(* SetVersion(target, clean).                                              *)
MarksDirty(m) ==
    /\ stage[m] = "mark"
    /\ row' = [version |-> Target(m), dirty |-> TRUE]
    /\ UNCHANGED schema

CreatesTables(m) ==
    /\ stage[m] = "run"
    /\ m \notin Down
    /\ schema = "none"
    /\ schema' = "up"
    /\ UNCHANGED row

MarksClean(m) ==
    /\ stage[m] = "clean"
    /\ row' = [version |-> Target(m), dirty |-> FALSE]
    /\ UNCHANGED schema

MarkDirty(m) ==
    /\ MarksDirty(m)
    /\ Goes(m, "mark", "run")
    /\ UNCHANGED lock

RunScript(m) ==
    /\ CreatesTables(m)
    /\ Goes(m, "run", "clean")
    /\ UNCHANGED lock

(* A script fails for a reason of the database; 00001_routes.down.sql      *)
(* always does: DROP TABLE ... CASCADE ALL is not SQL, and the server      *)
(* rejects the script before it drops anything.                            *)
ScriptFailsFault(m) ==
    /\ Goes(m, "run", "clean")
    /\ UNCHANGED <<schema, row, lock>>
ScriptFails(m) ==
    /\ Goes(m, "run", "failed")
    /\ lock' = Released(m)
    /\ UNCHANGED <<schema, row>>

MarkClean(m) ==
    /\ MarksClean(m)
    /\ Goes(m, "clean", "applied")
    /\ lock' = Released(m)

-----------------------------------------------------------------------------
(* The process dies.  Its session ends when it is done with what it was    *)
(* sent, if it was sent at all.                                            *)
MigratorDies(m) ==
    /\ stage[m] \in Working
    /\ dead' = dead \cup {m}
    /\ UNCHANGED <<schema, row, lock, stage>>

SessionEnds(m) ==
    /\ m \in dead
    /\ \/ MarksDirty(m) \/ CreatesTables(m) \/ MarksClean(m)
       \/ UNCHANGED <<schema, row>>
    /\ stage' = [stage EXCEPT ![m] = "failed"]
    /\ dead' = dead \ {m}
    /\ lock' = Released(m)

(* The database stops: no session survives, nothing unfinished is kept.    *)
SessionsBreak ==
    /\ stage' = [m \in Migrators |-> IF stage[m] \in Working THEN "failed" ELSE stage[m]]
    /\ dead' = {}
    /\ lock' = NoMigrator
    /\ UNCHANGED <<schema, row>>

(* What goes on by itself, and what is a failure.                          *)
MigratorStep(m) ==
    \/ Connect(m) \/ NoChange(m) \/ Change(m)
    \/ MarkDirty(m) \/ RunScript(m) \/ MarkClean(m)
MigratorFails(m) ==
    \/ ConnectFails(m) \/ LockTimesOut(m) \/ ScriptFails(m) \/ MigratorDies(m)

MigrationNext ==
    \/ \E m \in Migrators : MigratorStep(m) \/ MigratorFails(m) \/ Refuse(m) \/ SessionEnds(m)
    \/ SessionsBreak

MigrationSpec == MigrationInit /\ [][MigrationNext]_migrationVars

-----------------------------------------------------------------------------
MigrationTypeOK ==
    /\ schema \in {"none", "up"}
    /\ row \in [version : {NoVersion, 1}, dirty : BOOLEAN]
    /\ lock \in Migrators \cup {NoMigrator}
    /\ stage \in [Migrators -> Stages]
    /\ dead \subseteq {m \in Migrators : stage[m] \in Working}

(* A version that is not dirty tells the truth about the tables, however   *)
(* many migrations of either direction overlap, fail in the middle, or die *)
(* and leave a statement behind: what the next run reads, it can build on. *)
CleanVersionIsTrue == ~row.dirty => (row.version = 1 <=> schema = "up")

=============================================================================
