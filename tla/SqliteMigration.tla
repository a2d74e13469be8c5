--------------------------- MODULE SqliteMigration --------------------------
(***************************************************************************)
(* The tool of src/cmds/migrate_postgres_to_sqlite.go.  A run counts the   *)
(* routes in PostgreSQL, creates the tables of an SQLite file, copies      *)
(* routes, nearby, images and details one after the other, row by row, and *)
(* compares the number of routes in the file with the number it copied.    *)
(* An error with routes ends the run; one with another table is called     *)
(* non-critical, and the next table follows.                               *)
(*                                                                         *)
(* The statements that insert are prepared on the sql.DB, not on the       *)
(* transaction of migrateRoutes: they run on another connection, and each  *)
(* row is committed at once.  That connection was opened without the       *)
(* foreign_keys pragma, so SQLite checks no references.                    *)
(*                                                                         *)
(* PostgreSQL does not change meanwhile (the runbook stops the API first). *)
(* Runs may be repeated on one file, or overlap; between runs the operator *)
(* may move the file away.  XFault is X with a plausible mistake in it.    *)
(***************************************************************************)
EXTENDS Integers, Sequences, FiniteSets, SequencesExt

CONSTANTS
    Runs,        \* runs of the tool
    Sources,     \* contents PostgreSQL may have: [table -> set of rows]
    MaxRecords   \* -max-records; 0 for no limit

ASSUME MaxRecordsAssumption == MaxRecords \in Nat

VARIABLES
    source,   \* [table -> rows in PostgreSQL]
    schema,   \* tables of the file: "none", "partial" or "full"
    file,     \* [table -> rows in the file, each with the run that wrote it]
    at,       \* [run -> the stage it is at]
    todo,     \* [run -> rows its current query has still to return]
    taken,    \* [run -> routes its query for routes returns]
    count     \* [run -> routes it has copied]

vars == <<source, schema, file, at, todo, taken, count>>

-----------------------------------------------------------------------------
(* The tables in the order they are copied.  A row says which route it is  *)
(* of, and whether a column that Go scans into a string is NULL            *)
(* (difficulty of a route, description of a nearby, title of an image).    *)
Tables == <<"routes", "nearby", "images", "details">>
Children == {"nearby", "images", "details"}
AfterFault == [routes |-> "nearby", nearby |-> "images", images |-> "details",
               details |-> "done"]
After == [routes |-> "nearby", nearby |-> "images", images |-> "details",
          details |-> "validate"]

Ended == {"passed", "failed", "past"}
Stages == {"new", "setup", "creating", "validate"} \cup ToSet(Tables) \cup Ended

EmptyFile == [t \in ToSet(Tables) |-> {}]

(* Go to a stage; the query of a table returns all its rows.               *)
GoTo(r, stage) ==
    /\ at' = [at EXCEPT ![r] = stage]
    /\ todo' = [todo EXCEPT ![r] = IF stage \in Children THEN source[stage] ELSE {}]

Init ==
    /\ source \in Sources
    /\ schema = "none"
    /\ file = EmptyFile
    /\ at = [r \in Runs |-> "new"]
    /\ todo = [r \in Runs |-> {}]
    /\ taken = [r \in Runs |-> {}]
    /\ count = [r \in Runs |-> 0]

(* PostgreSQL must have routes.                                            *)
CheckSource(r) ==
    /\ at[r] = "new"
    /\ GoTo(r, IF source["routes"] = {} THEN "failed" ELSE "setup")
    /\ UNCHANGED <<source, schema, file, taken, count>>

(* The first statement of the schema, CREATE TABLE routes, fails when the  *)
(* file has one.                                                           *)
CreateRoutesFault(r) ==
    /\ at[r] = "setup"
    /\ GoTo(r, "creating")
    /\ schema' = IF schema = "none" THEN "partial" ELSE schema
    /\ UNCHANGED <<source, file, taken, count>>
CreateRoutes(r) ==
    /\ at[r] = "setup"
    /\ IF schema = "none"
       THEN schema' = "partial" /\ GoTo(r, "creating")
       ELSE UNCHANGED schema /\ GoTo(r, "failed")
    /\ UNCHANGED <<source, file, taken, count>>

(* The query for routes returns all of them, or any MaxRecords of them.    *)
QueryRoutes(r) ==
    LET all == source["routes"]
        size == IF MaxRecords = 0 THEN Cardinality(all)
                ELSE Min({MaxRecords, Cardinality(all)})
    IN  \E rows \in kSubset(size, all) :
            /\ taken' = [taken EXCEPT ![r] = rows]
            /\ todo' = [todo EXCEPT ![r] = rows]

(* The rest of the schema; then the routes are queried.                    *)
CreateRest(r) ==
    /\ at[r] = "creating"
    /\ schema' = "full"
    /\ at' = [at EXCEPT ![r] = "routes"]
    /\ QueryRoutes(r)
    /\ UNCHANGED <<source, file, count>>

(* A row is scanned and inserted, and committed at once.  routes has a     *)
(* primary key.                                                            *)
CopyRow(r, row) ==
    LET t == at[r]
    IN  /\ t \in ToSet(Tables)
        /\ row \in todo[r]
        /\ ~row.null
        /\ t = "routes" => \A w \in file["routes"] : w.row.of # row.of
        /\ file' = [file EXCEPT ![t] = @ \cup {[by |-> r, row |-> row]}]
        /\ todo' = [todo EXCEPT ![r] = @ \ {row}]
        /\ count' = [count EXCEPT ![r] = @ + IF t = "routes" THEN 1 ELSE 0]
        /\ UNCHANGED <<source, schema, at, taken>>

TableEnds(r) ==
    /\ at[r] \in ToSet(Tables)
    /\ todo[r] = {}
    /\ GoTo(r, After[at[r]])
    /\ UNCHANGED <<source, schema, file, taken, count>>

(* A query, a scan or an insert fails.  For routes the run calls Rollback, *)
(* which undoes nothing, and ends; for another table it only says so.      *)
TableFailsFault(r) ==
    /\ at[r] \in ToSet(Tables)
    /\ GoTo(r, After[at[r]])
    /\ UNCHANGED <<source, schema, file, taken, count>>
TableFails(r) ==
    /\ at[r] \in ToSet(Tables)
    /\ GoTo(r, IF at[r] = "routes" THEN "failed" ELSE After[at[r]])
    /\ UNCHANGED <<source, schema, file, taken, count>>

(* validateMigration counts the routes in the file, and nothing else.      *)
Validate(r) ==
    /\ at[r] = "validate"
    /\ GoTo(r, IF count[r] = Cardinality(file["routes"]) THEN "passed" ELSE "failed")
    /\ UNCHANGED <<source, schema, file, taken, count>>

(* Any other failure, or a kill.                                           *)
Die(r) ==
    /\ at[r] \notin Ended \cup {"new"}
    /\ GoTo(r, "failed")
    /\ UNCHANGED <<source, schema, file, taken, count>>

(* The operator moves the file away; it is past for the runs that made it. *)
MoveAway ==
    /\ schema # "none"
    /\ \A r \in Runs : at[r] \in Ended \cup {"new"}
    /\ schema' = "none"
    /\ file' = EmptyFile
    /\ at' = [r \in Runs |-> IF at[r] = "new" THEN "new" ELSE "past"]
    /\ UNCHANGED <<source, todo, taken, count>>

Next ==
    \/ \E r \in Runs :
          \/ CheckSource(r) \/ CreateRoutes(r) \/ CreateRest(r)
          \/ \E row \in todo[r] : CopyRow(r, row)
          \/ TableEnds(r) \/ TableFails(r) \/ Validate(r) \/ Die(r)
    \/ MoveAway

Spec == Init /\ [][Next]_vars

-----------------------------------------------------------------------------
Rows == UNION {UNION {s[t] : t \in ToSet(Tables)} : s \in Sources}
RowsAt(stage) == IF stage \in ToSet(Tables) THEN source[stage] ELSE {}

(* The types.  A run has rows to copy only while it is at a table, of that *)
(* table; and a table of the file holds rows of that table only.           *)
TypeOK ==
    /\ source \in Sources
    /\ schema \in {"none", "partial", "full"}
    /\ file \in [ToSet(Tables) -> SUBSET [by : Runs, row : Rows]]
    /\ \A t \in ToSet(Tables) : \A w \in file[t] : w.row \in source[t]
    /\ at \in [Runs -> Stages]
    /\ todo \in [Runs -> SUBSET Rows]
    /\ \A r \in Runs : todo[r] \subseteq RowsAt(at[r])
    /\ taken \in [Runs -> SUBSET source["routes"]]
    /\ count \in [Runs -> Nat]

RoutesIn == {w.row : w \in file["routes"]}
RouteIdsIn == {row.of : row \in RoutesIn}

(* The rows of a file come from one run: a repeated or a second run never  *)
(* adds to what another has left, which would store the rows of nearby,    *)
(* images and details, that have no key of their own, twice.               *)
OneWriter ==
    \A t, u \in ToSet(Tables) : \A w \in file[t], v \in file[u] : w.by = v.by

(* A run that passes has copied every route that its query returned,       *)
(* although validation compares two counts of its own making.              *)
PassedHasItsRoutes ==
    \A r \in Runs : at[r] = "passed" => RoutesIn = taken[r]

(* Rows of the other tables appear only beside all routes of their run.    *)
RoutesComeFirst ==
    \A t \in Children : \A w \in file[t] : RoutesIn = taken[w.by]

(* What the plan says of validation, "Validate record counts match" for    *)
(* routes and the related tables: a run that passes has copied the rows of *)
(* its routes.  A failed table is only logged, and nothing counts it.      *)
PassedIsComplete ==
    \A r \in Runs : at[r] = "passed" =>
        \A t \in Children : \A row \in source[t] :
            row.of \in RouteIdsIn => row \in {w.row : w \in file[t]}

(* What "Begin transaction" and Rollback say: a run that fails leaves no   *)
(* routes in the file.                                                     *)
FailureLeavesNoRoutes ==
    \A r \in Runs : at[r] = "failed" => \A w \in file["routes"] : w.by # r

=============================================================================
