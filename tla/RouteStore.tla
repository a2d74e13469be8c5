----------------------------- MODULE RouteStore -----------------------------
(***************************************************************************)
(* A route lives in four tables of the database.  Store of                 *)
(* src/repositories/postgres.go replaces all its rows in one batch, which  *)
(* PostgreSQL runs as one transaction; FindByObjectID of the same file     *)
(* reads them back with four separate queries on a pool of connections.    *)
(* Store's caller is import-data (src/cmds/import_data.go): a run stores   *)
(* one file after the other and gives up at the first error.  A failed run *)
(* is started again from its first file, which here is another run; runs   *)
(* may overlap, and reads go on all the time.                              *)
(*                                                                         *)
(* A stored document is named by the run and the file it comes from.  A    *)
(* statement sees the rows committed before it began (READ COMMITTED), and *)
(* the upsert of a route waits for transactions that have upserted it.     *)
(* The join of nearby with routes is left out: a row of nearby stands for  *)
(* what it shows.  XFault is X with a plausible mistake of the code in it. *)
(***************************************************************************)
EXTENDS Integers, Sequences, FiniteSets, SequencesExt

CONSTANTS
    Runs,      \* runs of import-data
    Readers,   \* requests for a route
    Files,     \* the route each file of the import folder holds, in order
    MaxConns   \* connections in the pool of the readers' process

ASSUME FilesAssumption == Files \in Seq(ToSet(Files))
ASSUME ConnsAssumption == MaxConns \in Nat \ {0}

VARIABLES
    tables,   \* [table -> [route -> documents whose rows it has]]
    log,      \* [route -> documents committed, in order]: history
    run,      \* [run -> "new", "next", "storing", "completed" or "failed"]
    file,     \* [run -> index of the file it is at]
    tx,       \* [run -> its transaction in the database]
    reader,   \* [reader -> "idle", "ask", "rows", "found", "notFound", "failed"]
    part,     \* [reader -> index of the query it is at]
    route,    \* [reader -> the route it asked for]
    seen,     \* [reader -> [table -> documents of the rows it got]]
    cut,      \* [reader -> tables whose rows it may not have got all of]
    since     \* [reader -> length of the route's log when the read began]

dbVars == <<tables, log>>
runVars == <<run, file, tx>>
readVars == <<reader, part, route, seen, cut, since>>
vars == <<tables, log, run, file, tx, reader, part, route, seen, cut, since>>

-----------------------------------------------------------------------------
Tables == {"routes", "nearby", "images", "details"}
Ids == ToSet(Files)
Docs == Runs \X DOMAIN Files

(* The order in which the statements of Store and the queries of           *)
(* FindByObjectID go through the tables.                                   *)
BatchFault == <<"nearby", "images", "details", "routes">>
Batch == <<"routes", "nearby", "images", "details">>
Queries == <<"routes", "images", "nearby", "details">>

NoTx == [at |-> 0, state |-> "none", gone |-> [t \in Tables |-> {}]]

Doc(r) == <<r, file[r]>>
IdOf(r) == Files[file[r]]

(* r has upserted its route and not ended its transaction.                 *)
Locks(r) == tx[r].state = "open" /\ \E k \in 1..tx[r].at - 1 : Batch[k] = "routes"

(* Connections of the readers' pool in use.                                *)
InUse == {d \in Readers : reader[d] = "rows"}

Init ==
    /\ tables = [t \in Tables |-> [id \in Ids |-> {}]]
    /\ log = [id \in Ids |-> <<>>]
    /\ run = [r \in Runs |-> "new"]
    /\ file = [r \in Runs |-> 1]
    /\ tx = [r \in Runs |-> NoTx]
    /\ reader = [d \in Readers |-> "idle"]
    /\ part = [d \in Readers |-> 1]
    /\ route \in [Readers -> Ids]
    /\ seen = [d \in Readers |-> [t \in Tables |-> {}]]
    /\ cut = [d \in Readers |-> {}]
    /\ since = [d \in Readers |-> 0]

-----------------------------------------------------------------------------
(* import-data starts.                                                     *)
Start(r) ==
    /\ run[r] = "new"
    /\ run' = [run EXCEPT ![r] = "next"]
    /\ UNCHANGED <<file, tx, dbVars, readVars>>

(* The next file is loaded and Store sends its batch.                      *)
SendBatch(r) ==
    /\ run[r] = "next"
    /\ file[r] \in DOMAIN Files
    /\ run' = [run EXCEPT ![r] = "storing"]
    /\ tx' = [tx EXCEPT ![r] = [NoTx EXCEPT !.at = 1, !.state = "open"]]
    /\ UNCHANGED <<file, dbVars, readVars>>

(* The database runs the statements for one table: the upsert of the       *)
(* route, or DELETE and the INSERTs after it.                              *)
StatementFault(r) ==
    /\ tx[r].state = "open"
    /\ tx[r].at \in DOMAIN Batch
    /\ Batch[tx[r].at] = "routes" =>
           \A s \in Runs \ {r} : Locks(s) => IdOf(s) # IdOf(r)
    /\ tx' = [tx EXCEPT ![r].at = @ + 1]
    /\ UNCHANGED <<run, file, dbVars, readVars>>
Statement(r) ==
    LET t == Batch[tx[r].at]
    IN  /\ tx[r].state = "open"
        /\ tx[r].at \in DOMAIN Batch
        /\ t = "routes" => \A s \in Runs \ {r} : Locks(s) => IdOf(s) # IdOf(r)
        /\ tx' = [tx EXCEPT ![r].at = @ + 1, ![r].gone[t] = tables[t][IdOf(r)]]
        /\ UNCHANGED <<run, file, dbVars, readVars>>

(* The transaction commits: the rows it deleted go, its own appear.  Only  *)
(* one row of routes can have the route's key.                             *)
Commit(r) ==
    LET id == IdOf(r)
    IN  /\ tx[r].state = "open"
        /\ tx[r].at = Len(Batch) + 1
        /\ tables' = [t \in Tables |-> [tables[t] EXCEPT ![id] =
               IF t = "routes" THEN {Doc(r)} ELSE (@ \ tx[r].gone[t]) \cup {Doc(r)}]]
        /\ log' = [log EXCEPT ![id] = Append(@, Doc(r))]
        /\ tx' = [tx EXCEPT ![r].state = "committed"]
        /\ UNCHANGED <<run, file, readVars>>

(* A statement fails, or the connection is lost: nothing is kept.          *)
Abort(r) ==
    /\ tx[r].state = "open"
    /\ tx' = [tx EXCEPT ![r].state = "aborted"]
    /\ UNCHANGED <<run, file, dbVars, readVars>>

(* Store has the results of its statements; ImportData goes on only if     *)
(* none is an error.                                                       *)
StoreReturnsFault(r) ==
    /\ run[r] = "storing"
    /\ tx[r].state \in {"committed", "aborted"}
    /\ run' = [run EXCEPT ![r] = "next"]
    /\ file' = [file EXCEPT ![r] = @ + 1]
    /\ UNCHANGED <<tx, dbVars, readVars>>
StoreRetriesFault(r) ==
    /\ run[r] = "storing"
    /\ tx[r].state = "committed"
    /\ run' = [run EXCEPT ![r] = "next"]
    /\ file' = [file EXCEPT ![r] = @ + 1]
    /\ UNCHANGED <<tx, dbVars, readVars>>
StoreReturns(r) ==
    /\ run[r] = "storing"
    /\ \/ /\ tx[r].state = "committed"
          /\ run' = [run EXCEPT ![r] = "next"]
          /\ file' = [file EXCEPT ![r] = @ + 1]
       \/ /\ tx[r].state = "aborted"
          /\ run' = [run EXCEPT ![r] = "failed"]
          /\ UNCHANGED file
    /\ UNCHANGED <<tx, dbVars, readVars>>

Complete(r) ==
    /\ run[r] = "next"
    /\ file[r] \notin DOMAIN Files
    /\ run' = [run EXCEPT ![r] = "completed"]
    /\ UNCHANGED <<file, tx, dbVars, readVars>>

(* The run dies: a file that does not load, its deadline, a crash.  What   *)
(* it has sent stays with the database, and may still be committed.        *)
DieFault(r) ==
    /\ run[r] \in {"next", "storing"}
    /\ run' = [run EXCEPT ![r] = "next"]
    /\ file' = [file EXCEPT ![r] = 0]
    /\ UNCHANGED <<tx, dbVars, readVars>>
Die(r) ==
    /\ run[r] \in {"next", "storing"}
    /\ run' = [run EXCEPT ![r] = "failed"]
    /\ UNCHANGED <<file, tx, dbVars, readVars>>

-----------------------------------------------------------------------------
(* FindByObjectID is called.                                               *)
Find(d) ==
    /\ reader[d] = "idle"
    /\ reader' = [reader EXCEPT ![d] = "ask"]
    /\ since' = [since EXCEPT ![d] = Len(log[route[d]])]
    /\ UNCHANGED <<part, route, seen, cut, dbVars, runVars>>

(* The next query gets a connection when one is free.                      *)
AcquireFault(d) ==
    /\ reader[d] = "ask"
    /\ Cardinality(InUse \cup {e \in Readers : reader[e] = "ask" /\ part[e] > 1}) < MaxConns
    /\ reader' = [reader EXCEPT ![d] = "rows"]
    /\ UNCHANGED <<part, route, seen, cut, since, dbVars, runVars>>
Acquire(d) ==
    /\ reader[d] = "ask"
    /\ Cardinality(InUse) < MaxConns
    /\ reader' = [reader EXCEPT ![d] = "rows"]
    /\ UNCHANGED <<part, route, seen, cut, since, dbVars, runVars>>

(* The rows of a query are read; the last one frees the connection.  No    *)
(* row of routes ends the call.                                            *)
Rows(d) ==
    LET t == Queries[part[d]]
        rows == tables[t][route[d]]
    IN  /\ reader[d] = "rows"
        /\ seen' = [seen EXCEPT ![d][t] = rows]
        /\ part' = [part EXCEPT ![d] = @ + 1]
        /\ reader' = [reader EXCEPT ![d] =
               CASE t = "routes" /\ rows = {} -> "notFound"
                 [] part[d] = Len(Queries) -> "found"
                 [] OTHER -> "ask"]
        /\ UNCHANGED <<route, cut, since, dbVars, runVars>>

(* The connection breaks, or the context ends, after some of the rows: the *)
(* loop ends as if they were all, rows.Err is not asked.  The row of       *)
(* routes is read by QueryRow, which does report it.                       *)
CutRows(d) ==
    LET t == Queries[part[d]]
    IN  /\ reader[d] = "rows"
        /\ t # "routes"
        /\ \E rows \in SUBSET tables[t][route[d]] : seen' = [seen EXCEPT ![d][t] = rows]
        /\ cut' = [cut EXCEPT ![d] = @ \cup {t}]
        /\ part' = [part EXCEPT ![d] = @ + 1]
        /\ reader' = [reader EXCEPT ![d] = IF part[d] = Len(Queries) THEN "found" ELSE "ask"]
        /\ UNCHANGED <<route, since, dbVars, runVars>>

(* A query is refused, or no connection comes before the deadline.         *)
FindFails(d) ==
    /\ reader[d] \in {"ask", "rows"}
    /\ reader' = [reader EXCEPT ![d] = "failed"]
    /\ UNCHANGED <<part, route, seen, cut, since, dbVars, runVars>>

RunStep(r) ==
    \/ Start(r) \/ SendBatch(r) \/ StoreReturns(r) \/ Complete(r) \/ Die(r)
    \/ Statement(r) \/ Commit(r) \/ Abort(r)
ReadStep(d) == Find(d) \/ Acquire(d) \/ Rows(d) \/ CutRows(d) \/ FindFails(d)

Next == (\E r \in Runs : RunStep(r)) \/ (\E d \in Readers : ReadStep(d))

Spec == Init /\ [][Next]_vars

(* The database runs what it is sent, a free connection is given to a      *)
(* waiting query, and a started run or read goes on.                       *)
FairSpec ==
    /\ Spec
    /\ \A r \in Runs :
           /\ WF_vars(SendBatch(r) \/ StoreReturns(r) \/ Complete(r))
           /\ WF_vars(Statement(r) \/ Commit(r))
    /\ \A d \in Readers : SF_vars(Acquire(d)) /\ WF_vars(Rows(d))

-----------------------------------------------------------------------------
TypeOK ==
    /\ tables \in [Tables -> [Ids -> SUBSET Docs]]
    /\ log \in [Ids -> Seq(Docs)]
    /\ run \in [Runs -> {"new", "next", "storing", "completed", "failed"}]
    /\ file \in [Runs -> 1..Len(Files) + 1]
    /\ tx \in [Runs -> [at : 0..Len(Batch) + 1,
                        state : {"none", "open", "committed", "aborted"},
                        gone : [Tables -> SUBSET Docs]]]
    /\ reader \in [Readers -> {"idle", "ask", "rows", "found", "notFound", "failed"}]
    /\ part \in [Readers -> 1..Len(Queries) + 1]
    /\ route \in [Readers -> Ids]
    /\ seen \in [Readers -> [Tables -> SUBSET Docs]]
    /\ cut \in [Readers -> SUBSET Tables]
    /\ since \in [Readers -> Nat]

(* However many runs store a route at once, crash or are repeated, the     *)
(* four tables hold the rows of one document, the last one committed:      *)
(* nothing is left of an older one, nothing is stored twice.               *)
TablesAgree ==
    \A id \in Ids, t \in Tables :
        tables[t][id] = IF log[id] = <<>> THEN {} ELSE {Last(log[id])}

(* A run that reports completion has committed every one of its files.     *)
CompletionIsDurable ==
    \A r \in Runs : run[r] = "completed" =>
        \A i \in DOMAIN Files : <<r, i>> \in ToSet(log[Files[i]])

(* What FindByObjectID puts together may come from more than one document, *)
(* since a Store can be committed between two of its queries; but no part  *)
(* is older than a part read before it, or than the read itself, and no    *)
(* part mixes documents.                                                   *)
ReadsMoveForward ==
    \A d \in Readers : reader[d] = "found" =>
        \E at \in [Tables -> 1..Len(log[route[d]])] :
            /\ \A t \in Tables :
                  /\ at[t] >= since[d]
                  /\ \/ seen[d][t] = {log[route[d]][at[t]]}
                     \/ t \in cut[d] /\ seen[d][t] \subseteq {log[route[d]][at[t]]}
            /\ \A i, j \in DOMAIN Queries :
                  (i < j /\ {Queries[i], Queries[j]} \cap cut[d] = {}) =>
                      at[Queries[i]] <= at[Queries[j]]

(* The store is one register for each route (AtomicStore): a Store is one  *)
(* put, which is done once whatever else happens to its run, and each      *)
(* query of FindByObjectID samples the register, though what is put is in  *)
(* four tables and takes four statements.                                  *)
Atomic == INSTANCE AtomicStore WITH
              Parts <- Tables,
              Main <- "routes",
              document <- tables["routes"],
              stored <- UNION {ToSet(log[id]) : id \in Ids},
              completed <- {r \in Runs : run[r] = "completed"},
              phase <- [d \in Readers |-> IF reader[d] = "rows" THEN "ask" ELSE reader[d]],
              sampled <- [d \in Readers |-> {Queries[i] : i \in 1..part[d] - 1}],
              got <- seen

StoreIsARegister == Atomic!Spec

(* Every read is answered, however few connections there are: a reader     *)
(* never holds one while it waits for another.                             *)
EveryReadEnds ==
    \A d \in Readers :
        reader[d] = "ask" ~> reader[d] \in {"found", "notFound", "failed"}

(* Every Store is over in time: runs that store the same routes do not     *)
(* wait for each other in a circle.                                        *)
EveryStoreEnds == \A r \in Runs : run[r] = "storing" ~> run[r] # "storing"

=============================================================================
