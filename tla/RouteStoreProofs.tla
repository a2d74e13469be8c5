-------------------------- MODULE RouteStoreProofs --------------------------
(***************************************************************************)
(* Theorems about RouteStore, for any number of import runs, files, routes *)
(* and readers.                                                            *)
(***************************************************************************)
EXTENDS RouteStore, TLAPS

(* The variables the writers use keep their types.                         *)
WriterTypes ==
    /\ tables \in [Tables -> [Ids -> SUBSET Docs]]
    /\ log \in [Ids -> Seq(Docs)]
    /\ run \in [Runs -> {"new", "next", "storing", "completed", "failed"}]
    /\ file \in [Runs -> 1..Len(Files) + 1]
    /\ tx \in [Runs -> [at : 0..Len(Batch) + 1,
                        state : {"none", "open", "committed", "aborted"},
                        gone : [Tables -> SUBSET Docs]]]

(* A transaction that has not ended is for a file, and is somewhere in its *)
(* statements; a run that waits for Store has a transaction for its file.  *)
Storing ==
    \A r \in Runs :
        /\ tx[r].state = "open" => file[r] \in DOMAIN Files /\ tx[r].at >= 1
        /\ run[r] = "storing" => file[r] \in DOMAIN Files /\ tx[r].state # "none"

(* No two transactions that have passed the upsert are for one route.      *)
RowsAreLocked ==
    \A r, s \in Runs : (r # s /\ Locks(r) /\ Locks(s)) => IdOf(r) # IdOf(s)

(* What an open transaction has deleted is all there is: since it passed   *)
(* the upsert, nobody else has committed rows of its route.                *)
DeletesAll ==
    \A r \in Runs, k \in DOMAIN Batch :
        (tx[r].state = "open" /\ k < tx[r].at) =>
            tx[r].gone[Batch[k]] = tables[Batch[k]][IdOf(r)]

(* A run has committed the files before the one it is at, and that one,    *)
(* too, when Store is about to return without an error.                    *)
FilesAreCommitted ==
    \A r \in Runs :
        /\ \A i \in DOMAIN Files : i < file[r] => <<r, i>> \in ToSet(log[Files[i]])
        /\ (run[r] = "storing" /\ tx[r].state = "committed") => Doc(r) \in ToSet(log[IdOf(r)])
        /\ run[r] = "completed" => file[r] \notin DOMAIN Files

IInv ==
    /\ WriterTypes
    /\ Storing
    /\ RowsAreLocked
    /\ DeletesAll
    /\ TablesAgree
    /\ FilesAreCommitted

-----------------------------------------------------------------------------
(* The files are a sequence, and the batch has four parts.                 *)
LEMMA FilesFacts ==
    /\ Len(Files) \in Nat
    /\ DOMAIN Files = 1..Len(Files)
    /\ \A i \in DOMAIN Files : Files[i] \in Ids
BY FilesAssumption DEF Ids, ToSet

(* The tables of the batch: routes comes first, and each of the others once. *)
LEMMA BatchFacts ==
    /\ Len(Batch) = 4
    /\ DOMAIN Batch = 1..4
    /\ Batch[1] = "routes" /\ Batch[2] = "nearby" /\ Batch[3] = "images" /\ Batch[4] = "details"
    /\ \A k \in 1..4 : Batch[k] \in Tables /\ (Batch[k] = "routes" <=> k = 1)
    /\ \A j, k \in 1..4 : Batch[j] = Batch[k] => j = k
    /\ \A t \in Tables : \E k \in 1..4 : Batch[k] = t
BY DEF Batch, Tables

(* Appending to a sequence adds its new last element to its elements.      *)
LEMMA AppendFacts ==
    ASSUME NEW S, NEW s \in Seq(S), NEW e \in S
    PROVE  /\ Append(s, e) \in Seq(S)
           /\ Append(s, e) # <<>>
           /\ Last(Append(s, e)) = e
           /\ ToSet(s) \subseteq ToSet(Append(s, e))
           /\ e \in ToSet(Append(s, e))
<1>1. /\ Append(s, e) \in Seq(S)
      /\ Len(Append(s, e)) = Len(s) + 1
      /\ Append(s, e)[Len(s) + 1] = e
      /\ \A i \in 1..Len(s) : Append(s, e)[i] = s[i]
      /\ Len(s) \in Nat
  OBVIOUS
<1>2. DOMAIN s = 1..Len(s) /\ DOMAIN Append(s, e) = 1..Len(s) + 1
  BY <1>1
<1>3. Append(s, e) # <<>>
  BY <1>1
<1> QED
  BY <1>1, <1>2, <1>3 DEF Last, ToSet

(* With the batch in this order a transaction holds its route's row from   *)
(* its second statement on.                                                *)
LEMMA LocksFacts ==
    ASSUME WriterTypes, NEW r \in Runs
    PROVE  Locks(r) <=> tx[r].state = "open" /\ tx[r].at >= 2
<1>1. tx[r].at \in 0..5
  BY BatchFacts DEF WriterTypes
<1> QED
  BY <1>1, BatchFacts DEF Locks


-----------------------------------------------------------------------------
(* Steps of readers leave the writers' variables alone.                    *)
LEMMA ReadersOnlyRead ==
    ASSUME NEW d \in Readers, ReadStep(d)
    PROVE  UNCHANGED <<tables, log, run, file, tx>>
BY DEF ReadStep, Find, Acquire, Rows, CutRows, FindFails, dbVars, runVars

(* Each step of a run preserves the parts of the invariant: first, types.  *)
LEMMA WriterTypesStep ==
    ASSUME WriterTypes, Storing, NEW r \in Runs, RunStep(r)
    PROVE  WriterTypes'
<1> DEFINE Tx == [at : 0..Len(Batch) + 1,
                  state : {"none", "open", "committed", "aborted"},
                  gone : [Tables -> SUBSET Docs]]
<1> USE DEF WriterTypes, dbVars, runVars, readVars
<1>f. Len(Files) \in Nat /\ DOMAIN Files = 1..Len(Files)
  BY FilesFacts
<1>a. ASSUME file[r] \in DOMAIN Files PROVE Doc(r) \in Docs /\ IdOf(r) \in Ids
  BY <1>a, FilesFacts DEF Doc, Docs, IdOf
<1>b. NoTx \in Tx /\ \A q \in Runs : tx[q] \in Tx
  BY BatchFacts DEF NoTx
<1>c. /\ \A u \in Tx : /\ [u EXCEPT !.state = "committed"] \in Tx
                        /\ [u EXCEPT !.state = "aborted"] \in Tx
      /\ \A u \in Tx, n \in 0..Len(Batch) + 1 : [u EXCEPT !.at = n, !.state = "open"] \in Tx
      /\ \A u \in Tx, n \in 0..Len(Batch) + 1, t \in Tables, D \in SUBSET Docs :
            [u EXCEPT !.at = n, !.gone[t] = D] \in Tx
  OBVIOUS
<1>d. 0 \in Nat /\ 1 \in 0..Len(Batch) + 1
  BY BatchFacts
<1> HIDE DEF Tx
<1>e. tx \in [Runs -> Tx] /\ \A u \in Tx : [tx EXCEPT ![r] = u] \in [Runs -> Tx]
  BY DEF Tx
<1>1. CASE Start(r)
  BY <1>1 DEF Start
<1>2. CASE SendBatch(r)
  <2>1. tx' = [tx EXCEPT ![r] = [NoTx EXCEPT !.at = 1, !.state = "open"]]
    BY <1>2 DEF SendBatch
  <2>2. tx' \in [Runs -> Tx]
    BY <2>1, <1>b, <1>c, <1>d, <1>e
  <2> QED
    BY <1>2, <2>2 DEF SendBatch, Tx
<1>3. CASE Statement(r)
  <2> DEFINE t == Batch[tx[r].at]
  <2>1. t \in Tables /\ tables[t][IdOf(r)] \in SUBSET Docs
    BY <1>3, <1>a, BatchFacts DEF Statement, Storing
  <2>2. tx[r].at + 1 \in 0..Len(Batch) + 1
    BY <1>3, BatchFacts DEF Statement
  <2> HIDE DEF t
  <2>3. tx' = [tx EXCEPT ![r].at = tx[r].at + 1, ![r].gone[t] = tables[t][IdOf(r)]]
    BY <1>3 DEF Statement, t
  <2>4. \A q \in Runs \ {r} : tx'[q] = tx[q]
    BY <2>3, <1>e
  <2>5. tx'[r] = [tx[r] EXCEPT !.at = tx[r].at + 1, !.gone[t] = tables[t][IdOf(r)]]
    BY <2>3, <1>e, <1>b DEF Tx
  <2>6. tx' \in [Runs -> Tx]
    BY <2>1, <2>2, <2>3, <2>4, <2>5, <1>b, <1>c, <1>e
  <2> QED
    BY <1>3, <2>6 DEF Statement, Tx
<1>4. CASE Commit(r)
  <2>1. Doc(r) \in Docs /\ IdOf(r) \in Ids
    BY <1>4, <1>a DEF Commit, Storing
  <2>2. tables' \in [Tables -> [Ids -> SUBSET Docs]]
    BY <1>4, <2>1 DEF Commit
  <2>3. log' \in [Ids -> Seq(Docs)]
    BY <1>4, <2>1, AppendFacts DEF Commit
  <2>5. tx' = [tx EXCEPT ![r] = [tx[r] EXCEPT !.state = "committed"]]
    BY <1>4, <1>e DEF Commit
  <2>4. tx' \in [Runs -> Tx]
    BY <2>5, <1>b, <1>c, <1>d, <1>e
  <2> QED
    BY <1>4, <2>2, <2>3, <2>4 DEF Commit, Tx
<1>5. CASE Abort(r)
  <2>1. tx' = [tx EXCEPT ![r] = [tx[r] EXCEPT !.state = "aborted"]]
    BY <1>5, <1>e DEF Abort
  <2>2. tx' \in [Runs -> Tx]
    BY <2>1, <1>b, <1>c, <1>d, <1>e
  <2> QED
    BY <1>5, <2>2 DEF Abort, Tx
<1>6. CASE StoreReturns(r)
  <2>1. file[r] + 1 \in 1..Len(Files) + 1
    BY <1>6, <1>f DEF StoreReturns, Storing
  <2>2. file' \in [Runs -> 1..Len(Files) + 1]
    BY <1>6, <2>1 DEF StoreReturns
  <2>3. UNCHANGED <<tx, tables, log>>
    BY <1>6 DEF StoreReturns
  <2>4. run' \in [Runs -> {"new", "next", "storing", "completed", "failed"}]
    BY <1>6 DEF StoreReturns
  <2> QED
    BY <2>2, <2>3, <2>4
<1>7. CASE Complete(r)
  BY <1>7 DEF Complete
<1>8. CASE Die(r)
  BY <1>8 DEF Die
<1> QED
  BY <1>1, <1>2, <1>3, <1>4, <1>5, <1>6, <1>7, <1>8 DEF RunStep

(* A transaction is only opened for a file, and a run only waits for one.  *)
LEMMA StoringStep ==
    ASSUME WriterTypes, Storing, NEW r \in Runs, RunStep(r)
    PROVE  Storing'
<1> USE DEF WriterTypes, Storing, dbVars, runVars, readVars
<1>1. CASE Start(r)
  BY <1>1 DEF Start
<1>2. CASE SendBatch(r)
  BY <1>2 DEF SendBatch, NoTx
<1>3. CASE Statement(r)
  BY <1>3 DEF Statement
<1>4. CASE Commit(r)
  BY <1>4 DEF Commit
<1>5. CASE Abort(r)
  BY <1>5 DEF Abort
<1>6. CASE StoreReturns(r)
  BY <1>6 DEF StoreReturns
<1>7. CASE Complete(r)
  BY <1>7 DEF Complete
<1>8. CASE Die(r)
  BY <1>8 DEF Die
<1> QED
  BY <1>1, <1>2, <1>3, <1>4, <1>5, <1>6, <1>7, <1>8 DEF RunStep

(* Locks after a step of r, as a condition on the transactions.            *)
LEMMA LocksAfter ==
    ASSUME WriterTypes', NEW q \in Runs
    PROVE  Locks(q)' <=> tx'[q].state = "open" /\ tx'[q].at >= 2
<1>1. tx'[q].at \in 0..5
  BY BatchFacts DEF WriterTypes
<1> QED
  BY <1>1, BatchFacts DEF Locks

(* What a step of r does to transactions and files of others: nothing.     *)
LEMMA OthersStay ==
    ASSUME WriterTypes, NEW r \in Runs, RunStep(r), NEW q \in Runs, q # r
    PROVE  tx'[q] = tx[q] /\ file'[q] = file[q] /\ run'[q] = run[q]
BY DEF WriterTypes, RunStep, Start, SendBatch, Statement, Commit, Abort, StoreReturns,
       Complete, Die, dbVars, runVars, readVars

(* What a step of r does to its own transaction and file.                  *)
LEMMA OwnStep ==
    ASSUME WriterTypes, Storing, NEW r \in Runs, RunStep(r)
    PROVE  \/ tx'[r] = tx[r] /\ file'[r] = file[r]
           \/ tx'[r].at = 1 /\ file'[r] = file[r]
           \/ Statement(r) /\ tx'[r].at = tx[r].at + 1 /\ tx'[r].state = "open" /\ file'[r] = file[r]
           \/ tx'[r].state # "open"
<1> USE DEF WriterTypes, Storing, dbVars, runVars, readVars
<1>1. CASE Start(r) \/ Complete(r) \/ Die(r)
  BY <1>1 DEF Start, Complete, Die
<1>2. CASE SendBatch(r)
  BY <1>2 DEF SendBatch, NoTx
<1>3. CASE Statement(r)
  BY <1>3 DEF Statement
<1>4. CASE Commit(r) \/ Abort(r)
  BY <1>4 DEF Commit, Abort
<1>5. CASE StoreReturns(r)
  BY <1>5 DEF StoreReturns
<1> QED
  BY <1>1, <1>2, <1>3, <1>4, <1>5 DEF RunStep

(* The upsert waits, so no two transactions lock one route.                *)
LEMMA LocksStep ==
    ASSUME WriterTypes, Storing, RowsAreLocked, NEW r \in Runs, RunStep(r)
    PROVE  RowsAreLocked'
<1>1. WriterTypes'
  BY WriterTypesStep
<1>2. \A q \in Runs \ {r} : (Locks(q)' <=> Locks(q)) /\ IdOf(q)' = IdOf(q)
  BY <1>1, OthersStay, LocksFacts, LocksAfter DEF IdOf
<1>3. Locks(r)' => \/ /\ Locks(r)
                      /\ IdOf(r)' = IdOf(r)
                   \/ /\ IdOf(r)' = IdOf(r)
                      /\ \A s \in Runs \ {r} : Locks(s) => IdOf(s) # IdOf(r)
  <2> SUFFICES ASSUME tx'[r].state = "open", tx'[r].at >= 2
               PROVE  \/ Locks(r) /\ IdOf(r)' = IdOf(r)
                      \/ /\ IdOf(r)' = IdOf(r)
                         /\ \A s \in Runs \ {r} : Locks(s) => IdOf(s) # IdOf(r)
    BY <1>1, LocksAfter
  <2>1. CASE tx'[r] = tx[r] /\ file'[r] = file[r]
    BY <2>1, LocksFacts DEF IdOf
  <2>2. CASE Statement(r) /\ tx'[r].at = tx[r].at + 1 /\ file'[r] = file[r]
    <3>1. CASE tx[r].at = 1
      BY <2>2, <3>1, BatchFacts DEF Statement, IdOf
    <3>2. CASE tx[r].at # 1
      BY <2>2, <3>2, LocksFacts, BatchFacts DEF Statement, IdOf, WriterTypes
    <3> QED
      BY <3>1, <3>2
  <2> QED
    BY <2>1, <2>2, OwnStep
<1> QED
  BY <1>2, <1>3 DEF RowsAreLocked

(* A commit finds nobody else who has deleted rows of its route.           *)
LEMMA CommitIsAlone ==
    ASSUME WriterTypes, RowsAreLocked, NEW r \in Runs, Commit(r),
           NEW q \in Runs, q # r, tx[q].state = "open", tx[q].at >= 2
    PROVE  IdOf(q) # IdOf(r)
BY LocksFacts, BatchFacts DEF RowsAreLocked, Commit

(* What was deleted stays all there is: whoever else commits holds the     *)
(* lock of another route.                                                  *)
LEMMA DeletesStep ==
    ASSUME WriterTypes, Storing, RowsAreLocked, DeletesAll, NEW r \in Runs, RunStep(r)
    PROVE  DeletesAll'
<1>1. SUFFICES ASSUME NEW q \in Runs, NEW k \in 1..4, tx'[q].state = "open", k < tx'[q].at
               PROVE  tx'[q].gone[Batch[k]] = tables'[Batch[k]][Files[file'[q]]]
  BY BatchFacts DEF DeletesAll, IdOf
<1>2. WriterTypes'
  BY WriterTypesStep
<1>3. tx'[q].at \in 0..5 /\ tx[q].at \in 0..5
  BY <1>2, BatchFacts DEF WriterTypes
<1>4. CASE Commit(r)
  <2>1. q # r
    BY <1>1, <1>4 DEF Commit, WriterTypes
  <2>2. tx'[q] = tx[q] /\ file'[q] = file[q]
    BY <2>1, OthersStay
  <2>3. tx[q].gone[Batch[k]] = tables[Batch[k]][IdOf(q)]
    BY <1>1, <2>2, BatchFacts DEF DeletesAll
  <2>4. IdOf(q) # IdOf(r)
    BY <1>1, <1>3, <1>4, <2>1, <2>2, CommitIsAlone
  <2>5. IdOf(q) \in Ids /\ Batch[k] \in Tables
    BY <1>1, <2>2, FilesFacts, BatchFacts DEF Storing, IdOf
  <2>6. tables'[Batch[k]][IdOf(q)] = tables[Batch[k]][IdOf(q)]
    BY <1>4, <2>4, <2>5 DEF Commit, WriterTypes
  <2> QED
    BY <2>2, <2>3, <2>6 DEF IdOf
<1>5. CASE ~Commit(r)
  <2>1. tables' = tables
    BY <1>5 DEF RunStep, Start, SendBatch, Statement, Abort, StoreReturns, Complete, Die, dbVars
  <2>2. CASE tx'[q] = tx[q] /\ file'[q] = file[q]
    BY <1>1, <2>1, <2>2, BatchFacts DEF DeletesAll, IdOf
  <2>3. CASE tx'[q].at = 1
    BY <1>1, <2>3
  <2>4. CASE q = r /\ Statement(r)
    <3> DEFINE t == Batch[tx[r].at]
    <3>1. /\ tx[r].state = "open" /\ tx[r].at \in 1..4
          /\ tx'[r].at = tx[r].at + 1
          /\ file' = file
          /\ t \in Tables
          /\ tx[r].gone \in [Tables -> SUBSET Docs]
      BY <2>4, BatchFacts DEF Statement, runVars, WriterTypes
    <3>2. tx'[r].gone = [tx[r].gone EXCEPT ![t] = tables[t][IdOf(r)]]
      BY <2>4, <3>1 DEF Statement, WriterTypes
    <3>3. CASE k = tx[r].at
      BY <2>1, <2>4, <3>1, <3>2, <3>3 DEF IdOf
    <3>4. CASE k < tx[r].at
      <4>1. Batch[k] # t /\ Batch[k] \in Tables
        BY <3>1, <3>4, BatchFacts
      <4>2. tx'[r].gone[Batch[k]] = tx[r].gone[Batch[k]]
        BY <3>1, <3>2, <4>1
      <4>3. tx[r].gone[Batch[k]] = tables[Batch[k]][IdOf(r)]
        BY <3>1, <3>4, BatchFacts DEF DeletesAll
      <4> QED
        BY <2>1, <2>4, <3>1, <4>2, <4>3 DEF IdOf
    <3> QED
      BY <1>1, <2>4, <3>1, <3>3, <3>4
  <2> QED
    BY <1>1, <2>2, <2>3, <2>4, OwnStep, OthersStay
<1> QED
  BY <1>4, <1>5

(* What a commit makes of the tables and the log.                          *)
LEMMA CommitReplaces ==
    ASSUME WriterTypes, Storing, DeletesAll, NEW r \in Runs, Commit(r)
    PROVE  /\ IdOf(r) \in Ids /\ Doc(r) \in Docs
           /\ log' = [log EXCEPT ![IdOf(r)] = Append(log[IdOf(r)], Doc(r))]
           /\ \A t \in Tables : tables'[t][IdOf(r)] = {Doc(r)}
           /\ \A t \in Tables, id \in Ids \ {IdOf(r)} : tables'[t][id] = tables[t][id]
<1>1. file[r] \in DOMAIN Files /\ IdOf(r) \in Ids /\ Doc(r) \in Docs
  BY FilesFacts DEF Commit, Storing, IdOf, Doc, Docs
<1>2. log' = [log EXCEPT ![IdOf(r)] = Append(log[IdOf(r)], Doc(r))]
  BY DEF Commit
<1>3. ASSUME NEW t \in Tables
      PROVE  /\ tables'[t][IdOf(r)] = {Doc(r)}
             /\ \A id \in Ids \ {IdOf(r)} : tables'[t][id] = tables[t][id]
  <2>1. tx[r].gone[t] = tables[t][IdOf(r)]
    <3>1. PICK k \in 1..4 : Batch[k] = t
      BY BatchFacts
    <3>2. k < tx[r].at
      BY BatchFacts DEF Commit
    <3> QED
      BY <3>1, <3>2, BatchFacts DEF DeletesAll, Commit
  <2>2. tables'[t] = [tables[t] EXCEPT ![IdOf(r)] =
             IF t = "routes" THEN {Doc(r)} ELSE (tables[t][IdOf(r)] \ tx[r].gone[t]) \cup {Doc(r)}]
    BY DEF Commit
  <2>3. tables[t] \in [Ids -> SUBSET Docs]
    BY DEF WriterTypes
  <2> QED
    BY <1>1, <2>1, <2>2, <2>3
<1> QED
  BY <1>1, <1>2, <1>3

(* A commit replaces the rows of its route in all tables at once.          *)
LEMMA TablesAgreeStep ==
    ASSUME WriterTypes, Storing, DeletesAll, TablesAgree, NEW r \in Runs, RunStep(r)
    PROVE  TablesAgree'
<1>1. CASE Commit(r)
  <2> SUFFICES ASSUME NEW id \in Ids, NEW t \in Tables
               PROVE  tables'[t][id] = IF log'[id] = <<>> THEN {} ELSE {Last(log'[id])}
    BY DEF TablesAgree
  <2>1. CASE id = IdOf(r)
    <3>1. log[id] \in Seq(Docs) /\ Doc(r) \in Docs
      BY <1>1, CommitReplaces DEF WriterTypes
    <3>2. log'[id] = Append(log[id], Doc(r))
      BY <1>1, <2>1, CommitReplaces DEF WriterTypes
    <3>3. log'[id] # <<>> /\ Last(log'[id]) = Doc(r)
      BY <3>1, <3>2, AppendFacts
    <3> QED
      BY <1>1, <2>1, <3>3, CommitReplaces
  <2>2. CASE id # IdOf(r)
    <3>1. /\ tables'[t][id] = tables[t][id]
          /\ log' = [log EXCEPT ![IdOf(r)] = Append(log[IdOf(r)], Doc(r))]
      BY <1>1, <2>2, CommitReplaces
    <3>2. log'[id] = log[id]
      BY <2>2, <3>1 DEF WriterTypes
    <3> QED
      BY <3>1, <3>2 DEF TablesAgree
  <2> QED
    BY <2>1, <2>2
<1>2. CASE ~Commit(r)
  <2>1. UNCHANGED <<tables, log>>
    BY <1>2 DEF RunStep, Start, SendBatch, Statement, Abort, StoreReturns, Complete, Die, dbVars
  <2> QED
    BY <2>1 DEF TablesAgree
<1> QED
  BY <1>1, <1>2

(* Documents stay in the log.                                              *)
LEMMA LogGrows ==
    ASSUME WriterTypes, Storing, DeletesAll, NEW r \in Runs, RunStep(r), NEW id \in Ids
    PROVE  ToSet(log[id]) \subseteq ToSet(log'[id])
<1>1. CASE Commit(r)
  <2>1. log[id] \in Seq(Docs) /\ Doc(r) \in Docs
    BY <1>1, CommitReplaces DEF WriterTypes
  <2>2. log'[id] = IF id = IdOf(r) THEN Append(log[id], Doc(r)) ELSE log[id]
    <3>1. log' = [log EXCEPT ![IdOf(r)] = Append(log[IdOf(r)], Doc(r))]
      BY <1>1, CommitReplaces
    <3>2. log \in [Ids -> Seq(Docs)]
      BY DEF WriterTypes
    <3> QED
      BY <3>1, <3>2
  <2>3. CASE id = IdOf(r)
    BY <2>1, <2>2, <2>3, AppendFacts
  <2>4. CASE id # IdOf(r)
    BY <2>2, <2>4
  <2> QED
    BY <2>3, <2>4
<1>2. CASE ~Commit(r)
  <2>1. log' = log
    BY <1>2 DEF RunStep, Start, SendBatch, Statement, Abort, StoreReturns, Complete, Die, dbVars
  <2> QED
    BY <2>1
<1> QED
  BY <1>1, <1>2

(* A run passes a file only after its commit, and no commit is forgotten.  *)
LEMMA FilesStep ==
    ASSUME WriterTypes, Storing, DeletesAll, FilesAreCommitted, NEW r \in Runs, RunStep(r)
    PROVE  FilesAreCommitted'
<1> SUFFICES ASSUME NEW q \in Runs
             PROVE  /\ \A i \in DOMAIN Files : i < file'[q] => <<q, i>> \in ToSet(log'[Files[i]])
                    /\ (run'[q] = "storing" /\ tx'[q].state = "committed") =>
                          <<q, file'[q]>> \in ToSet(log'[Files[file'[q]]])
                    /\ run'[q] = "completed" => file'[q] \notin DOMAIN Files
  BY DEF FilesAreCommitted, Doc, IdOf
<1>a. \A i \in DOMAIN Files : ToSet(log[Files[i]]) \subseteq ToSet(log'[Files[i]])
  BY LogGrows, FilesFacts
<1>b. \A i \in DOMAIN Files : i < file[q] => <<q, i>> \in ToSet(log'[Files[i]])
  BY <1>a DEF FilesAreCommitted
<1>c. (run[q] = "storing" /\ tx[q].state = "committed") =>
          <<q, file[q]>> \in ToSet(log'[Files[file[q]]])
  BY <1>a DEF FilesAreCommitted, Storing, Doc, IdOf
<1>d. run[q] = "completed" => file[q] \notin DOMAIN Files
  BY DEF FilesAreCommitted
<1>1. CASE q # r
  BY <1>1, <1>b, <1>c, <1>d, OthersStay
<1>2. CASE q = r
  <2> USE DEF WriterTypes, dbVars, runVars, readVars
  <2>1. CASE Start(r)
    BY <1>2, <1>b, <1>c, <2>1 DEF Start
  <2>2. CASE SendBatch(r)
    BY <1>2, <1>b, <2>2 DEF SendBatch, NoTx
  <2>3. CASE Statement(r)
    BY <1>2, <1>b, <1>d, <2>3 DEF Statement
  <2>4. CASE Commit(r)
    <3>1. Doc(r) \in ToSet(log'[IdOf(r)])
      <4>1. log[IdOf(r)] \in Seq(Docs) /\ Doc(r) \in Docs
        BY <2>4, CommitReplaces
      <4>2. log'[IdOf(r)] = Append(log[IdOf(r)], Doc(r))
        BY <2>4, CommitReplaces
      <4> QED
        BY <4>1, <4>2, AppendFacts
    <3>2. file' = file /\ run' = run
      BY <2>4 DEF Commit
    <3> QED
      BY <1>2, <1>b, <1>d, <3>1, <3>2 DEF Doc, IdOf
  <2>5. CASE Abort(r)
    BY <1>2, <1>b, <1>d, <2>5 DEF Abort
  <2>6. CASE StoreReturns(r)
    <3>1. CASE tx[r].state = "committed"
      <4>1. file'[r] = file[r] + 1 /\ run'[r] = "next" /\ file[r] \in Nat
        BY <2>6, <3>1 DEF StoreReturns
      <4>2. <<r, file[r]>> \in ToSet(log'[Files[file[r]]])
        BY <1>2, <1>c, <2>6, <3>1 DEF StoreReturns
      <4>3. \A i \in DOMAIN Files : i < file'[r] => i < file[r] \/ i = file[r]
        BY <4>1, FilesFacts
      <4> QED
        BY <1>2, <1>b, <4>1, <4>2, <4>3
    <3>2. CASE tx[r].state # "committed"
      BY <1>2, <1>b, <2>6, <3>2 DEF StoreReturns
    <3> QED
      BY <3>1, <3>2
  <2>7. CASE Complete(r)
    BY <1>2, <1>b, <2>7 DEF Complete
  <2>8. CASE Die(r)
    BY <1>2, <1>b, <2>8 DEF Die
  <2> QED
    BY <2>1, <2>2, <2>3, <2>4, <2>5, <2>6, <2>7, <2>8 DEF RunStep
<1> QED
  BY <1>1, <1>2

-----------------------------------------------------------------------------
(* The invariant: runs of import-data in RouteStore preserve all its parts. *)
THEOREM Invariance == Spec => []IInv
<1>1. Init => IInv
  <2> SUFFICES ASSUME Init PROVE IInv
    OBVIOUS
  <2>1. WriterTypes
    BY FilesFacts, BatchFacts DEF Init, WriterTypes, NoTx
  <2>2. Storing /\ RowsAreLocked /\ DeletesAll
    BY DEF Init, Storing, RowsAreLocked, DeletesAll, Locks, NoTx
  <2>3. TablesAgree
    BY DEF Init, TablesAgree
  <2>4. FilesAreCommitted
    BY FilesFacts DEF Init, FilesAreCommitted
  <2> QED
    BY <2>1, <2>2, <2>3, <2>4 DEF IInv
<1>2. IInv /\ [Next]_vars => IInv'
  <2> SUFFICES ASSUME IInv, [Next]_vars PROVE IInv'
    OBVIOUS
  <2>1. ASSUME NEW r \in Runs, RunStep(r) PROVE IInv'
    BY <2>1, WriterTypesStep, StoringStep, LocksStep, DeletesStep, TablesAgreeStep, FilesStep DEF IInv
  <2>2. ASSUME UNCHANGED <<tables, log, run, file, tx>> PROVE IInv'
    BY <2>2 DEF IInv, WriterTypes, Storing, RowsAreLocked, DeletesAll, TablesAgree,
                FilesAreCommitted, Locks, IdOf, Doc
  <2> QED
    BY <2>1, <2>2, ReadersOnlyRead DEF Next, vars
<1> QED
  BY <1>1, <1>2, PTL DEF Spec

(* TablesAgree for any number of runs, however they overlap, die and are   *)
(* repeated: Store is one atomic replacement of the rows of a route.       *)
THEOREM StoreIsAtomic == Spec => []TablesAgree
BY Invariance, PTL DEF IInv

(* A run that reports completion has committed all its files.              *)
THEOREM CompletedIsStored == Spec => []CompletionIsDurable
<1>1. IInv => CompletionIsDurable
  <2> SUFFICES ASSUME IInv, NEW r \in Runs, run[r] = "completed", NEW i \in DOMAIN Files
               PROVE  <<r, i>> \in ToSet(log[Files[i]])
    BY DEF CompletionIsDurable
  <2>1. file[r] \in 1..Len(Files) + 1 /\ file[r] \notin DOMAIN Files
    BY DEF IInv, WriterTypes, FilesAreCommitted
  <2>2. i < file[r]
    BY <2>1, FilesFacts
  <2> QED
    BY <2>2 DEF IInv, FilesAreCommitted
<1> QED
  BY <1>1, Invariance, PTL

-----------------------------------------------------------------------------
(* The readers, on top of what the invariant says of the writers: a query  *)
(* finds the rows of the last committed document, and the log of a route   *)
(* only grows, so the position in it from which each query of a reader was *)
(* answered can only move forward.                                         *)

(* The variables of the readers keep their types, and a reader is at a     *)
(* query that fits its state.                                              *)
ReaderTypes ==
    /\ reader \in [Readers -> {"idle", "ask", "rows", "found", "notFound", "failed"}]
    /\ part \in [Readers -> 1..Len(Queries) + 1]
    /\ route \in [Readers -> Ids]
    /\ seen \in [Readers -> [Tables -> SUBSET Docs]]
    /\ cut \in [Readers -> SUBSET Tables]
    /\ since \in [Readers -> Nat]
    /\ \A d \in Readers :
          /\ reader[d] = "idle" => part[d] = 1
          /\ reader[d] \in {"ask", "rows"} => part[d] <= Len(Queries)
          /\ reader[d] = "found" => part[d] = Len(Queries) + 1

(* The queries d has made were answered from these positions of the log.   *)
AnsweredFrom(d, at) ==
    \A j \in 1..4 : j < part[d] =>
        /\ at[Queries[j]] \in 1..Len(log[route[d]])
        /\ at[Queries[j]] >= since[d]
        /\ \/ seen[d][Queries[j]] = {log[route[d]][at[Queries[j]]]}
           \/ /\ Queries[j] \in cut[d]
              /\ seen[d][Queries[j]] \subseteq {log[route[d]][at[Queries[j]]]}
        /\ \A i \in 1..4 : i < j => at[Queries[i]] <= at[Queries[j]]

MovesForward ==
    \A d \in Readers : reader[d] \in {"ask", "rows", "found"} =>
        \E at \in [Tables -> Nat] : AnsweredFrom(d, at)

SinceIsPast == \A d \in Readers : since[d] <= Len(log[route[d]])

RInv == ReaderTypes /\ SinceIsPast /\ MovesForward

-----------------------------------------------------------------------------
(* The queries go through the four tables, routes first.                   *)
LEMMA QueriesFacts ==
    /\ Len(Queries) = 4
    /\ DOMAIN Queries = 1..4
    /\ Queries[1] = "routes"
    /\ \A k \in 1..4 : Queries[k] \in Tables /\ (Queries[k] = "routes" <=> k = 1)
    /\ \A j, k \in 1..4 : Queries[j] = Queries[k] => j = k
    /\ \A t \in Tables : \E k \in 1..4 : Queries[k] = t
BY DEF Queries, Tables

(* Logs only get longer.                                                   *)
LEMMA LogExtends ==
    ASSUME IInv, NEW r \in Runs, RunStep(r), NEW id \in Ids
    PROVE  /\ Len(log[id]) \in Nat /\ Len(log'[id]) \in Nat
           /\ Len(log[id]) <= Len(log'[id])
           /\ \A i \in 1..Len(log[id]) : log'[id][i] = log[id][i]
<1>1. log \in [Ids -> Seq(Docs)]
  BY DEF IInv, WriterTypes
<1>2. CASE UNCHANGED log
  BY <1>1, <1>2
<1>3. CASE Commit(r)
  <2>1. tx[r].state = "open" /\ file[r] \in DOMAIN Files
    BY <1>3 DEF Commit, IInv, Storing
  <2>2. Doc(r) \in Docs
    BY <2>1 DEF Doc, Docs
  <2>3. log'[id] = IF id = IdOf(r) THEN Append(log[id], Doc(r)) ELSE log[id]
    BY <1>1, <1>3 DEF Commit
  <2>4. log[id] \in Seq(Docs)
    BY <1>1
  <2> QED
    BY <2>2, <2>3, <2>4
<1> QED
  BY <1>2, <1>3 DEF RunStep, Start, SendBatch, StoreReturns, Complete, Die, Statement, Abort,
                    dbVars, runVars, readVars

(* A step of a run leaves the readers what they have.                      *)
LEMMA RunStepRInv ==
    ASSUME IInv, RInv, NEW r \in Runs, RunStep(r)
    PROVE  RInv'
<1>1. UNCHANGED <<reader, part, route, seen, cut, since>>
  BY DEF RunStep, Start, SendBatch, StoreReturns, Complete, Die, Statement, Commit, Abort, readVars
<1>2. ReaderTypes'
  BY <1>1 DEF RInv, ReaderTypes
<1>3. \A d \in Readers : route[d] \in Ids
  BY DEF RInv, ReaderTypes
<1>4. SinceIsPast'
  BY <1>1, <1>3, LogExtends DEF RInv, SinceIsPast, ReaderTypes
<1>5. ASSUME NEW d \in Readers, NEW at \in [Tables -> Nat], AnsweredFrom(d, at)
      PROVE  AnsweredFrom(d, at)'
  <2>1. /\ Len(log[route[d]]) \in Nat /\ Len(log'[route[d]]) \in Nat
        /\ Len(log[route[d]]) <= Len(log'[route[d]])
        /\ \A i \in 1..Len(log[route[d]]) : log'[route[d]][i] = log[route[d]][i]
    BY <1>3, LogExtends
  <2> SUFFICES ASSUME NEW j \in 1..4, j < part[d]
               PROVE  /\ at[Queries[j]] \in 1..Len(log'[route[d]])
                      /\ at[Queries[j]] >= since[d]
                      /\ \/ seen[d][Queries[j]] = {log'[route[d]][at[Queries[j]]]}
                         \/ /\ Queries[j] \in cut[d]
                            /\ seen[d][Queries[j]] \subseteq {log'[route[d]][at[Queries[j]]]}
                      /\ \A i \in 1..4 : i < j => at[Queries[i]] <= at[Queries[j]]
    BY <1>1 DEF AnsweredFrom
  <2>2. /\ at[Queries[j]] \in 1..Len(log[route[d]])
        /\ at[Queries[j]] >= since[d]
        /\ \/ seen[d][Queries[j]] = {log[route[d]][at[Queries[j]]]}
           \/ /\ Queries[j] \in cut[d]
              /\ seen[d][Queries[j]] \subseteq {log[route[d]][at[Queries[j]]]}
        /\ \A i \in 1..4 : i < j => at[Queries[i]] <= at[Queries[j]]
    BY <1>5 DEF AnsweredFrom
  <2>3. log'[route[d]][at[Queries[j]]] = log[route[d]][at[Queries[j]]]
    BY <2>1, <2>2
  <2>4. at[Queries[j]] \in 1..Len(log'[route[d]])
    BY <2>1, <2>2
  <2> QED
    BY <2>2, <2>3, <2>4
<1>6. MovesForward'
  BY <1>1, <1>5 DEF RInv, MovesForward
<1> QED
  BY <1>2, <1>4, <1>6 DEF RInv

-----------------------------------------------------------------------------
(* Asking, waiting and giving up change nothing that has been read.        *)
LEMMA WaitingRInv ==
    ASSUME RInv, NEW d \in Readers, Acquire(d) \/ FindFails(d)
    PROVE  RInv'
<1>1. UNCHANGED <<part, route, seen, cut, since, log>>
  BY DEF Acquire, FindFails, dbVars
<1>2. ReaderTypes'
  BY <1>1 DEF RInv, ReaderTypes, Acquire, FindFails
<1>3. SinceIsPast'
  BY <1>1 DEF RInv, SinceIsPast
<1>4. ASSUME NEW e \in Readers, reader'[e] \in {"ask", "rows", "found"}
      PROVE  reader[e] \in {"ask", "rows", "found"}
  BY <1>4 DEF RInv, ReaderTypes, Acquire, FindFails
<1>5. \A e \in Readers, at \in [Tables -> Nat] : AnsweredFrom(e, at) <=> AnsweredFrom(e, at)'
  BY <1>1 DEF AnsweredFrom
<1>6. MovesForward'
  BY <1>4, <1>5 DEF RInv, MovesForward
<1> QED
  BY <1>2, <1>3, <1>6 DEF RInv

(* A read begins with the log as it is.                                    *)
LEMMA FindRInv ==
    ASSUME IInv, RInv, NEW d \in Readers, Find(d)
    PROVE  RInv'
<1>1. UNCHANGED <<part, route, seen, cut, log>>
  BY DEF Find, dbVars
<1>2. Len(log[route[d]]) \in Nat
  BY DEF IInv, WriterTypes, RInv, ReaderTypes
<1>3. /\ reader' = [reader EXCEPT ![d] = "ask"]
      /\ since' = [since EXCEPT ![d] = Len(log[route[d]])]
      /\ reader[d] = "idle"
  BY DEF Find
<1>4. ReaderTypes'
  BY <1>1, <1>2, <1>3, QueriesFacts DEF RInv, ReaderTypes
<1>5. SinceIsPast'
  BY <1>1, <1>2, <1>3 DEF RInv, SinceIsPast, ReaderTypes
<1>6. ASSUME NEW e \in Readers, reader'[e] \in {"ask", "rows", "found"}
      PROVE  \E at \in [Tables -> Nat] : AnsweredFrom(e, at)'
  <2>1. CASE e = d
    <3>1. part'[d] = 1
      BY <1>1, <1>3 DEF RInv, ReaderTypes
    <3>2. [t \in Tables |-> 0] \in [Tables -> Nat]
      OBVIOUS
    <3>3. \A at : AnsweredFrom(d, at)'
      BY <3>1 DEF AnsweredFrom
    <3> QED
      BY <2>1, <3>2, <3>3
  <2>2. CASE e # d
    <3>1. reader[e] \in {"ask", "rows", "found"} /\ since'[e] = since[e]
      BY <1>3, <1>6, <2>2 DEF RInv, ReaderTypes
    <3>2. \A at \in [Tables -> Nat] : AnsweredFrom(e, at) => AnsweredFrom(e, at)'
      BY <1>1, <3>1 DEF AnsweredFrom
    <3> QED
      BY <3>1, <3>2 DEF RInv, MovesForward
  <2> QED
    BY <2>1, <2>2
<1>7. MovesForward'
  BY <1>6 DEF MovesForward
<1> QED
  BY <1>4, <1>5, <1>7 DEF RInv

-----------------------------------------------------------------------------
(* The rows of a query, all of them or some, are those of the last         *)
(* document in the log, the furthest position there is.                    *)
LEMMA QueryAnswered ==
    ASSUME IInv, RInv, NEW d \in Readers, reader[d] = "rows",
           NEW at \in [Tables -> Nat], AnsweredFrom(d, at),
           log[route[d]] # <<>>, UNCHANGED <<log, route, since>>,
           NEW rows,
           seen' = [seen EXCEPT ![d][Queries[part[d]]] = rows],
           cut[d] \subseteq cut'[d], part'[d] = part[d] + 1,
           \/ rows = tables[Queries[part[d]]][route[d]]
           \/ /\ rows \subseteq tables[Queries[part[d]]][route[d]]
              /\ Queries[part[d]] \in cut'[d]
    PROVE  \E to \in [Tables -> Nat] : AnsweredFrom(d, to)'
<1> DEFINE t == Queries[part[d]]
           end == Len(log[route[d]])
<1>1. /\ part[d] \in 1..4 /\ t \in Tables /\ route[d] \in Ids
      /\ since[d] \in Nat /\ since[d] <= end
      /\ seen \in [Readers -> [Tables -> SUBSET Docs]]
  BY QueriesFacts DEF RInv, ReaderTypes, SinceIsPast
<1>2. log[route[d]] \in Seq(Docs)
  BY <1>1 DEF IInv, WriterTypes
<1>3. end \in Nat /\ end >= 1
  BY <1>2
<1>4. tables[t][route[d]] = {log[route[d]][end]}
  BY <1>1, <1>2 DEF IInv, TablesAgree, Last
<1>5. PICK to \in [Tables -> Nat] : to[t] = end /\ \A u \in Tables : u # t => to[u] = at[u]
  <2>1. [at EXCEPT ![t] = end] \in [Tables -> Nat]
    BY <1>1, <1>3
  <2> QED
    BY <1>1, <2>1
<1>6. seen'[d][t] = rows /\ \A u \in Tables : u # t => seen'[d][u] = seen[d][u]
  BY <1>1
<1>7. ASSUME NEW j \in 1..4, j < part[d]
      PROVE  Queries[j] # t /\ Queries[j] \in Tables
  BY <1>1, <1>7, QueriesFacts
<1> HIDE DEF end, t
<1>8. ASSUME NEW j \in 1..4, j < part'[d]
      PROVE  /\ to[Queries[j]] \in 1..Len(log'[route'[d]])
             /\ to[Queries[j]] >= since'[d]
             /\ \/ seen'[d][Queries[j]] = {log'[route'[d]][to[Queries[j]]]}
                \/ /\ Queries[j] \in cut'[d]
                   /\ seen'[d][Queries[j]] \subseteq {log'[route'[d]][to[Queries[j]]]}
             /\ \A i \in 1..4 : i < j => to[Queries[i]] <= to[Queries[j]]
  <2>1. CASE j < part[d]
    <3>1. /\ to[Queries[j]] = at[Queries[j]]
          /\ seen'[d][Queries[j]] = seen[d][Queries[j]]
      BY <1>5, <1>6, <1>7, <2>1
    <3>2. \A i \in 1..4 : i < j => to[Queries[i]] = at[Queries[i]]
      <4>1. \A i \in 1..4 : i < j => i < part[d]
        BY <1>1, <2>1
      <4> QED
        BY <4>1, <1>5, <1>7
    <3>3. /\ at[Queries[j]] \in 1..Len(log[route[d]])
          /\ at[Queries[j]] >= since[d]
          /\ \/ seen[d][Queries[j]] = {log[route[d]][at[Queries[j]]]}
             \/ /\ Queries[j] \in cut[d]
                /\ seen[d][Queries[j]] \subseteq {log[route[d]][at[Queries[j]]]}
          /\ \A i \in 1..4 : i < j => at[Queries[i]] <= at[Queries[j]]
      BY <2>1 DEF AnsweredFrom
    <3> QED
      BY <3>1, <3>2, <3>3
  <2>2. CASE j = part[d]
    <3>1. Queries[j] = t /\ to[Queries[j]] = end
      BY <1>5, <2>2 DEF t
    <3>2. ASSUME NEW i \in 1..4, i < j PROVE to[Queries[i]] <= end
      <4>1. to[Queries[i]] = at[Queries[i]]
        BY <1>5, <1>7, <2>2, <3>2
      <4>2. at[Queries[i]] \in 1..Len(log[route[d]])
        BY <2>2, <3>2 DEF AnsweredFrom
      <4> QED
        BY <4>1, <4>2 DEF end
    <3>3. end \in 1..Len(log[route[d]]) /\ end >= since[d]
      BY <1>1, <1>3 DEF end
    <3>4. \/ seen'[d][t] = {log[route[d]][end]}
          \/ t \in cut'[d] /\ seen'[d][t] \subseteq {log[route[d]][end]}
      BY <1>4, <1>6 DEF t
    <3> QED
      BY <3>1, <3>2, <3>3, <3>4
  <2> QED
    BY <1>1, <1>8, <2>1, <2>2
<1>9. AnsweredFrom(d, to)'
  BY <1>8 DEF AnsweredFrom
<1> QED
  BY <1>5, <1>9

(* What a query adds to a reader that goes on, or is done.                 *)
LEMMA AnswerRInv ==
    ASSUME IInv, RInv, NEW d \in Readers, Rows(d) \/ CutRows(d)
    PROVE  RInv'
<1> DEFINE t == Queries[part[d]]
<1>1. /\ UNCHANGED <<route, since, log>>
      /\ part' = [part EXCEPT ![d] = @ + 1]
      /\ reader[d] = "rows"
  BY DEF Rows, CutRows, dbVars
<1>2. PICK rows :
          /\ seen' = [seen EXCEPT ![d][t] = rows]
          /\ \/ /\ rows = tables[t][route[d]]
                /\ cut' = cut
             \/ /\ rows \subseteq tables[t][route[d]]
                /\ cut' = [cut EXCEPT ![d] = @ \cup {t}]
  <2>1. CASE Rows(d)
    BY <2>1 DEF Rows
  <2>2. CASE CutRows(d)
    BY <2>2 DEF CutRows
  <2> QED
    BY <2>1, <2>2
<1>3. part[d] \in 1..4 /\ t \in Tables /\ route[d] \in Ids
  BY <1>1, QueriesFacts DEF RInv, ReaderTypes
<1>4. tables[t][route[d]] \subseteq Docs
  BY <1>3 DEF IInv, WriterTypes
<1>5. PICK state \in {"ask", "found", "notFound"} :
          /\ reader' = [reader EXCEPT ![d] = state]
          /\ state = "found" => part[d] = 4
          /\ state = "ask" => part[d] # 4
          /\ state \in {"ask", "found"} =>
                 ~(part[d] = 1 /\ tables["routes"][route[d]] = {})
  <2>1. CASE Rows(d)
    <3>1. reader' = [reader EXCEPT ![d] =
             CASE t = "routes" /\ tables[t][route[d]] = {} -> "notFound"
               [] part[d] = 4 -> "found"
               [] OTHER -> "ask"]
      BY <2>1, QueriesFacts DEF Rows
    <3>2. t = "routes" <=> part[d] = 1
      BY <1>3, QueriesFacts
    <3>3. CASE part[d] = 1 /\ tables["routes"][route[d]] = {}
      <4>1. t = "routes" /\ tables[t][route[d]] = {}
        BY <3>2, <3>3
      <4>2. reader' = [reader EXCEPT ![d] = "notFound"]
        BY <3>1, <3>3, <4>1
      <4> QED
        BY <3>3, <4>2
    <3>4. CASE ~(part[d] = 1 /\ tables["routes"][route[d]] = {})
      <4>1. reader' = [reader EXCEPT ![d] = IF part[d] = 4 THEN "found" ELSE "ask"]
        BY <3>1, <3>2, <3>4
      <4> QED
        BY <3>4, <4>1
    <3> QED
      BY <3>3, <3>4
  <2>2. CASE CutRows(d)
    BY <2>2, <1>3, QueriesFacts DEF CutRows
  <2> QED
    BY <2>1, <2>2
<1>6. /\ reader \in [Readers -> {"idle", "ask", "rows", "found", "notFound", "failed"}]
      /\ part \in [Readers -> 1..5]
      /\ seen \in [Readers -> [Tables -> SUBSET Docs]]
      /\ cut \in [Readers -> SUBSET Tables]
      /\ Len(Queries) = 4
  BY QueriesFacts DEF RInv, ReaderTypes
<1> HIDE DEF t
<1>7. ReaderTypes'
  <2>1. reader' \in [Readers -> {"idle", "ask", "rows", "found", "notFound", "failed"}]
    BY <1>5, <1>6
  <2>2. part' \in [Readers -> 1..5]
    BY <1>1, <1>3, <1>6
  <2>3. seen' \in [Readers -> [Tables -> SUBSET Docs]]
    BY <1>2, <1>3, <1>4, <1>6
  <2>4. cut' \in [Readers -> SUBSET Tables]
    BY <1>2, <1>3, <1>6
  <2>5. ASSUME NEW e \in Readers
        PROVE  /\ reader'[e] = "idle" => part'[e] = 1
               /\ reader'[e] \in {"ask", "rows"} => part'[e] <= 4
               /\ reader'[e] = "found" => part'[e] = 5
    BY <1>1, <1>3, <1>5, <1>6 DEF RInv, ReaderTypes
  <2> QED
    BY <1>1, <1>6, <2>1, <2>2, <2>3, <2>4, <2>5 DEF RInv, ReaderTypes
<1>8. SinceIsPast'
  BY <1>1 DEF RInv, SinceIsPast
<1>9. ASSUME NEW e \in Readers, reader'[e] \in {"ask", "rows", "found"}
      PROVE  \E at \in [Tables -> Nat] : AnsweredFrom(e, at)'
  <2>1. CASE e = d
    <3>1. PICK at \in [Tables -> Nat] : AnsweredFrom(d, at)
      BY <1>1 DEF RInv, MovesForward
    <3>2. log[route[d]] # <<>>
      <4>1. CASE part[d] = 1
        <5>1. tables["routes"][route[d]] # {}
          BY <1>5, <1>6, <1>9, <2>1, <4>1
        <5> QED
          BY <5>1, <1>3 DEF IInv, TablesAgree, Tables
      <4>2. CASE part[d] # 1
        <5>1. at[Queries[1]] \in 1..Len(log[route[d]])
          BY <1>3, <3>1, <4>2 DEF AnsweredFrom
        <5> QED
          BY <5>1
      <4> QED
        BY <4>1, <4>2
    <3>3. cut[d] \subseteq cut'[d] /\ part'[d] = part[d] + 1
      BY <1>1, <1>2, <1>6
    <3>4. \/ rows = tables[t][route[d]]
          \/ rows \subseteq tables[t][route[d]] /\ t \in cut'[d]
      BY <1>2, <1>6
    <3> QED
      BY <1>1, <1>2, <2>1, <3>1, <3>2, <3>3, <3>4, QueryAnswered DEF t
  <2>2. CASE e # d
    <3>1. /\ reader[e] \in {"ask", "rows", "found"}
          /\ part'[e] = part[e] /\ seen'[e] = seen[e] /\ cut'[e] = cut[e]
      BY <1>1, <1>2, <1>5, <1>6, <1>9, <2>2
    <3>2. \A at \in [Tables -> Nat] : AnsweredFrom(e, at) => AnsweredFrom(e, at)'
      BY <1>1, <3>1 DEF AnsweredFrom
    <3> QED
      BY <3>1, <3>2 DEF RInv, MovesForward
  <2> QED
    BY <2>1, <2>2
<1>10. MovesForward'
  BY <1>9 DEF MovesForward
<1> QED
  BY <1>7, <1>8, <1>10 DEF RInv

-----------------------------------------------------------------------------
(* The invariant of the reads, beside that of the writers.                 *)
THEOREM ReadsInvariance == Spec => []RInv
<1>1. Init => RInv
  <2> SUFFICES ASSUME Init PROVE RInv
    OBVIOUS
  <2>1. ReaderTypes /\ SinceIsPast
    <3>1. \A id \in Ids : Len(log[id]) = 0
      BY DEF Init
    <3> QED
      BY <3>1, QueriesFacts DEF Init, ReaderTypes, SinceIsPast
  <2>2. MovesForward
    BY DEF Init, MovesForward
  <2> QED
    BY <2>1, <2>2 DEF RInv
<1>2. IInv /\ RInv /\ [Next]_vars => RInv'
  <2> SUFFICES ASSUME IInv, RInv, [Next]_vars PROVE RInv'
    OBVIOUS
  <2>1. ASSUME NEW r \in Runs, RunStep(r) PROVE RInv'
    BY <2>1, RunStepRInv
  <2>2. ASSUME NEW d \in Readers, ReadStep(d) PROVE RInv'
    BY <2>2, FindRInv, WaitingRInv, AnswerRInv DEF ReadStep
  <2>3. ASSUME UNCHANGED vars PROVE RInv'
    BY <2>3 DEF vars, RInv, ReaderTypes, SinceIsPast, MovesForward, AnsweredFrom
  <2> QED
    BY <2>1, <2>2, <2>3 DEF Next
<1> QED
  BY <1>1, <1>2, Invariance, PTL DEF Spec

(* All variables of RouteStore keep their types.                           *)
THEOREM StoreTypeCorrect == Spec => []TypeOK
<1>1. IInv /\ RInv => TypeOK
  BY DEF IInv, WriterTypes, RInv, ReaderTypes, TypeOK
<1> QED
  BY <1>1, Invariance, ReadsInvariance, PTL

(* ReadsMoveForward, for any number of readers and imports: the parts of   *)
(* an answer of FindByObjectID may be of different documents, but never of *)
(* an older one than a part read before, or than the start of the read.    *)
THEOREM ReadsOnlyMoveForward == Spec => []ReadsMoveForward
<1>1. RInv => ReadsMoveForward
  <2> SUFFICES ASSUME RInv, NEW d \in Readers, reader[d] = "found"
               PROVE  \E at \in [Tables -> 1..Len(log[route[d]])] :
                        /\ \A t \in Tables :
                              /\ at[t] >= since[d]
                              /\ \/ seen[d][t] = {log[route[d]][at[t]]}
                                 \/ t \in cut[d] /\ seen[d][t] \subseteq {log[route[d]][at[t]]}
                        /\ \A i, j \in DOMAIN Queries :
                              (i < j /\ {Queries[i], Queries[j]} \cap cut[d] = {}) =>
                                  at[Queries[i]] <= at[Queries[j]]
    BY DEF ReadsMoveForward
  <2>1. part[d] = 5
    BY QueriesFacts DEF RInv, ReaderTypes
  <2>2. PICK at \in [Tables -> Nat] : AnsweredFrom(d, at)
    BY DEF RInv, MovesForward
  <2>a. \A j \in 1..4 : j < part[d]
    BY <2>1
  <2>3. \A j \in 1..4 :
          /\ at[Queries[j]] \in 1..Len(log[route[d]])
          /\ at[Queries[j]] >= since[d]
          /\ \/ seen[d][Queries[j]] = {log[route[d]][at[Queries[j]]]}
             \/ /\ Queries[j] \in cut[d]
                /\ seen[d][Queries[j]] \subseteq {log[route[d]][at[Queries[j]]]}
          /\ \A i \in 1..4 : i < j => at[Queries[i]] <= at[Queries[j]]
    BY <2>a, <2>2 DEF AnsweredFrom
  <2>4. at \in [Tables -> 1..Len(log[route[d]])]
    BY <2>3, QueriesFacts
  <2>5. \A t \in Tables :
          /\ at[t] >= since[d]
          /\ \/ seen[d][t] = {log[route[d]][at[t]]}
             \/ t \in cut[d] /\ seen[d][t] \subseteq {log[route[d]][at[t]]}
    BY <2>3, QueriesFacts
  <2> QED
    BY <2>3, <2>4, <2>5, QueriesFacts
<1> QED
  BY <1>1, ReadsInvariance, PTL

-----------------------------------------------------------------------------
(* RouteStore as the registers of AtomicStore.                             *)

(* A document is in a log only if its run has passed its file, or is at it *)
(* with its transaction committed: so it is never put a second time.       *)
PutOnce ==
    \A r \in Runs :
        /\ tx[r].state = "open" => run[r] \in {"storing", "failed"}
        /\ \A i \in DOMAIN Files, id \in Ids : <<r, i>> \in ToSet(log[id]) =>
               \/ i < file[r]
               \/ /\ i = file[r]
                  /\ tx[r].state = "committed"
                  /\ run[r] \in {"storing", "failed"}

Stored == UNION {ToSet(log[id]) : id \in Ids}
Completed == {r \in Runs : run[r] = "completed"}
Phase == [d \in Readers |-> IF reader[d] = "rows" THEN "ask" ELSE reader[d]]
Sampled == [d \in Readers |-> {Queries[i] : i \in 1..part[d] - 1}]

(* A commit adds the document of its run and file to what is stored, and   *)
(* nothing else does.                                                      *)
LEMMA CommitStores ==
    ASSUME WriterTypes, Storing, DeletesAll, NEW r \in Runs, Commit(r), NEW id \in Ids
    PROVE  ToSet(log'[id]) = IF id = IdOf(r) THEN ToSet(log[id]) \cup {Doc(r)} ELSE ToSet(log[id])
<1>1. /\ log \in [Ids -> Seq(Docs)] /\ IdOf(r) \in Ids /\ Doc(r) \in Docs
      /\ log' = [log EXCEPT ![IdOf(r)] = Append(log[IdOf(r)], Doc(r))]
  BY CommitReplaces DEF WriterTypes
<1>2. CASE id = IdOf(r)
  <2>1. log'[id] = Append(log[id], Doc(r)) /\ log[id] \in Seq(Docs)
    BY <1>1, <1>2
  <2>2. ASSUME NEW s \in Seq(Docs), NEW e \in Docs
        PROVE  ToSet(Append(s, e)) = ToSet(s) \cup {e}
    <3>1. /\ Len(s) \in Nat /\ DOMAIN s = 1..Len(s)
          /\ DOMAIN Append(s, e) = 1..Len(s) + 1
          /\ Append(s, e)[Len(s) + 1] = e
          /\ \A i \in 1..Len(s) : Append(s, e)[i] = s[i]
      OBVIOUS
    <3>2. \A i : i \in 1..Len(s) + 1 <=> i \in 1..Len(s) \/ i = Len(s) + 1
      BY <3>1
    <3> QED
      BY <3>1, <3>2 DEF ToSet
  <2> QED
    BY <1>1, <1>2, <2>1, <2>2
<1>3. CASE id # IdOf(r)
  BY <1>1, <1>3
<1> QED
  BY <1>2, <1>3

LEMMA PutOnceStep ==
    ASSUME WriterTypes, Storing, DeletesAll, PutOnce, NEW r \in Runs, RunStep(r)
    PROVE  PutOnce'
<1> SUFFICES ASSUME NEW q \in Runs
             PROVE  /\ tx'[q].state = "open" => run'[q] \in {"storing", "failed"}
                    /\ \A i \in DOMAIN Files, id \in Ids : <<q, i>> \in ToSet(log'[id]) =>
                           \/ i < file'[q]
                           \/ /\ i = file'[q]
                              /\ tx'[q].state = "committed"
                              /\ run'[q] \in {"storing", "failed"}
  BY DEF PutOnce
<1>a. /\ tx[q].state = "open" => run[q] \in {"storing", "failed"}
      /\ \A i \in DOMAIN Files, id \in Ids : <<q, i>> \in ToSet(log[id]) =>
             \/ i < file[q]
             \/ /\ i = file[q]
                /\ tx[q].state = "committed"
                /\ run[q] \in {"storing", "failed"}
  BY DEF PutOnce
<1>1. CASE Commit(r)
  <2>1. \A id \in Ids : ToSet(log'[id]) \subseteq ToSet(log[id]) \cup {<<r, file[r]>>}
    BY <1>1, CommitStores DEF Doc
  <2>2. /\ file' = file /\ run' = run
        /\ tx[r].state = "open" /\ tx'[r].state = "committed"
    BY <1>1 DEF Commit, WriterTypes
  <2>3. CASE q = r
    <3>1. run[r] \in {"storing", "failed"}
      BY <1>a, <2>2, <2>3
    <3>2. ASSUME NEW i \in DOMAIN Files, NEW id \in Ids, <<q, i>> \in ToSet(log'[id])
          PROVE  i < file[q] \/ i = file[q]
      BY <1>a, <2>1, <2>3, <3>2
    <3> QED
      BY <2>2, <2>3, <3>1, <3>2
  <2>4. CASE q # r
    <3>1. \A i \in DOMAIN Files, id \in Ids : <<q, i>> \in ToSet(log'[id]) => <<q, i>> \in ToSet(log[id])
      BY <2>1, <2>4
    <3> QED
      BY <1>1, <1>a, <2>4, <3>1, OthersStay
  <2> QED
    BY <2>3, <2>4
<1>2. CASE ~Commit(r)
  <2>1. log' = log
    BY <1>2 DEF RunStep, Start, SendBatch, Statement, Abort, StoreReturns, Complete, Die, dbVars
  <2>2. CASE q # r
    BY <1>a, <2>1, <2>2, OthersStay
  <2>3. CASE q = r
    <3> USE DEF WriterTypes, dbVars, runVars, readVars
    <3>1. CASE Start(r)
      BY <1>a, <2>1, <2>3, <3>1 DEF Start
    <3>2. CASE SendBatch(r)
      BY <1>a, <2>1, <2>3, <3>2 DEF SendBatch, NoTx
    <3>3. CASE Statement(r)
      BY <1>a, <2>1, <2>3, <3>3 DEF Statement
    <3>4. CASE Abort(r)
      BY <1>a, <2>1, <2>3, <3>4 DEF Abort
    <3>5. CASE StoreReturns(r)
      <4>1. file[r] \in Int /\ \A i \in DOMAIN Files : i \in Int
        BY FilesFacts
      <4>2. CASE tx[r].state = "committed"
        <5>1. file'[r] = file[r] + 1 /\ run'[r] = "next" /\ tx' = tx
          BY <3>5, <4>2 DEF StoreReturns
        <5>2. \A i \in DOMAIN Files : i < file[r] \/ i = file[r] => i < file'[r]
          BY <4>1, <5>1
        <5> QED
          BY <1>a, <2>1, <2>3, <4>2, <5>1, <5>2
      <4>3. CASE tx[r].state = "aborted"
        BY <1>a, <2>1, <2>3, <3>5, <4>3 DEF StoreReturns
      <4> QED
        BY <3>5, <4>2, <4>3 DEF StoreReturns
    <3>6. CASE Complete(r)
      BY <1>a, <2>1, <2>3, <3>6 DEF Complete
    <3>7. CASE Die(r)
      BY <1>a, <2>1, <2>3, <3>7 DEF Die
    <3> QED
      BY <1>2, <3>1, <3>2, <3>3, <3>4, <3>5, <3>6, <3>7 DEF RunStep
  <2> QED
    BY <2>2, <2>3
<1> QED
  BY <1>1, <1>2

LEMMA NothingPut == Init => PutOnce
<1>1. Init => \A id \in Ids : ToSet(log[id]) = {}
  <2>1. DOMAIN <<>> = {}
    OBVIOUS
  <2> QED
    BY <2>1 DEF Init, ToSet
<1> QED
  BY <1>1 DEF Init, PutOnce, NoTx

(* No file is put twice, for any number of runs, crashes and repetitions.  *)
THEOREM StoresHappenOnce == Spec => []PutOnce
<1>1. IInv /\ PutOnce /\ [Next]_vars => PutOnce'
  <2> SUFFICES ASSUME IInv, PutOnce, [Next]_vars PROVE PutOnce'
    OBVIOUS
  <2>1. ASSUME NEW r \in Runs, RunStep(r) PROVE PutOnce'
    BY <2>1, PutOnceStep DEF IInv
  <2>2. ASSUME UNCHANGED <<tables, log, run, file, tx>> PROVE PutOnce'
    BY <2>2 DEF PutOnce
  <2> QED
    BY <2>1, <2>2, ReadersOnlyRead DEF Next, vars
<1> QED
  BY NothingPut, <1>1, Invariance, PTL DEF Spec

-----------------------------------------------------------------------------
(* A commit is a put: of a file not put before, after those before it.     *)
LEMMA CommitIsPut ==
    ASSUME IInv, PutOnce, NEW r \in Runs, Commit(r)
    PROVE  Atomic!Put(r, file[r])
<1>0. WriterTypes /\ Storing /\ DeletesAll /\ FilesAreCommitted
  BY DEF IInv
<1>1. /\ IdOf(r) \in Ids /\ IdOf(r) = Files[file[r]]
      /\ Doc(r) = <<r, file[r]>>
      /\ file[r] \in DOMAIN Files
      /\ tx[r].state = "open"
  BY <1>0, CommitReplaces DEF IdOf, Doc, Commit, Storing
<1>2. <<r, file[r]>> \notin Stored
  <2>1. file[r] \in Int
    BY <1>1, FilesFacts
  <2> QED
    BY <1>1, <2>1 DEF PutOnce, Stored
<1>3. \A j \in 1..file[r] - 1 : <<r, j>> \in Stored
  <2> SUFFICES ASSUME NEW j \in 1..file[r] - 1 PROVE <<r, j>> \in Stored
    OBVIOUS
  <2>1. j \in DOMAIN Files /\ j < file[r]
    BY <1>1, FilesFacts
  <2>2. <<r, j>> \in ToSet(log[Files[j]]) /\ Files[j] \in Ids
    BY <1>0, <2>1, FilesFacts DEF FilesAreCommitted
  <2> QED
    BY <2>2 DEF Stored
<1>4. tables'["routes"] = [tables["routes"] EXCEPT ![Files[file[r]]] = {<<r, file[r]>>}]
  BY <1>0, <1>1 DEF Commit, Tables, WriterTypes
<1>5. Stored' = Stored \cup {<<r, file[r]>>}
  <2>1. \A id \in Ids :
          ToSet(log'[id]) = IF id = IdOf(r) THEN ToSet(log[id]) \cup {Doc(r)} ELSE ToSet(log[id])
    BY <1>0, CommitStores
  <2>2. \A D : D \in Stored <=> \E id \in Ids : D \in ToSet(log[id])
    BY DEF Stored
  <2>3. \A D : D \in Stored' <=> \E id \in Ids : D \in ToSet(log'[id])
    BY DEF Stored
  <2>4. ASSUME NEW D PROVE D \in Stored' <=> D \in Stored \cup {Doc(r)}
    BY <1>1, <2>1, <2>2, <2>3
  <2>5. Stored' = Stored \cup {Doc(r)}
    BY <2>4
  <2> QED
    BY <1>1, <2>5
<1>6. UNCHANGED <<Completed, Phase, route, Sampled, seen, cut>>
  BY DEF Commit, readVars, Completed, Phase, Sampled
<1> QED
  BY <1>2, <1>3, <1>4, <1>5, <1>6 DEF Atomic!Put, Stored, Completed, Phase, Sampled

(* A completed run has put all its files.                                  *)
LEMMA CompleteIsComplete ==
    ASSUME IInv, NEW r \in Runs, Complete(r)
    PROVE  Atomic!Complete(r)
<1>1. /\ run[r] = "next" /\ file[r] \notin DOMAIN Files
      /\ run' = [run EXCEPT ![r] = "completed"]
      /\ UNCHANGED <<tables, log, reader, part, route, seen, cut>>
  BY DEF Complete, dbVars, readVars
<1>2. file[r] \in 1..Len(Files) + 1 /\ run \in [Runs -> {"new", "next", "storing", "completed", "failed"}]
  BY DEF IInv, WriterTypes
<1>3. \A i \in DOMAIN Files : <<r, i>> \in Stored
  <2> SUFFICES ASSUME NEW i \in DOMAIN Files PROVE <<r, i>> \in Stored
    OBVIOUS
  <2>1. i < file[r]
    BY <1>1, <1>2, FilesFacts
  <2>2. <<r, i>> \in ToSet(log[Files[i]]) /\ Files[i] \in Ids
    BY <2>1, FilesFacts DEF IInv, FilesAreCommitted
  <2> QED
    BY <2>2 DEF Stored
<1>4. Completed' = Completed \cup {r}
  BY <1>1, <1>2 DEF Completed
<1>5. UNCHANGED <<tables["routes"], Stored, Phase, route, Sampled, seen, cut>>
  BY <1>1 DEF Stored, Phase, Sampled
<1> QED
  BY <1>3, <1>4, <1>5 DEF Atomic!Complete, Stored, Completed, Phase, Sampled

(* The rest of what a run does cannot be seen.                             *)
LEMMA RunStutters ==
    ASSUME IInv, NEW r \in Runs,
           Start(r) \/ SendBatch(r) \/ StoreReturns(r) \/ Die(r) \/ Statement(r) \/ Abort(r)
    PROVE  UNCHANGED Atomic!vars
<1>1. UNCHANGED <<tables, log, reader, part, route, seen, cut>>
  BY DEF Start, SendBatch, StoreReturns, Die, Statement, Abort, dbVars, readVars
<1>2. run \in [Runs -> {"new", "next", "storing", "completed", "failed"}]
  BY DEF IInv, WriterTypes
<1>3. Completed' = Completed
  BY <1>2 DEF Start, SendBatch, StoreReturns, Die, Statement, Abort, Completed
<1>4. UNCHANGED <<tables["routes"], Stored, Phase, route, Sampled, seen, cut>>
  BY <1>1 DEF Stored, Phase, Sampled
<1> QED
  BY <1>3, <1>4 DEF Atomic!vars, Stored, Completed, Phase, Sampled

(* What a reader has sampled are the parts its queries so far were for.    *)
LEMMA SampledFacts ==
    ASSUME ReaderTypes, NEW d \in Readers, reader[d] = "rows", NEW t, t = Queries[part[d]]
    PROVE  /\ t \in Tables /\ t \notin Sampled[d]
           /\ t = "routes" <=> Sampled[d] = {}
           /\ part' = [part EXCEPT ![d] = @ + 1] =>
                  /\ Sampled' = [Sampled EXCEPT ![d] = @ \cup {t}]
                  /\ Sampled'[d] = Tables <=> part[d] = 4
<1>1. part[d] \in 1..4 /\ part \in [Readers -> 1..5]
  BY QueriesFacts DEF ReaderTypes
<1>2. Sampled[d] = {Queries[i] : i \in 1..part[d] - 1}
  BY DEF Sampled
<1>3. \A i \in 1..part[d] - 1 : i \in 1..4 /\ i # part[d]
  BY <1>1
<1>4. t \in Tables /\ t \notin Sampled[d]
  BY <1>1, <1>2, <1>3, QueriesFacts
<1>5. t = "routes" <=> Sampled[d] = {}
  <2>1. t = "routes" <=> part[d] = 1
    BY <1>1, QueriesFacts
  <2>2. CASE part[d] = 1
    <3>1. 1..part[d] - 1 = {}
      BY <2>2
    <3> QED
      BY <1>2, <2>1, <2>2, <3>1
  <2>3. CASE part[d] # 1
    <3>1. 1 \in 1..part[d] - 1
      BY <1>1, <2>3
    <3> QED
      BY <1>2, <2>1, <2>3, <3>1
  <2> QED
    BY <2>2, <2>3
<1>6. ASSUME part' = [part EXCEPT ![d] = @ + 1]
      PROVE  /\ Sampled' = [Sampled EXCEPT ![d] = @ \cup {t}]
             /\ Sampled'[d] = Tables <=> part[d] = 4
  <2>1. part'[d] = part[d] + 1 /\ \A e \in Readers : e # d => part'[e] = part[e]
    BY <1>1, <1>6
  <2>2. \A i : i \in 1..part'[d] - 1 <=> i \in 1..part[d] - 1 \/ i = part[d]
    BY <1>1, <2>1
  <2>3. Sampled'[d] = {Queries[i] : i \in 1..part'[d] - 1}
    BY DEF Sampled
  <2>4. Sampled'[d] = Sampled[d] \cup {t}
    BY <1>2, <2>2, <2>3
  <2>5. \A e \in Readers : e # d => Sampled'[e] = Sampled[e]
    BY <2>1 DEF Sampled
  <2>6. Sampled' = [Sampled EXCEPT ![d] = @ \cup {t}]
    BY <2>4, <2>5 DEF Sampled
  <2>7. ASSUME part[d] = 4 PROVE Sampled'[d] = Tables
    <3>1. Sampled'[d] = {Queries[i] : i \in 1..4}
      BY <2>1, <2>3, <2>7
    <3> QED
      BY <3>1, QueriesFacts
  <2>8. ASSUME part[d] # 4 PROVE Sampled'[d] # Tables
    <3>1. \A i \in 1..part'[d] - 1 : i \in 1..4 /\ i # 4
      BY <1>1, <2>1, <2>8
    <3>2. Queries[4] \notin Sampled'[d]
      BY <2>3, <3>1, QueriesFacts
    <3> QED
      BY <3>2, QueriesFacts
  <2> QED
    BY <2>6, <2>7, <2>8
<1> QED
  BY <1>4, <1>5, <1>6

(* Rows read, all or some of them, are a sample of the register, whichever *)
(* table they are in.                                                      *)
LEMMA RowsAreSamples ==
    ASSUME IInv, RInv, NEW d \in Readers, Rows(d) \/ CutRows(d)
    PROVE  \E p \in Tables : \E rows \in SUBSET tables["routes"][route[d]] : Atomic!Sample(d, p, rows)
<1> DEFINE t == Queries[part[d]]
<1>1. /\ reader[d] = "rows" /\ part' = [part EXCEPT ![d] = @ + 1]
      /\ UNCHANGED <<tables, log, run, route>>
  BY DEF Rows, CutRows, dbVars, runVars
<1>2. /\ part[d] \in 1..4 /\ route[d] \in Ids
      /\ reader \in [Readers -> {"idle", "ask", "rows", "found", "notFound", "failed"}]
      /\ seen \in [Readers -> [Tables -> SUBSET Docs]]
      /\ ReaderTypes
  BY <1>1, QueriesFacts DEF RInv, ReaderTypes
<1>3. /\ t \in Tables /\ t \notin Sampled[d]
      /\ t = "routes" <=> Sampled[d] = {}
      /\ Sampled' = [Sampled EXCEPT ![d] = @ \cup {t}]
      /\ Sampled'[d] = Tables <=> part[d] = 4
  BY <1>1, <1>2, SampledFacts
<1>4. tables[t][route[d]] = tables["routes"][route[d]]
  <2> DEFINE latest == IF log[route[d]] = <<>> THEN {} ELSE {Last(log[route[d]])}
  <2>1. "routes" \in Tables
    BY DEF Tables
  <2>2. \A u \in Tables : tables[u][route[d]] = latest
    BY <1>2 DEF IInv, TablesAgree
  <2> HIDE DEF latest, t
  <2> QED
    BY <1>3, <2>1, <2>2
<1>5. Phase[d] = "ask"
  BY <1>1 DEF Phase
<1>6. UNCHANGED <<tables["routes"], Stored, Completed, route>>
  BY <1>1 DEF Stored, Completed
<1> DEFINE next(rows) == IF t = "routes" /\ rows = {} THEN "notFound"
                         ELSE IF Sampled'[d] = Tables THEN "found" ELSE "ask"
<1> HIDE DEF t
<1>7. ASSUME NEW rows, reader' = [reader EXCEPT ![d] = next(rows)]
      PROVE  Phase' = [Phase EXCEPT ![d] = next(rows)]
  <2>1. next(rows) # "rows"
    OBVIOUS
  <2>2. reader'[d] = next(rows) /\ \A e \in Readers : e # d => reader'[e] = reader[e]
    BY <1>2, <1>7
  <2> HIDE DEF next
  <2> QED
    BY <2>1, <2>2 DEF Phase
<1>8. CASE Rows(d)
  <2>0. PICK rows : rows = tables[t][route[d]]
    OBVIOUS
  <2>1. /\ seen' = [seen EXCEPT ![d][t] = rows]
        /\ cut' = cut
        /\ reader' = [reader EXCEPT ![d] =
               CASE t = "routes" /\ rows = {} -> "notFound"
                 [] part[d] = 4 -> "found"
                 [] OTHER -> "ask"]
    BY <1>8, <2>0, QueriesFacts DEF Rows, t
  <2>2. t = "routes" => part[d] # 4
    BY <1>2, QueriesFacts DEF t
  <2>3. (CASE t = "routes" /\ rows = {} -> "notFound"
           [] part[d] = 4 -> "found"
           [] OTHER -> "ask") = next(rows)
    BY <1>3, <2>2
  <2>4. reader' = [reader EXCEPT ![d] = next(rows)]
    BY <2>1, <2>3
  <2>5. Phase' = [Phase EXCEPT ![d] = next(rows)]
    BY <1>7, <2>4
  <2>6. rows \in SUBSET tables["routes"][route[d]] /\ rows = tables["routes"][route[d]]
    BY <1>4, <2>0
  <2>7. /\ seen' = [seen EXCEPT ![d][t] = rows]
        /\ rows = tables["routes"][route[d]] /\ UNCHANGED cut
    BY <2>1, <2>6
  <2>8. Atomic!Sample(d, t, rows)
    BY <1>3, <1>5, <1>6, <2>5, <2>7 DEF Atomic!Sample, Stored, Completed, Phase, Sampled
  <2> QED
    BY <1>3, <2>6, <2>8
<1>9. CASE CutRows(d)
  <2>1. PICK rows \in SUBSET tables[t][route[d]] : seen' = [seen EXCEPT ![d][t] = rows]
    BY <1>9 DEF CutRows, t
  <2>2. /\ t # "routes"
        /\ cut' = [cut EXCEPT ![d] = @ \cup {t}]
        /\ reader' = [reader EXCEPT ![d] = IF part[d] = 4 THEN "found" ELSE "ask"]
    BY <1>9, QueriesFacts DEF CutRows, t
  <2>3. reader' = [reader EXCEPT ![d] = next(rows)]
    BY <1>3, <2>2
  <2>4. Phase' = [Phase EXCEPT ![d] = next(rows)]
    BY <1>7, <2>3
  <2>5. rows \in SUBSET tables["routes"][route[d]]
    BY <1>4
  <2>6. Atomic!Sample(d, t, rows)
    BY <1>3, <1>5, <1>6, <2>1, <2>2, <2>4 DEF Atomic!Sample, Stored, Completed, Phase, Sampled
  <2> QED
    BY <1>3, <2>5, <2>6
<1> QED
  BY <1>8, <1>9

(* Calling, waiting and giving up.                                         *)
LEMMA ReadersStutter ==
    ASSUME RInv, NEW d \in Readers
    PROVE  /\ Find(d) => Atomic!Ask(d)
           /\ Acquire(d) => UNCHANGED Atomic!vars
           /\ FindFails(d) => Atomic!Fail(d)
<1>0. reader \in [Readers -> {"idle", "ask", "rows", "found", "notFound", "failed"}]
  BY DEF RInv, ReaderTypes
<1>1. ASSUME Find(d) \/ Acquire(d) \/ FindFails(d)
      PROVE  UNCHANGED <<tables["routes"], Stored, Completed, route, Sampled, seen, cut>>
  BY <1>1 DEF Find, Acquire, FindFails, dbVars, runVars, Stored, Completed, Sampled
<1>2. Find(d) => Phase[d] = "idle" /\ Phase' = [Phase EXCEPT ![d] = "ask"]
  BY <1>0 DEF Find, Phase
<1>3. Acquire(d) => Phase' = Phase
  BY <1>0 DEF Acquire, Phase
<1>4. FindFails(d) => Phase[d] = "ask" /\ Phase' = [Phase EXCEPT ![d] = "failed"]
  BY <1>0 DEF FindFails, Phase
<1>5. Find(d) => Atomic!Ask(d)
  BY <1>1, <1>2 DEF Atomic!Ask, Stored, Completed, Phase, Sampled
<1>6. Acquire(d) => UNCHANGED Atomic!vars
  BY <1>1, <1>3 DEF Atomic!vars, Stored, Completed, Phase, Sampled
<1>7. FindFails(d) => Atomic!Fail(d)
  BY <1>1, <1>4 DEF Atomic!Fail, Stored, Completed, Phase, Sampled
<1> QED
  BY <1>5, <1>6, <1>7

(* Each step of RouteStore is one of AtomicStore, or cannot be seen there. *)
LEMMA RunStepIsAtomic ==
    ASSUME IInv, PutOnce, NEW r \in Runs, RunStep(r)
    PROVE  [Atomic!Next]_(Atomic!vars)
<1>1. CASE Commit(r)
  <2>1. file[r] \in DOMAIN Files
    BY <1>1 DEF Commit, IInv, Storing
  <2> QED
    BY <1>1, <2>1, CommitIsPut DEF Atomic!Next
<1>2. CASE Complete(r)
  BY <1>2, CompleteIsComplete DEF Atomic!Next
<1>3. CASE Start(r) \/ SendBatch(r) \/ StoreReturns(r) \/ Die(r) \/ Statement(r) \/ Abort(r)
  BY <1>3, RunStutters
<1> QED
  BY <1>1, <1>2, <1>3 DEF RunStep

LEMMA AtomicStep ==
    ASSUME IInv, RInv, PutOnce, [Next]_vars
    PROVE  [Atomic!Next]_(Atomic!vars)
<1>1. ASSUME NEW r \in Runs, RunStep(r) PROVE [Atomic!Next]_(Atomic!vars)
  BY <1>1, RunStepIsAtomic
<1>2. ASSUME NEW d \in Readers, ReadStep(d) PROVE [Atomic!Next]_(Atomic!vars)
  <2>1. CASE Rows(d) \/ CutRows(d)
    BY <2>1, RowsAreSamples DEF Atomic!Next
  <2>2. CASE Find(d) \/ Acquire(d) \/ FindFails(d)
    BY <2>2, ReadersStutter DEF Atomic!Next
  <2> QED
    BY <1>2, <2>1, <2>2 DEF ReadStep
<1>3. ASSUME UNCHANGED vars PROVE UNCHANGED Atomic!vars
  BY <1>3 DEF vars, Atomic!vars
<1> QED
  BY <1>1, <1>2, <1>3 DEF Next

LEMMA InitIsAtomic == Init => Atomic!Init
<1> SUFFICES ASSUME Init PROVE Atomic!Init
  OBVIOUS
<1>1. Ids = Atomic!Ids
  BY DEF Ids, ToSet, Atomic!Ids
<1>2. Stored = {}
  <2>1. DOMAIN <<>> = {}
    OBVIOUS
  <2>2. \A id \in Ids : ToSet(log[id]) = {}
    BY <2>1 DEF Init, ToSet
  <2> QED
    BY <2>2 DEF Stored
<1>3. Completed = {} /\ Phase = [d \in Readers |-> "idle"]
  BY DEF Init, Completed, Phase
<1>4. Sampled = [d \in Readers |-> {}]
  <2>1. 1..1 - 1 = {}
    OBVIOUS
  <2> QED
    BY <2>1 DEF Init, Sampled
<1>5. tables["routes"] = [id \in Ids |-> {}]
  BY DEF Init, Tables
<1>6. /\ seen = [d \in Readers |-> [p \in Tables |-> {}]]
      /\ cut = [d \in Readers |-> {}]
      /\ route \in [Readers -> Ids]
  BY DEF Init
<1> QED
  BY <1>1, <1>2, <1>3, <1>4, <1>5, <1>6 DEF Atomic!Init, Stored, Completed, Phase, Sampled

(* RouteStore implements AtomicStore: four tables, batches of statements,  *)
(* aborted, orphaned and overlapping transactions and a pool of            *)
(* connections are, to imports and readers, one register for each route.   *)
THEOREM StoreImplementsRegister == Spec => StoreIsARegister
BY InitIsAtomic, AtomicStep, Invariance, ReadsInvariance, StoresHappenOnce, PTL
   DEF Spec, StoreIsARegister, Atomic!Spec

=============================================================================
