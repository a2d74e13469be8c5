----------------------- MODULE SqliteMigrationProofs -----------------------
(***************************************************************************)
(* Proofs about SqliteMigration, for any number of runs and any contents   *)
(* of PostgreSQL.  CREATE TABLE without IF NOT EXISTS is the only thing    *)
(* that keeps two runs from writing to one file; all three properties rest *)
(* on it.                                                                  *)
(***************************************************************************)
EXTENDS SqliteMigration, TLAPS

(* Stages of a run whose CREATE TABLE has succeeded, and of one that has   *)
(* all its routes in the file.                                             *)
Writing == {"creating", "routes", "nearby", "images", "details", "validate", "passed"}
HasRoutes == {"nearby", "images", "details", "validate", "passed"}

(* A file belongs to the one run that created its first table.             *)
OneOwner ==
    /\ \A r, s \in Runs : (at[r] \in Writing /\ at[s] \in Writing) => r = s
    /\ \A t \in ToSet(Tables) : \A w \in file[t] :
          \A r \in Runs : at[r] \in Writing => w.by = r
    /\ schema = "none" => /\ \A t \in ToSet(Tables) : file[t] = {}
                          /\ \A r \in Runs : at[r] \notin Writing

(* What it has copied of the routes it has been given.                     *)
CopiesItsRoutes ==
    \A r \in Runs :
        /\ at[r] = "creating" => file["routes"] = {}
        /\ at[r] \in {"creating", "routes"} => \A t \in Children : file[t] = {}
        /\ at[r] = "routes" => RoutesIn \cup todo[r] = taken[r]
        /\ at[r] \in HasRoutes => RoutesIn = taken[r]

IInv ==
    /\ TypeOK
    /\ OneOwner
    /\ OneWriter
    /\ CopiesItsRoutes
    /\ RoutesComeFirst

-----------------------------------------------------------------------------
(* The tables, spelled out.                                                *)
LEMMA TableFacts ==
    /\ ToSet(Tables) = {"routes", "nearby", "images", "details"}
    /\ Children = {"nearby", "images", "details"}
BY DEF Tables, ToSet, Children

(* The rows of a table of the source are rows.                             *)
LEMMA SourceRows ==
    ASSUME TypeOK, NEW t \in ToSet(Tables)
    PROVE  source[t] \subseteq Rows
BY DEF TypeOK, Rows

(* Going on to another stage keeps the types.                              *)
LEMMA GoToTypes ==
    ASSUME TypeOK, NEW r \in Runs, NEW stage \in Stages, GoTo(r, stage)
    PROVE  /\ at' \in [Runs -> Stages]
           /\ todo' \in [Runs -> SUBSET Rows]
           /\ \A s \in Runs : todo'[s] \subseteq RowsAt(at'[s])
<1>1. stage \in Children => source[stage] \subseteq Rows
  BY SourceRows, TableFacts
<1>2. at' \in [Runs -> Stages] /\ todo' \in [Runs -> SUBSET Rows]
  BY <1>1 DEF GoTo, TypeOK
<1>3. ASSUME NEW s \in Runs
      PROVE  todo'[s] \subseteq RowsAt(at'[s])
  <2>1. CASE s = r
    BY <2>1, TableFacts DEF GoTo, TypeOK, RowsAt
  <2>2. CASE s # r
    BY <2>2 DEF GoTo, TypeOK
  <2> QED
    BY <2>1, <2>2
<1> QED
  BY <1>2, <1>3

(* A step of r that moves no row and no table, and takes r to another      *)
(* stage: to one with the same duties, or to one without any.              *)
LEMMA MoveOn ==
    ASSUME IInv, NEW r \in Runs, NEW stage \in Stages, GoTo(r, stage),
           UNCHANGED <<source, schema, file, taken, count>>,
           stage \in Writing => at[r] \in Writing,
           stage \notin {"creating", "routes"},
           stage \in HasRoutes => RoutesIn = taken[r]
    PROVE  IInv'
<1>1. TypeOK'
  BY GoToTypes DEF IInv, TypeOK, RowsAt
<1>2. /\ at'[r] = stage
      /\ \A s \in Runs : s # r => at'[s] = at[s] /\ todo'[s] = todo[s]
  BY DEF GoTo, IInv, TypeOK
<1>3. \A s \in Runs : at'[s] \in Writing => at[s] \in Writing
  BY <1>2
<1>4. OneOwner'
  BY <1>3 DEF IInv, OneOwner
<1>5. RoutesIn' = RoutesIn
  BY DEF RoutesIn
<1>6. ASSUME NEW s \in Runs
      PROVE  /\ at'[s] = "creating" => file'["routes"] = {}
             /\ at'[s] \in {"creating", "routes"} => \A t \in Children : file'[t] = {}
             /\ at'[s] = "routes" => RoutesIn' \cup todo'[s] = taken'[s]
             /\ at'[s] \in HasRoutes => RoutesIn' = taken'[s]
  <2>1. CASE s = r
    BY <1>2, <1>5, <2>1
  <2>2. CASE s # r
    BY <1>2, <1>5, <2>2 DEF IInv, CopiesItsRoutes
  <2> QED
    BY <2>1, <2>2
<1>7. CopiesItsRoutes'
  BY <1>6 DEF CopiesItsRoutes
<1>8. OneWriter' /\ RoutesComeFirst'
  BY <1>5 DEF IInv, OneWriter, RoutesComeFirst
<1> QED
  BY <1>1, <1>4, <1>7, <1>8 DEF IInv

LEMMA CheckSourceIInv ==
    ASSUME IInv, NEW r \in Runs, CheckSource(r)
    PROVE  IInv'
<1>1. PICK stage \in {"failed", "setup"} : GoTo(r, stage)
  BY DEF CheckSource
<1> QED
  BY <1>1, MoveOn DEF CheckSource, Stages, Ended, Writing, HasRoutes

(* CREATE TABLE routes succeeds on an empty file only.                     *)
LEMMA CreateRoutesIInv ==
    ASSUME IInv, NEW r \in Runs, CreateRoutes(r)
    PROVE  IInv'
<1>1. CASE schema # "none"
  <2>1. GoTo(r, "failed") /\ UNCHANGED <<source, schema, file, taken, count>>
    BY <1>1 DEF CreateRoutes
  <2> QED
    BY <2>1, MoveOn DEF Stages, Ended, Writing, HasRoutes
<1>2. CASE schema = "none"
  <2>1. /\ schema' = "partial" /\ GoTo(r, "creating")
        /\ UNCHANGED <<source, file, taken, count>>
    BY <1>2 DEF CreateRoutes
  <2>2. TypeOK'
    <3>1. /\ at' \in [Runs -> Stages] /\ todo' \in [Runs -> SUBSET Rows]
          /\ \A s \in Runs : todo'[s] \subseteq RowsAt(at'[s])
      BY <2>1, GoToTypes DEF IInv, Stages
    <3> QED
      BY <2>1, <3>1 DEF IInv, TypeOK, RowsAt
  <2>3. /\ at'[r] = "creating"
        /\ \A s \in Runs : s # r => at'[s] = at[s]
    BY <2>1 DEF GoTo, IInv, TypeOK
  <2>4. /\ \A t \in ToSet(Tables) : file[t] = {}
        /\ \A s \in Runs : at[s] \notin Writing
    BY <1>2 DEF IInv, OneOwner
  <2>5. OneOwner'
    BY <2>1, <2>3, <2>4 DEF OneOwner
  <2>6. OneWriter' /\ RoutesComeFirst'
    BY <2>1, <2>4, TableFacts DEF OneWriter, RoutesComeFirst
  <2>7. \A s \in Runs : s # r => at'[s] \notin {"creating", "routes"} \cup HasRoutes
    BY <2>3, <2>4 DEF Writing, HasRoutes
  <2>8. CopiesItsRoutes'
    BY <2>1, <2>3, <2>4, <2>7, TableFacts DEF CopiesItsRoutes, HasRoutes
  <2> QED
    BY <2>2, <2>5, <2>6, <2>8 DEF IInv
<1> QED
  BY <1>1, <1>2

(* The query for routes is asked with nothing in the file yet.             *)
LEMMA CreateRestIInv ==
    ASSUME IInv, NEW r \in Runs, CreateRest(r)
    PROVE  IInv'
<1>1. PICK rows \in SUBSET source["routes"] :
          /\ taken' = [taken EXCEPT ![r] = rows]
          /\ todo' = [todo EXCEPT ![r] = rows]
  BY DEF CreateRest, QueryRoutes, kSubset
<1>2. /\ at[r] = "creating"
      /\ schema' = "full"
      /\ at' = [at EXCEPT ![r] = "routes"]
      /\ UNCHANGED <<source, file, count>>
  BY DEF CreateRest
<1>3. rows \subseteq Rows
  BY <1>1, SourceRows, TableFacts DEF IInv
<1>4. TypeOK'
  <2>1. \A s \in Runs : todo'[s] \subseteq RowsAt(at'[s])
    BY <1>1, <1>2, TableFacts DEF IInv, TypeOK, RowsAt
  <2> QED
    BY <1>1, <1>2, <1>3, <2>1, TableFacts DEF IInv, TypeOK, Stages, RowsAt
<1>5. /\ at'[r] = "routes" /\ todo'[r] = rows /\ taken'[r] = rows
      /\ \A s \in Runs : s # r => at'[s] = at[s]
  BY <1>1, <1>2 DEF IInv, TypeOK
<1>6. /\ \A t \in ToSet(Tables) : file'[t] = {}
      /\ \A s \in Runs : s # r => at'[s] \notin Writing
  BY <1>2, <1>5, TableFacts DEF IInv, CopiesItsRoutes, OneOwner, Writing
<1>7. OneOwner' /\ OneWriter' /\ RoutesComeFirst'
  BY <1>2, <1>6, TableFacts DEF OneOwner, OneWriter, RoutesComeFirst
<1>8. RoutesIn' = {}
  BY <1>6, TableFacts DEF RoutesIn
<1>9. CopiesItsRoutes'
  BY <1>5, <1>6, <1>8, TableFacts DEF CopiesItsRoutes, Writing, HasRoutes
<1> QED
  BY <1>4, <1>7, <1>9 DEF IInv

-----------------------------------------------------------------------------
(* A row is added by the run that owns the file.                           *)
LEMMA CopyRowIInv ==
    ASSUME IInv, NEW r \in Runs, NEW row \in todo[r], CopyRow(r, row)
    PROVE  IInv'
<1> DEFINE t == at[r]
           new == [by |-> r, row |-> row]
<1>1. /\ t \in ToSet(Tables)
      /\ file' = [file EXCEPT ![t] = @ \cup {new}]
      /\ todo' = [todo EXCEPT ![r] = @ \ {row}]
      /\ count' = [count EXCEPT ![r] = @ + IF t = "routes" THEN 1 ELSE 0]
      /\ UNCHANGED <<source, schema, at, taken>>
  BY DEF CopyRow
<1>2. row \in Rows
  BY DEF IInv, TypeOK
<1>3. TypeOK'
  <2>1. file' \in [ToSet(Tables) -> SUBSET [by : Runs, row : Rows]]
    BY <1>1, <1>2 DEF IInv, TypeOK
  <2>2. todo' \in [Runs -> SUBSET Rows] /\ count' \in [Runs -> Nat]
    BY <1>1 DEF IInv, TypeOK
  <2>3. row \in source[t]
    BY <1>1 DEF IInv, TypeOK, RowsAt
  <2>4. \A u \in ToSet(Tables) : \A w \in file'[u] : w.row \in source[u]
    BY <1>1, <2>3 DEF IInv, TypeOK
  <2>5. \A s \in Runs : todo'[s] \subseteq RowsAt(at[s])
    BY <1>1 DEF IInv, TypeOK
  <2> QED
    BY <1>1, <2>1, <2>2, <2>4, <2>5 DEF IInv, TypeOK, RowsAt
<1>4. at[r] \in Writing
  BY <1>1, TableFacts DEF Writing
<1>5. /\ file'[t] = file[t] \cup {new}
      /\ \A u \in ToSet(Tables) : u # t => file'[u] = file[u]
  BY <1>1 DEF IInv, TypeOK
<1>6. \A u \in ToSet(Tables) : \A w \in file'[u] : w.by = r
  BY <1>4, <1>5 DEF IInv, OneOwner
<1>7. OneWriter'
  BY <1>6 DEF OneWriter
<1>8. OneOwner'
  BY <1>1, <1>4, <1>6 DEF IInv, OneOwner
<1>9. \A s \in Runs : s # r => at[s] \notin Writing
  BY <1>4 DEF IInv, OneOwner
<1>10. CASE t = "routes"
  <2>1. RoutesIn' = RoutesIn \cup {row}
    <3>1. file'["routes"] = file["routes"] \cup {new}
      BY <1>5, <1>10
    <3>2. \A S, w : {v.row : v \in S \cup {w}} = {v.row : v \in S} \cup {w.row}
      OBVIOUS
    <3>3. RoutesIn' = {v.row : v \in file["routes"] \cup {new}}
      BY <3>1 DEF RoutesIn
    <3> QED
      BY <3>2, <3>3 DEF RoutesIn
  <2>2. \A u \in Children : file'[u] = {}
    <3>1. \A u \in Children : file[u] = {}
      BY <1>10 DEF IInv, CopiesItsRoutes
    <3>2. \A u \in Children : u \in ToSet(Tables) /\ u # t
      BY <1>10, TableFacts
    <3> QED
      BY <1>5, <3>1, <3>2
  <2>3. todo'[r] = todo[r] \ {row}
    BY <1>1 DEF IInv, TypeOK
  <2>4. RoutesIn' \cup todo'[r] = taken'[r]
    BY <1>1, <1>10, <2>1, <2>3 DEF IInv, CopiesItsRoutes
  <2>5. CopiesItsRoutes'
    BY <1>1, <1>9, <1>10, <2>2, <2>4 DEF CopiesItsRoutes, Writing, HasRoutes
  <2>6. RoutesComeFirst'
    BY <2>2 DEF RoutesComeFirst
  <2> QED
    BY <1>3, <1>7, <1>8, <2>5, <2>6 DEF IInv
<1>11. CASE t # "routes"
  <2>1. file'["routes"] = file["routes"]
    BY <1>5, <1>11, TableFacts
  <2>2. RoutesIn' = RoutesIn
    BY <2>1 DEF RoutesIn
  <2>3. at[r] \in HasRoutes
    BY <1>1, <1>11, TableFacts DEF HasRoutes
  <2>4. RoutesIn' = taken'[r]
    BY <1>1, <2>2, <2>3 DEF IInv, CopiesItsRoutes
  <2>5. CopiesItsRoutes'
    BY <1>1, <1>9, <1>11, <2>3, <2>4 DEF CopiesItsRoutes, Writing, HasRoutes
  <2>6. RoutesComeFirst'
    BY <1>6, <2>4, TableFacts DEF RoutesComeFirst
  <2> QED
    BY <1>3, <1>7, <1>8, <2>5, <2>6 DEF IInv
<1> QED
  BY <1>10, <1>11

(* After the last row of routes all of them are there; a table that ends   *)
(* or fails later leaves them alone.                                       *)
LEMMA NextTableIInv ==
    ASSUME IInv, NEW r \in Runs, TableEnds(r) \/ TableFails(r)
    PROVE  IInv'
<1>1. at[r] \in {"routes", "nearby", "images", "details"}
  BY TableFacts DEF TableEnds, TableFails
<1>2. at[r] \in HasRoutes => RoutesIn = taken[r]
  BY DEF IInv, CopiesItsRoutes
<1>3. TableEnds(r) => RoutesIn = taken[r]
  BY <1>1, <1>2 DEF TableEnds, IInv, CopiesItsRoutes, HasRoutes
<1>4. UNCHANGED <<source, schema, file, taken, count>>
  BY DEF TableEnds, TableFails
<1>5. at[r] \in Writing
  BY <1>1 DEF Writing
<1>6. After[at[r]] \in {"nearby", "images", "details", "validate"}
  BY <1>1 DEF After
<1>7. PICK stage \in {"nearby", "images", "details", "validate", "failed"} :
          /\ GoTo(r, stage)
          /\ stage # "failed" => RoutesIn = taken[r]
  <2>1. CASE TableEnds(r)
    BY <1>3, <1>6, <2>1 DEF TableEnds
  <2>2. CASE TableFails(r)
    BY <1>1, <1>2, <1>6, <2>2 DEF TableFails, HasRoutes
  <2> QED
    BY <2>1, <2>2
<1>8. stage \in Stages /\ stage \notin {"creating", "routes"}
  BY <1>7, TableFacts DEF Stages, Ended
<1>9. stage \in HasRoutes => RoutesIn = taken[r]
  BY <1>7 DEF HasRoutes
<1> QED
  BY <1>4, <1>5, <1>7, <1>8, <1>9, MoveOn

LEMMA EndIInv ==
    ASSUME IInv, NEW r \in Runs, Validate(r) \/ Die(r)
    PROVE  IInv'
<1>1. UNCHANGED <<source, schema, file, taken, count>>
  BY DEF Validate, Die
<1>2. PICK stage \in {"passed", "failed"} :
          /\ GoTo(r, stage)
          /\ stage = "passed" => at[r] = "validate"
  BY DEF Validate, Die
<1>3. stage \in Stages /\ stage \notin {"creating", "routes"}
  BY <1>2 DEF Stages, Ended
<1>4. stage \in Writing => at[r] \in Writing
  BY <1>2 DEF Writing
<1>5. stage \in HasRoutes => RoutesIn = taken[r]
  BY <1>2 DEF HasRoutes, IInv, CopiesItsRoutes
<1> QED
  BY <1>1, <1>2, <1>3, <1>4, <1>5, MoveOn

(* The next run finds no file.                                             *)
LEMMA MoveAwayIInv ==
    ASSUME IInv, MoveAway
    PROVE  IInv'
<1>1. /\ schema' = "none" /\ file' = EmptyFile
      /\ \A r \in Runs : at'[r] \in {"new", "past"}
      /\ at' \in [Runs -> {"new", "past"}]
      /\ UNCHANGED <<source, todo, taken, count>>
  BY DEF MoveAway
<1>2. TypeOK'
  <2>1. \A r \in Runs : todo[r] = {}
    BY TableFacts DEF MoveAway, IInv, TypeOK, RowsAt, Ended
  <2> QED
    BY <1>1, <2>1, TableFacts DEF IInv, TypeOK, EmptyFile, Stages, Ended
<1>3. \A t \in ToSet(Tables) : file'[t] = {}
  BY <1>1 DEF EmptyFile
<1>4. OneOwner' /\ OneWriter' /\ RoutesComeFirst'
  BY <1>1, <1>3, TableFacts DEF OneOwner, OneWriter, RoutesComeFirst, Writing
<1>5. CopiesItsRoutes'
  BY <1>1 DEF CopiesItsRoutes, HasRoutes
<1> QED
  BY <1>2, <1>4, <1>5 DEF IInv

-----------------------------------------------------------------------------
(* The invariant: whoever creates the first table is alone with the file.  *)
THEOREM Invariance == Spec => []IInv
<1>1. Init => IInv
  <2> SUFFICES ASSUME Init PROVE IInv
    OBVIOUS
  <2>1. \A t \in ToSet(Tables) : file[t] = {}
    BY DEF Init, EmptyFile
  <2>2. TypeOK
    BY DEF Init, TypeOK, EmptyFile, Stages, RowsAt
  <2>3. OneOwner /\ OneWriter /\ RoutesComeFirst
    BY <2>1, TableFacts DEF Init, OneOwner, OneWriter, RoutesComeFirst, Writing
  <2>4. CopiesItsRoutes
    BY DEF Init, CopiesItsRoutes, HasRoutes
  <2> QED
    BY <2>2, <2>3, <2>4 DEF IInv
<1>2. IInv /\ [Next]_vars => IInv'
  <2> SUFFICES ASSUME IInv, [Next]_vars PROVE IInv'
    OBVIOUS
  <2>1. CASE UNCHANGED vars
    <3>1. TypeOK'
      BY <2>1 DEF vars, IInv, TypeOK, RowsAt
    <3>2. OneOwner' /\ OneWriter'
      BY <2>1 DEF vars, IInv, OneOwner, OneWriter
    <3>3. CopiesItsRoutes' /\ RoutesComeFirst'
      BY <2>1 DEF vars, IInv, CopiesItsRoutes, RoutesComeFirst, RoutesIn
    <3> QED
      BY <3>1, <3>2, <3>3 DEF IInv
  <2> QED
    BY <2>1, CheckSourceIInv, CreateRoutesIInv, CreateRestIInv, CopyRowIInv, NextTableIInv,
       EndIInv, MoveAwayIInv DEF Next
<1> QED
  BY <1>1, <1>2, PTL DEF Spec

(* The variables keep their types: a run has rows to copy only while it is *)
(* at a table, and no table of the file has a row that PostgreSQL has not  *)
(* in the same table, whichever runs fail and go on to the next table.     *)
THEOREM TypeCorrect == Spec => []TypeOK
BY Invariance, PTL DEF IInv

(* OneWriter: the rows of a file are of one run, however many runs overlap *)
(* or are repeated, and wherever they die.                                 *)
THEOREM FilesHaveOneWriter == Spec => []OneWriter
BY Invariance, PTL DEF IInv

(* RoutesComeFirst: nearby, images and details are written only beside all *)
(* the routes of their run.                                                *)
THEOREM RoutesAreFirst == Spec => []RoutesComeFirst
BY Invariance, PTL DEF IInv

(* PassedHasItsRoutes: a run that passes has copied what its query         *)
(* returned.                                                               *)
THEOREM PassedIsWhole == Spec => []PassedHasItsRoutes
<1>1. IInv => PassedHasItsRoutes
  BY DEF IInv, CopiesItsRoutes, HasRoutes, PassedHasItsRoutes
<1> QED
  BY <1>1, Invariance, PTL

=============================================================================
