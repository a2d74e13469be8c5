------------------------ MODULE SchemaMigrationProofs -----------------------
(***************************************************************************)
(* Proofs about SchemaMigration, for any number of processes of either     *)
(* direction.  What a clean version says can be relied on because only the *)
(* session with the lock changes anything, and because between the two     *)
(* versions it writes the row is dirty; a session whose process has died   *)
(* keeps the lock until it has done the last thing it was sent.            *)
(***************************************************************************)
EXTENDS SchemaMigration, TLAPS

(* What a session that works on the schema may count on.                   *)
Owner(m) == stage[m] \in Locked => lock = m
BeforeMark(m) == stage[m] = "mark" => /\ ~row.dirty
                                      /\ row.version # Target(m)
BeforeScript(m) == stage[m] = "run" => /\ row.dirty
                                       /\ row.version = Target(m)
                                       /\ schema = "up" <=> m \in Down
BeforeClean(m) == stage[m] = "clean" => /\ row.dirty
                                        /\ row.version = Target(m)
                                        /\ m \notin Down
                                        /\ schema = "up"

MigrationIInv ==
    /\ MigrationTypeOK
    /\ \A m \in Migrators : Owner(m) /\ BeforeMark(m) /\ BeforeScript(m) /\ BeforeClean(m)
    /\ CleanVersionIsTrue

-----------------------------------------------------------------------------
LEMMA InitIInv == MigrationInit => MigrationIInv
BY NoMigratorAssumption
   DEF MigrationInit, MigrationIInv, MigrationTypeOK, Owner, BeforeMark, BeforeScript, BeforeClean,
       CleanVersionIsTrue, Stages, Working, Locked, Succeeded, NoVersion

(* Steps that only move a process along: the lock is free, or is not       *)
(* looked at.                                                              *)
LEMMA ConnectIInv ==
    ASSUME MigrationIInv, NEW m \in Migrators, Connect(m)
    PROVE  MigrationIInv'
<1>1. MigrationTypeOK'
  BY NoMigratorAssumption
     DEF MigrationIInv, MigrationTypeOK, Connect, Goes, Target, NoVersion, Stages,
         Working, Locked, Succeeded
<1>2. ASSUME NEW n \in Migrators
      PROVE  (Owner(n) /\ BeforeMark(n) /\ BeforeScript(n) /\ BeforeClean(n))'
  BY NoMigratorAssumption
     DEF MigrationIInv, MigrationTypeOK, CleanVersionIsTrue, Owner, BeforeMark,
         BeforeScript, BeforeClean, Connect, Goes, Target, NoVersion, Stages,
         Working, Locked, Succeeded
<1>3. CleanVersionIsTrue'
  BY DEF MigrationIInv, MigrationTypeOK, CleanVersionIsTrue, BeforeMark, BeforeScript,
         BeforeClean, Connect, Goes, Target, NoVersion
<1> QED
  BY <1>1, <1>2, <1>3 DEF MigrationIInv

LEMMA ConnectFailsIInv ==
    ASSUME MigrationIInv, NEW m \in Migrators, ConnectFails(m)
    PROVE  MigrationIInv'
<1>1. MigrationTypeOK'
  BY NoMigratorAssumption
     DEF MigrationIInv, MigrationTypeOK, ConnectFails, Goes, Target, NoVersion, Stages,
         Working, Locked, Succeeded
<1>2. ASSUME NEW n \in Migrators
      PROVE  (Owner(n) /\ BeforeMark(n) /\ BeforeScript(n) /\ BeforeClean(n))'
  BY NoMigratorAssumption
     DEF MigrationIInv, MigrationTypeOK, CleanVersionIsTrue, Owner, BeforeMark,
         BeforeScript, BeforeClean, ConnectFails, Goes, Target, NoVersion,
         Stages, Working, Locked, Succeeded
<1>3. CleanVersionIsTrue'
  BY DEF MigrationIInv, MigrationTypeOK, CleanVersionIsTrue, BeforeMark, BeforeScript,
         BeforeClean, ConnectFails, Goes, Target, NoVersion
<1> QED
  BY <1>1, <1>2, <1>3 DEF MigrationIInv

LEMMA LockTimesOutIInv ==
    ASSUME MigrationIInv, NEW m \in Migrators, LockTimesOut(m)
    PROVE  MigrationIInv'
<1>1. MigrationTypeOK'
  BY NoMigratorAssumption
     DEF MigrationIInv, MigrationTypeOK, LockTimesOut, Goes, Target, NoVersion, Stages,
         Working, Locked, Succeeded
<1>2. ASSUME NEW n \in Migrators
      PROVE  (Owner(n) /\ BeforeMark(n) /\ BeforeScript(n) /\ BeforeClean(n))'
  BY NoMigratorAssumption
     DEF MigrationIInv, MigrationTypeOK, CleanVersionIsTrue, Owner, BeforeMark,
         BeforeScript, BeforeClean, LockTimesOut, Goes, Target, NoVersion,
         Stages, Working, Locked, Succeeded
<1>3. CleanVersionIsTrue'
  BY DEF MigrationIInv, MigrationTypeOK, CleanVersionIsTrue, BeforeMark, BeforeScript,
         BeforeClean, LockTimesOut, Goes, Target, NoVersion
<1> QED
  BY <1>1, <1>2, <1>3 DEF MigrationIInv

LEMMA RefuseIInv ==
    ASSUME MigrationIInv, NEW m \in Migrators, Refuse(m)
    PROVE  MigrationIInv'
<1>1. MigrationTypeOK'
  BY NoMigratorAssumption
     DEF MigrationIInv, MigrationTypeOK, Refuse, Goes, Target, NoVersion, Stages,
         Working, Locked, Succeeded
<1>2. ASSUME NEW n \in Migrators
      PROVE  (Owner(n) /\ BeforeMark(n) /\ BeforeScript(n) /\ BeforeClean(n))'
  BY NoMigratorAssumption
     DEF MigrationIInv, MigrationTypeOK, CleanVersionIsTrue, Owner, BeforeMark,
         BeforeScript, BeforeClean, Refuse, Goes, Target, NoVersion, Stages,
         Working, Locked, Succeeded
<1>3. CleanVersionIsTrue'
  BY DEF MigrationIInv, MigrationTypeOK, CleanVersionIsTrue, BeforeMark, BeforeScript,
         BeforeClean, Refuse, Goes, Target, NoVersion
<1> QED
  BY <1>1, <1>2, <1>3 DEF MigrationIInv

LEMMA NoChangeIInv ==
    ASSUME MigrationIInv, NEW m \in Migrators, NoChange(m)
    PROVE  MigrationIInv'
<1>1. MigrationTypeOK'
  BY NoMigratorAssumption
     DEF MigrationIInv, MigrationTypeOK, NoChange, Goes, Target, NoVersion, Stages,
         Working, Locked, Succeeded
<1>2. ASSUME NEW n \in Migrators
      PROVE  (Owner(n) /\ BeforeMark(n) /\ BeforeScript(n) /\ BeforeClean(n))'
  BY NoMigratorAssumption
     DEF MigrationIInv, MigrationTypeOK, CleanVersionIsTrue, Owner, BeforeMark,
         BeforeScript, BeforeClean, NoChange, Goes, Target, NoVersion, Stages,
         Working, Locked, Succeeded
<1>3. CleanVersionIsTrue'
  BY DEF MigrationIInv, MigrationTypeOK, CleanVersionIsTrue, BeforeMark, BeforeScript,
         BeforeClean, NoChange, Goes, Target, NoVersion
<1> QED
  BY <1>1, <1>2, <1>3 DEF MigrationIInv

(* The lock is taken only after the row has been read, but both happen     *)
(* while nobody else has it.                                               *)
LEMMA ChangeIInv ==
    ASSUME MigrationIInv, NEW m \in Migrators, Change(m)
    PROVE  MigrationIInv'
<1>1. MigrationTypeOK'
  BY NoMigratorAssumption
     DEF MigrationIInv, MigrationTypeOK, Change, Goes, Target, NoVersion, Stages,
         Working, Locked, Succeeded
<1>2. ASSUME NEW n \in Migrators
      PROVE  (Owner(n) /\ BeforeMark(n) /\ BeforeScript(n) /\ BeforeClean(n))'
  BY NoMigratorAssumption
     DEF MigrationIInv, MigrationTypeOK, CleanVersionIsTrue, Owner, BeforeMark,
         BeforeScript, BeforeClean, Change, Goes, Target, NoVersion, Stages,
         Working, Locked, Succeeded
<1>3. CleanVersionIsTrue'
  BY DEF MigrationIInv, MigrationTypeOK, CleanVersionIsTrue, BeforeMark, BeforeScript,
         BeforeClean, Change, Goes, Target, NoVersion
<1> QED
  BY <1>1, <1>2, <1>3 DEF MigrationIInv

(* What the row said when it was clean decides what the script finds.      *)
LEMMA MarkDirtyIInv ==
    ASSUME MigrationIInv, NEW m \in Migrators, MarkDirty(m)
    PROVE  MigrationIInv'
<1>1. MigrationTypeOK'
  BY NoMigratorAssumption
     DEF MigrationIInv, MigrationTypeOK, MarkDirty, Goes, MarksDirty, Target,
         NoVersion, Stages, Working, Locked, Succeeded
<1>2. ASSUME NEW n \in Migrators
      PROVE  (Owner(n) /\ BeforeMark(n) /\ BeforeScript(n) /\ BeforeClean(n))'
  BY NoMigratorAssumption
     DEF MigrationIInv, MigrationTypeOK, CleanVersionIsTrue, Owner, BeforeMark,
         BeforeScript, BeforeClean, MarkDirty, Goes, MarksDirty, Target,
         NoVersion, Stages, Working, Locked, Succeeded
<1>3. CleanVersionIsTrue'
  BY DEF MigrationIInv, MigrationTypeOK, CleanVersionIsTrue, BeforeMark, BeforeScript,
         BeforeClean, MarkDirty, Goes, MarksDirty, Target, NoVersion
<1> QED
  BY <1>1, <1>2, <1>3 DEF MigrationIInv

(* Only up can create the tables; the row is dirty and stays so.           *)
LEMMA RunScriptIInv ==
    ASSUME MigrationIInv, NEW m \in Migrators, RunScript(m)
    PROVE  MigrationIInv'
<1>1. MigrationTypeOK'
  BY NoMigratorAssumption
     DEF MigrationIInv, MigrationTypeOK, RunScript, Goes, CreatesTables, Target,
         NoVersion, Stages, Working, Locked, Succeeded
<1>2. ASSUME NEW n \in Migrators
      PROVE  (Owner(n) /\ BeforeMark(n) /\ BeforeScript(n) /\ BeforeClean(n))'
  BY NoMigratorAssumption
     DEF MigrationIInv, MigrationTypeOK, CleanVersionIsTrue, Owner, BeforeMark,
         BeforeScript, BeforeClean, RunScript, Goes, CreatesTables, Target,
         NoVersion, Stages, Working, Locked, Succeeded
<1>3. CleanVersionIsTrue'
  BY DEF MigrationIInv, MigrationTypeOK, CleanVersionIsTrue, BeforeMark, BeforeScript,
         BeforeClean, RunScript, Goes, CreatesTables, Target, NoVersion
<1> QED
  BY <1>1, <1>2, <1>3 DEF MigrationIInv

LEMMA ScriptFailsIInv ==
    ASSUME MigrationIInv, NEW m \in Migrators, ScriptFails(m)
    PROVE  MigrationIInv'
<1>1. MigrationTypeOK'
  BY NoMigratorAssumption
     DEF MigrationIInv, MigrationTypeOK, ScriptFails, Goes, Released, Target,
         NoVersion, Stages, Working, Locked, Succeeded
<1>2. ASSUME NEW n \in Migrators
      PROVE  (Owner(n) /\ BeforeMark(n) /\ BeforeScript(n) /\ BeforeClean(n))'
  BY NoMigratorAssumption
     DEF MigrationIInv, MigrationTypeOK, CleanVersionIsTrue, Owner, BeforeMark,
         BeforeScript, BeforeClean, ScriptFails, Goes, Released, Target,
         NoVersion, Stages, Working, Locked, Succeeded
<1>3. CleanVersionIsTrue'
  BY DEF MigrationIInv, MigrationTypeOK, CleanVersionIsTrue, BeforeMark, BeforeScript,
         BeforeClean, ScriptFails, Goes, Released, Target, NoVersion
<1> QED
  BY <1>1, <1>2, <1>3 DEF MigrationIInv

(* The row becomes clean again when the tables are there.                  *)
LEMMA MarkCleanIInv ==
    ASSUME MigrationIInv, NEW m \in Migrators, MarkClean(m)
    PROVE  MigrationIInv'
<1>1. MigrationTypeOK'
  BY NoMigratorAssumption
     DEF MigrationIInv, MigrationTypeOK, MarkClean, Goes, MarksClean, Released, Target,
         NoVersion, Stages, Working, Locked, Succeeded
<1>2. ASSUME NEW n \in Migrators
      PROVE  (Owner(n) /\ BeforeMark(n) /\ BeforeScript(n) /\ BeforeClean(n))'
  BY NoMigratorAssumption
     DEF MigrationIInv, MigrationTypeOK, CleanVersionIsTrue, Owner, BeforeMark,
         BeforeScript, BeforeClean, MarkClean, Goes, MarksClean, Released,
         Target, NoVersion, Stages, Working, Locked, Succeeded
<1>3. CleanVersionIsTrue'
  BY DEF MigrationIInv, MigrationTypeOK, CleanVersionIsTrue, BeforeMark, BeforeScript,
         BeforeClean, MarkClean, Goes, MarksClean, Released, Target, NoVersion
<1> QED
  BY <1>1, <1>2, <1>3 DEF MigrationIInv

(* A death changes nothing yet: the session keeps its place and its lock.  *)
LEMMA MigratorDiesIInv ==
    ASSUME MigrationIInv, NEW m \in Migrators, MigratorDies(m)
    PROVE  MigrationIInv'
<1>1. MigrationTypeOK'
  BY NoMigratorAssumption
     DEF MigrationIInv, MigrationTypeOK, MigratorDies, Target, NoVersion, Stages,
         Working, Locked, Succeeded
<1>2. ASSUME NEW n \in Migrators
      PROVE  (Owner(n) /\ BeforeMark(n) /\ BeforeScript(n) /\ BeforeClean(n))'
  BY NoMigratorAssumption
     DEF MigrationIInv, MigrationTypeOK, CleanVersionIsTrue, Owner, BeforeMark,
         BeforeScript, BeforeClean, MigratorDies, Target, NoVersion, Stages,
         Working, Locked, Succeeded
<1>3. CleanVersionIsTrue'
  BY DEF MigrationIInv, MigrationTypeOK, CleanVersionIsTrue, BeforeMark, BeforeScript,
         BeforeClean, MigratorDies, Target, NoVersion
<1> QED
  BY <1>1, <1>2, <1>3 DEF MigrationIInv

(* The session carries out what it was sent, or not, and ends with its     *)
(* lock.                                                                   *)
LEMMA SessionEndsIInv ==
    ASSUME MigrationIInv, NEW m \in Migrators, SessionEnds(m)
    PROVE  MigrationIInv'
<1>1. MigrationTypeOK'
  <2>1. schema' \in {"none", "up"}
    BY DEF MigrationIInv, MigrationTypeOK, SessionEnds, MarksDirty, CreatesTables, MarksClean
  <2>2. row' \in [version : {NoVersion, 1}, dirty : BOOLEAN]
    <3>1. Target(m) \in {NoVersion, 1}
      BY DEF Target
    <3>2. \/ row' = [version |-> Target(m), dirty |-> TRUE]
          \/ row' = [version |-> Target(m), dirty |-> FALSE]
          \/ row' = row
      BY DEF SessionEnds, MarksDirty, CreatesTables, MarksClean
    <3>3. row \in [version : {NoVersion, 1}, dirty : BOOLEAN]
      BY DEF MigrationIInv, MigrationTypeOK
    <3>4. \A d \in BOOLEAN : [version |-> Target(m), dirty |-> d]
                                 \in [version : {NoVersion, 1}, dirty : BOOLEAN]
      BY <3>1
    <3>5. CASE row' = [version |-> Target(m), dirty |-> TRUE]
      BY <3>4, <3>5, Zenon
    <3>6. CASE row' = [version |-> Target(m), dirty |-> FALSE]
      BY <3>4, <3>6, Zenon
    <3>7. CASE row' = row
      BY <3>3, <3>7, Zenon
    <3> QED
      BY <3>2, <3>5, <3>6, <3>7, Zenon
  <2>3. lock' \in Migrators \cup {NoMigrator}
    BY DEF MigrationIInv, MigrationTypeOK, SessionEnds, Released
  <2>4. stage' \in [Migrators -> Stages]
    BY DEF MigrationIInv, MigrationTypeOK, SessionEnds, Stages
  <2>5. dead' \subseteq {n \in Migrators : stage'[n] \in Working}
    <3>1. stage' = [stage EXCEPT ![m] = "failed"] /\ dead' = dead \ {m}
      BY DEF SessionEnds
    <3>2. \A n \in dead : n \in Migrators /\ stage[n] \in Working
      BY DEF MigrationIInv, MigrationTypeOK
    <3>3. ASSUME NEW n \in dead, n # m
          PROVE  n \in Migrators /\ stage'[n] \in Working
      BY <3>1, <3>2, <3>3 DEF MigrationIInv, MigrationTypeOK
    <3> QED
      BY <3>1, <3>3
  <2> QED
    BY <2>1, <2>2, <2>3, <2>4, <2>5 DEF MigrationTypeOK
<1>2. ASSUME NEW n \in Migrators
      PROVE  (Owner(n) /\ BeforeMark(n) /\ BeforeScript(n) /\ BeforeClean(n))'
  BY NoMigratorAssumption
     DEF MigrationIInv, MigrationTypeOK, CleanVersionIsTrue, Owner, BeforeMark,
         BeforeScript, BeforeClean, SessionEnds, MarksDirty, CreatesTables,
         MarksClean, Released, Target, NoVersion, Stages, Working, Locked,
         Succeeded
<1>3. CleanVersionIsTrue'
  BY DEF MigrationIInv, MigrationTypeOK, CleanVersionIsTrue, BeforeMark, BeforeScript,
         BeforeClean, SessionEnds, MarksDirty, CreatesTables, MarksClean,
         Released, Target, NoVersion
<1> QED
  BY <1>1, <1>2, <1>3 DEF MigrationIInv

(* When the database stops, nobody is left at work.                        *)
LEMMA SessionsBreakIInv ==
    ASSUME MigrationIInv, SessionsBreak
    PROVE  MigrationIInv'
<1>1. MigrationTypeOK'
  BY DEF MigrationIInv, MigrationTypeOK, SessionsBreak, Stages
<1>2. ASSUME NEW n \in Migrators
      PROVE  (Owner(n) /\ BeforeMark(n) /\ BeforeScript(n) /\ BeforeClean(n))'
  BY DEF MigrationIInv, MigrationTypeOK, SessionsBreak, Owner, BeforeMark, BeforeScript, BeforeClean,
         Working, Locked
<1>3. CleanVersionIsTrue'
  BY DEF MigrationIInv, CleanVersionIsTrue, SessionsBreak
<1> QED
  BY <1>1, <1>2, <1>3 DEF MigrationIInv

LEMMA StutterIInv ==
    ASSUME MigrationIInv, UNCHANGED migrationVars
    PROVE  MigrationIInv'
BY DEF MigrationIInv, migrationVars, MigrationTypeOK, CleanVersionIsTrue, Owner, BeforeMark,
       BeforeScript, BeforeClean

(* Every step keeps the invariant, of the composed system too.             *)
LEMMA MigratorStepIInv ==
    ASSUME MigrationIInv, NEW m \in Migrators,
           MigratorStep(m) \/ MigratorFails(m) \/ Refuse(m) \/ SessionEnds(m)
    PROVE  MigrationIInv'
BY ConnectIInv, ConnectFailsIInv, LockTimesOutIInv, RefuseIInv, NoChangeIInv, ChangeIInv,
   MarkDirtyIInv, RunScriptIInv, ScriptFailsIInv, MarkCleanIInv, MigratorDiesIInv,
   SessionEndsIInv
   DEF MigratorStep, MigratorFails

LEMMA NextIInv == MigrationIInv /\ [MigrationNext]_migrationVars => MigrationIInv'
BY MigratorStepIInv, SessionsBreakIInv, StutterIInv DEF MigrationNext

-----------------------------------------------------------------------------
(* The invariant holds for any number of migrations of either direction.   *)
THEOREM MigrationInvariance == MigrationSpec => []MigrationIInv
BY InitIInv, NextIInv, PTL DEF MigrationSpec

(* The variables keep their types; only migrators that work can be dead.   *)
THEOREM MigrationTypeCorrect == MigrationSpec => []MigrationTypeOK
<1>1. MigrationIInv => MigrationTypeOK
  BY DEF MigrationIInv
<1> QED
  BY MigrationInvariance, <1>1, PTL

(* A clean version tells the truth about the tables, whatever overlaps,    *)
(* fails, dies or goes on after its process is gone.                       *)
THEOREM CleanVersionsAreTrue == MigrationSpec => []CleanVersionIsTrue
<1>1. MigrationIInv => CleanVersionIsTrue
  BY DEF MigrationIInv
<1> QED
  BY MigrationInvariance, <1>1, PTL

=============================================================================
