----------------------- MODULE CachedRepositoryProofs -----------------------
(***************************************************************************)
(* Theorems about CachedRepository, for any number of callers, keys,       *)
(* versions and instants.  The inductive invariant says, of each version   *)
(* somebody still holds (an entry, a leader, an answered caller), when it  *)
(* was last current and that nobody was answered with a newer one.         *)
(***************************************************************************)
EXTENDS CachedRepository, TLAPS

(* c leads a flight that has read something it will hand out.              *)
Holds(c) == pc[c] \in {"rows", "set"} \/ (pc[c] = "finish" /\ result[c].ok)

Answered(c) == pc[c] = "return" /\ result[c].ok

(* Nobody was, or is about to be, answered for k with more than v.         *)
Below(k, v) ==
    /\ seen[k] <= v
    /\ \A c \in Callers : Answered(c) /\ key[c] = k => result[c].ver <= v

KnownVersions ==
    /\ \A k \in Keys : storage[k].ver <= version /\ seen[k] <= version
    /\ \A c \in Callers : result[c].ver <= version

Times ==
    /\ \A c \in Callers : /\ began[c] <= now
                          /\ deadline[c] <= began[c] + Timeout
    /\ \A c \in Callers : Holds(c) => now <= deadline[c]

LeaderOk == \A c \in Callers : Holds(c) => result[c].ok

EntriesFresh ==
    \A k \in Keys : Present(k) =>
        /\ storage[k].expires <= Fresh(storage[k].ver) + TTL + Timeout
        /\ storage[k].cutAt >= 0 => storage[k].expires <= storage[k].cutAt + TTL + Timeout

LeadersFresh ==
    \A c \in Callers : Holds(c) =>
        /\ deadline[c] <= Fresh(result[c].ver) + Timeout
        /\ result[c].cutAt >= 0 => deadline[c] <= result[c].cutAt + Timeout

FloorsSeen == \A c \in Callers : floor[c] <= seen[key[c]]

EntriesNewest == \A k \in Keys : Present(k) => Below(k, storage[k].ver)

LeadersNewest ==
    \A c \in Callers : Holds(c) =>
        /\ Below(key[c], result[c].ver)
        /\ Present(key[c]) => storage[key[c]].ver <= result[c].ver
        /\ Present(key[c]) /\ pc[c] = "finish" => storage[key[c]].ver = result[c].ver

IInv ==
    /\ TypeOK
    /\ OneQueryPerKey
    /\ KnownVersions
    /\ Times
    /\ LeaderOk
    /\ EntriesFresh
    /\ LeadersFresh
    /\ BoundedStaleness
    /\ TruncationPasses
    /\ FloorsSeen
    /\ EntriesNewest
    /\ LeadersNewest
    /\ MonotonicReads

-----------------------------------------------------------------------------
(* The parameters of the model and every definition the steps of a call    *)
(* are made of, for the leaves below.                                      *)
USE KeysAssumption, NoCallerAssumption, TimesAssumption

(* Every variable keeps its type, whatever the numbers of callers, keys    *)
(* and commits: TypeOK is inductive by itself.                             *)
LEMMA TypeStep == TypeOK /\ [Next]_vars => TypeOK'
<1> SUFFICES ASSUME TypeOK, [Next]_vars PROVE TypeOK'
  OBVIOUS
<1> USE DEF TypeOK, Phases, Leading, dbVars, callVars
<1>a. 0 \in Versions /\ now \in Int /\ now + TTL \in Int /\ -1 \in Int
  BY DEF Versions
<1>b. /\ \A v \in Versions, n \in Int, b \in BOOLEAN :
            [ok |-> b, ver |-> v, cutAt |-> n] \in Result
      /\ \A v \in Versions, n, e \in Int : [ver |-> v, cutAt |-> n, expires |-> e] \in Entry
  BY DEF Result, Entry
<1>c. Error \in Result /\ NoEntry \in Entry
  BY <1>a, <1>b DEF Error, NoEntry
<1>d. \A c \in Callers : /\ result[c].ok \in BOOLEAN
                          /\ result[c].ver \in Versions
                          /\ result[c].cutAt \in Int
  BY DEF Result
<1>1. ASSUME NEW c \in Callers, NEW k \in Keys, NEW d \in 0 .. MaxNow, Call(c, k, d)
      PROVE  TypeOK'
  BY <1>1 DEF Call, Versions
<1>2. ASSUME NEW c \in Callers, Hit(c) PROVE TypeOK'
  BY <1>2, <1>b DEF Hit, Entry
<1>3. ASSUME NEW c \in Callers, Miss(c) PROVE TypeOK'
  BY <1>3 DEF Miss
<1>4. ASSUME NEW c \in Callers, Lead(c) PROVE TypeOK'
  BY <1>4 DEF Lead
<1>5. ASSUME NEW c \in Callers, Join(c) PROVE TypeOK'
  BY <1>5 DEF Join
<1>6. ASSUME NEW c \in Callers, StartQuery(c) PROVE TypeOK'
  BY <1>6, <1>a, <1>b DEF StartQuery
<1>7. ASSUME NEW c \in Callers, FailQuery(c) PROVE TypeOK'
  BY <1>7, <1>c DEF FailQuery
<1>8. ASSUME NEW c \in Callers, EndRows(c) PROVE TypeOK'
  BY <1>8 DEF EndRows
<1>9. ASSUME NEW c \in Callers, CutRows(c) PROVE TypeOK'
  BY <1>9, <1>a, <1>d DEF CutRows, Result
<1>10. ASSUME NEW c \in Callers, Set(c) PROVE TypeOK'
  BY <1>10, <1>a, <1>b, <1>d DEF Set
<1>11. ASSUME NEW c \in Callers, Finish(c) PROVE TypeOK'
  BY <1>11 DEF Finish, Followers
<1>12. ASSUME NEW c \in Callers, Return(c) PROVE TypeOK'
  BY <1>12, <1>a, <1>c, <1>d DEF Return
<1>13. ASSUME NEW S \in SUBSET Callers, Cancel(S) PROVE TypeOK'
  BY <1>13 DEF Cancel
<1>14. ASSUME Store PROVE TypeOK'
  BY <1>14 DEF Store, Versions
<1>15. ASSUME Purge PROVE TypeOK'
  BY <1>15, <1>c DEF Purge
<1>16. ASSUME Tick PROVE TypeOK'
  BY <1>16 DEF Tick
<1>17. ASSUME UNCHANGED vars PROVE TypeOK'
  BY <1>17 DEF vars
<1> QED
  BY <1>1, <1>2, <1>3, <1>4, <1>5, <1>6, <1>7, <1>8, <1>9, <1>10, <1>11,
     <1>12, <1>13, <1>14, <1>15, <1>16, <1>17 DEF Next, Flight

(* Every variable of the cache keeps its type.                             *)
THEOREM TypeCorrect == Spec => []TypeOK
<1>1. Init => TypeOK
  BY DEF Init, TypeOK, Phases, Result, Entry, Versions, NoEntry, Error
<1> QED
  BY <1>1, TypeStep, PTL DEF Spec

-----------------------------------------------------------------------------
(* Every step keeps the invariant.  A step that only moves a caller on is  *)
(* one leaf; one that reads, hands out or stores a version, or moves the   *)
(* clock, has a step for each part it can disturb.                         *)
LEMMA IInvStep == IInv /\ [Next]_vars => IInv'
<1> SUFFICES ASSUME IInv, [Next]_vars PROVE IInv'
  OBVIOUS
<1>t. TypeOK /\ TypeOK'
  BY TypeStep DEF IInv
<1>v. 0 \in Versions /\ \A v \in Versions : v \in Int /\ v >= 0
  BY DEF Versions
<1> USE <1>v DEF IInv, TypeOK, Phases, Leading, Result, Entry, Error, NoEntry,
               dbVars, callVars, Holds, Answered, Below, Present, Live, Fresh,
               OneQueryPerKey, KnownVersions, Times, LeaderOk, EntriesFresh,
               LeadersFresh, BoundedStaleness, TruncationPasses, FloorsSeen,
               EntriesNewest, LeadersNewest, MonotonicReads
<1>1. ASSUME NEW c \in Callers, NEW k \in Keys, NEW d \in 0 .. MaxNow, Call(c, k, d) PROVE IInv'
  <2>1. OneQueryPerKey' /\ LeaderOk'
    BY <1>1, <1>t DEF Call
  <2>2. Times'
    BY <1>1, <1>t DEF Call
  <2>3. KnownVersions'
    BY <1>1, <1>t DEF Call
  <2>4. EntriesFresh' /\ LeadersFresh'
    BY <1>1, <1>t DEF Call
  <2>5. BoundedStaleness' /\ TruncationPasses'
    BY <1>1, <1>t DEF Call
  <2>6. EntriesNewest' /\ LeadersNewest'
    BY <1>1, <1>t DEF Call
  <2>7. FloorsSeen' /\ MonotonicReads'
    BY <1>1, <1>t DEF Call
  <2> QED
    BY <1>t, <2>1, <2>2, <2>3, <2>4, <2>5, <2>6, <2>7
<1>2. ASSUME NEW c \in Callers, Hit(c) PROVE IInv'
  <2>1. OneQueryPerKey' /\ LeaderOk'
    BY <1>2, <1>t DEF Hit
  <2>2. Times'
    BY <1>2, <1>t DEF Hit
  <2>3. KnownVersions'
    BY <1>2, <1>t DEF Hit
  <2>4. EntriesFresh' /\ LeadersFresh'
    BY <1>2, <1>t DEF Hit
  <2>5. BoundedStaleness' /\ TruncationPasses'
    BY <1>2, <1>t DEF Hit
  <2>6. EntriesNewest' /\ LeadersNewest'
    BY <1>2, <1>t DEF Hit
  <2>7. FloorsSeen' /\ MonotonicReads'
    BY <1>2, <1>t DEF Hit
  <2> QED
    BY <1>t, <2>1, <2>2, <2>3, <2>4, <2>5, <2>6, <2>7
<1>3. ASSUME NEW c \in Callers, Miss(c) PROVE IInv'
  BY <1>3, <1>t DEF Miss
<1>4. ASSUME NEW c \in Callers, Lead(c) PROVE IInv'
  BY <1>4, <1>t DEF Lead
<1>5. ASSUME NEW c \in Callers, Join(c) PROVE IInv'
  BY <1>5, <1>t DEF Join
<1>6. ASSUME NEW c \in Callers, StartQuery(c) PROVE IInv'
  <2>1. OneQueryPerKey' /\ LeaderOk'
    BY <1>6, <1>t DEF StartQuery, CtxDone
  <2>2. Times'
    BY <1>6, <1>t DEF StartQuery, CtxDone
  <2>3. KnownVersions'
    BY <1>6, <1>t DEF StartQuery, CtxDone
  <2>4. EntriesFresh' /\ LeadersFresh'
    BY <1>6, <1>t DEF StartQuery, CtxDone
  <2>5. BoundedStaleness' /\ TruncationPasses'
    BY <1>6, <1>t DEF StartQuery, CtxDone
  <2>6. EntriesNewest' /\ LeadersNewest'
    BY <1>6, <1>t DEF StartQuery, CtxDone
  <2>7. FloorsSeen' /\ MonotonicReads'
    BY <1>6, <1>t DEF StartQuery, CtxDone
  <2> QED
    BY <1>t, <2>1, <2>2, <2>3, <2>4, <2>5, <2>6, <2>7
<1>7. ASSUME NEW c \in Callers, FailQuery(c) PROVE IInv'
  <2>1. OneQueryPerKey' /\ LeaderOk'
    BY <1>7, <1>t DEF FailQuery
  <2>2. Times'
    BY <1>7, <1>t DEF FailQuery
  <2>3. KnownVersions'
    BY <1>7, <1>t DEF FailQuery
  <2>4. EntriesFresh' /\ LeadersFresh'
    BY <1>7, <1>t DEF FailQuery
  <2>5. BoundedStaleness' /\ TruncationPasses'
    BY <1>7, <1>t DEF FailQuery
  <2>6. EntriesNewest' /\ LeadersNewest'
    BY <1>7, <1>t DEF FailQuery
  <2>7. FloorsSeen' /\ MonotonicReads'
    BY <1>7, <1>t DEF FailQuery
  <2> QED
    BY <1>t, <2>1, <2>2, <2>3, <2>4, <2>5, <2>6, <2>7
<1>8. ASSUME NEW c \in Callers, EndRows(c) PROVE IInv'
  BY <1>8, <1>t DEF EndRows
<1>9. ASSUME NEW c \in Callers, CutRows(c) PROVE IInv'
  <2>1. OneQueryPerKey' /\ LeaderOk'
    BY <1>9, <1>t DEF CutRows
  <2>2. Times'
    BY <1>9, <1>t DEF CutRows
  <2>3. KnownVersions'
    BY <1>9, <1>t DEF CutRows
  <2>4. EntriesFresh' /\ LeadersFresh'
    BY <1>9, <1>t DEF CutRows
  <2>5. BoundedStaleness' /\ TruncationPasses'
    BY <1>9, <1>t DEF CutRows
  <2>6. EntriesNewest' /\ LeadersNewest'
    BY <1>9, <1>t DEF CutRows
  <2>7. FloorsSeen' /\ MonotonicReads'
    BY <1>9, <1>t DEF CutRows
  <2> QED
    BY <1>t, <2>1, <2>2, <2>3, <2>4, <2>5, <2>6, <2>7
<1>10. ASSUME NEW c \in Callers, Set(c) PROVE IInv'
  <2>1. OneQueryPerKey' /\ LeaderOk'
    BY <1>10, <1>t DEF Set
  <2>2. Times'
    BY <1>10, <1>t DEF Set
  <2>3. KnownVersions'
    BY <1>10, <1>t DEF Set
  <2>4. EntriesFresh' /\ LeadersFresh'
    BY <1>10, <1>t DEF Set
  <2>5. BoundedStaleness' /\ TruncationPasses'
    BY <1>10, <1>t DEF Set
  <2>6. EntriesNewest' /\ LeadersNewest'
    BY <1>10, <1>t DEF Set
  <2>7. FloorsSeen' /\ MonotonicReads'
    BY <1>10, <1>t DEF Set
  <2> QED
    BY <1>t, <2>1, <2>2, <2>3, <2>4, <2>5, <2>6, <2>7
<1>11. ASSUME NEW c \in Callers, Finish(c) PROVE IInv'
  <2>1. OneQueryPerKey' /\ LeaderOk'
    BY <1>11, <1>t DEF Finish, Followers
  <2>2. Times'
    BY <1>11, <1>t DEF Finish, Followers
  <2>3. KnownVersions'
    BY <1>11, <1>t DEF Finish, Followers
  <2>4. EntriesFresh' /\ LeadersFresh'
    BY <1>11, <1>t DEF Finish, Followers
  <2>5. BoundedStaleness' /\ TruncationPasses'
    BY <1>11, <1>t DEF Finish, Followers
  <2>6. EntriesNewest' /\ LeadersNewest'
    BY <1>11, <1>t DEF Finish, Followers
  <2>7. FloorsSeen' /\ MonotonicReads'
    BY <1>11, <1>t DEF Finish, Followers
  <2> QED
    BY <1>t, <2>1, <2>2, <2>3, <2>4, <2>5, <2>6, <2>7
<1>12. ASSUME NEW c \in Callers, Return(c) PROVE IInv'
  <2>1. OneQueryPerKey' /\ LeaderOk'
    BY <1>12, <1>t DEF Return
  <2>2. Times'
    BY <1>12, <1>t DEF Return
  <2>3. KnownVersions'
    BY <1>12, <1>t DEF Return
  <2>4. EntriesFresh' /\ LeadersFresh'
    BY <1>12, <1>t DEF Return
  <2>5. BoundedStaleness' /\ TruncationPasses'
    BY <1>12, <1>t DEF Return
  <2>6. EntriesNewest' /\ LeadersNewest'
    BY <1>12, <1>t DEF Return
  <2>7. FloorsSeen' /\ MonotonicReads'
    BY <1>12, <1>t DEF Return
  <2> QED
    BY <1>t, <2>1, <2>2, <2>3, <2>4, <2>5, <2>6, <2>7
<1>13. ASSUME NEW S \in SUBSET Callers, Cancel(S) PROVE IInv'
  BY <1>13, <1>t DEF Cancel
<1>14. ASSUME Store PROVE IInv'
  <2>v. /\ version' = version + 1 /\ version + 1 \in Versions
        /\ \A v \in Versions : v <= version => v # version + 1 /\ v <= version'
    BY <1>14, <1>t DEF Store, Versions
  <2>f. \A v \in Versions : v <= version => Fresh(v)' = Fresh(v)
    BY <1>14, <1>t, <2>v DEF Store
  <2>1. OneQueryPerKey' /\ LeaderOk'
    BY <1>14, <1>t, <2>v, <2>f DEF Store
  <2>2. Times'
    BY <1>14, <1>t, <2>v, <2>f DEF Store
  <2>3. KnownVersions'
    BY <1>14, <1>t, <2>v, <2>f DEF Store
  <2>4. EntriesFresh' /\ LeadersFresh'
    BY <1>14, <1>t, <2>v, <2>f DEF Store
  <2>5. BoundedStaleness' /\ TruncationPasses'
    BY <1>14, <1>t, <2>v, <2>f DEF Store
  <2>6. EntriesNewest' /\ LeadersNewest'
    BY <1>14, <1>t, <2>v, <2>f DEF Store
  <2>7. FloorsSeen' /\ MonotonicReads'
    BY <1>14, <1>t, <2>v, <2>f DEF Store
  <2> QED
    BY <1>t, <2>1, <2>2, <2>3, <2>4, <2>5, <2>6, <2>7
<1>15. ASSUME Purge PROVE IInv'
  <2>1. OneQueryPerKey' /\ LeaderOk'
    BY <1>15, <1>t DEF Purge
  <2>2. Times'
    BY <1>15, <1>t DEF Purge
  <2>3. KnownVersions'
    BY <1>15, <1>t DEF Purge
  <2>4. EntriesFresh' /\ LeadersFresh'
    BY <1>15, <1>t DEF Purge
  <2>5. BoundedStaleness' /\ TruncationPasses'
    BY <1>15, <1>t DEF Purge
  <2>6. EntriesNewest' /\ LeadersNewest'
    BY <1>15, <1>t DEF Purge
  <2>7. FloorsSeen' /\ MonotonicReads'
    BY <1>15, <1>t DEF Purge
  <2> QED
    BY <1>t, <2>1, <2>2, <2>3, <2>4, <2>5, <2>6, <2>7
<1>16. ASSUME Tick PROVE IInv'
  <2>1. OneQueryPerKey' /\ LeaderOk'
    BY <1>16, <1>t DEF Tick
  <2>2. Times'
    BY <1>16, <1>t DEF Tick
  <2>3. KnownVersions'
    BY <1>16, <1>t DEF Tick
  <2>4. EntriesFresh' /\ LeadersFresh'
    BY <1>16, <1>t DEF Tick
  <2>5. BoundedStaleness' /\ TruncationPasses'
    BY <1>16, <1>t DEF Tick
  <2>6. EntriesNewest' /\ LeadersNewest'
    BY <1>16, <1>t DEF Tick
  <2>7. FloorsSeen' /\ MonotonicReads'
    BY <1>16, <1>t DEF Tick
  <2> QED
    BY <1>t, <2>1, <2>2, <2>3, <2>4, <2>5, <2>6, <2>7
<1>17. ASSUME UNCHANGED vars PROVE IInv'
  BY <1>17, <1>t DEF vars
<1> QED
  BY <1>1, <1>2, <1>3, <1>4, <1>5, <1>6, <1>7, <1>8, <1>9, <1>10, <1>11, <1>12, <1>13, <1>14, <1>15, <1>16, <1>17 DEF Next, Flight

(* The empty cache satisfies the invariant.                                *)
LEMMA IInvInit == Init => IInv
BY DEF Init, IInv, TypeOK, Phases, Leading, Result, Entry, Versions, Error, NoEntry,
       Holds, Answered, Below, Present, Fresh, OneQueryPerKey, KnownVersions,
       Times, LeaderOk, EntriesFresh, LeadersFresh, BoundedStaleness,
       TruncationPasses, FloorsSeen, EntriesNewest, LeadersNewest, MonotonicReads

(* The invariant holds in every reachable state.                           *)
THEOREM Invariance == Spec => []IInv
BY IInvInit, IInvStep, PTL DEF Spec

(* Whatever the number of goroutines, at most one query per key runs, and  *)
(* it is the one singleflight knows of.                                    *)
THEOREM QueriesAreSingle == Spec => []OneQueryPerKey
<1>1. IInv => OneQueryPerKey
  BY DEF IInv
<1> QED
  BY <1>1, Invariance, PTL

(* No caller is given data that had been superseded more than TTL +        *)
(* Timeout before it called, for every TTL and Timeout.                    *)
THEOREM StalenessIsBounded == Spec => []BoundedStaleness
<1>1. IInv => BoundedStaleness
  BY DEF IInv
<1> QED
  BY <1>1, Invariance, PTL

(* No caller is given less than what anyone was given before it called.    *)
THEOREM ReadsAreMonotonic == Spec => []MonotonicReads
<1>1. IInv => MonotonicReads
  BY DEF IInv
<1> QED
  BY <1>1, Invariance, PTL

(* A list cut short is gone TTL + Timeout after the cut.                   *)
THEOREM TruncationIsBrief == Spec => []TruncationPasses
<1>1. IInv => TruncationPasses
  BY DEF IInv
<1> QED
  BY <1>1, Invariance, PTL

(* A refill never puts an older version over the one in the cache: only    *)
(* Set replaces an entry that stays, and its leader's snapshot was taken   *)
(* inside the only flight of the key.                                      *)
THEOREM EntriesOnlyAdvance == Spec => EntriesAdvance
<1> DEFINE Advance == \A k \in Keys : (Present(k) /\ storage'[k].expires >= 0) =>
                          storage[k].ver <= storage'[k].ver
<1>1. IInv /\ [Next]_vars => [Advance]_vars
  <2> SUFFICES ASSUME IInv, [Next]_vars PROVE [Advance]_vars
    OBVIOUS
  <2>t. TypeOK /\ \A k \in Keys : storage[k].ver \in Int
    BY DEF IInv, TypeOK, Entry, Versions
  <2>1. ASSUME storage' = storage PROVE Advance
    BY <2>1, <2>t
  <2>2. ASSUME NEW c \in Callers, Set(c) PROVE Advance
    <3>1. Present(key[c]) => storage[key[c]].ver <= result[c].ver
      BY <2>2 DEF Set, IInv, LeadersNewest, Holds
    <3>2. storage' = [storage EXCEPT ![key[c]] =
                        [ver |-> result[c].ver, cutAt |-> result[c].cutAt,
                         expires |-> now + TTL]]
      BY <2>2 DEF Set
    <3> QED
      BY <3>1, <3>2, <2>t DEF TypeOK
  <2>3. ASSUME Purge PROVE Advance
    BY <2>3, <2>t DEF Purge, NoEntry
  <2>4. [Next]_vars => \/ storage' = storage
                       \/ \E c \in Callers : Set(c)
                       \/ Purge
    BY DEF Next, Flight, vars, Call, Hit, Miss, Lead, Join, StartQuery, FailQuery,
           EndRows, CutRows, Finish, Return, Cancel, Store, Tick
  <2> QED
    BY <2>1, <2>2, <2>3, <2>4
<1> QED
  BY <1>1, Invariance, PTL DEF Spec, EntriesAdvance

-----------------------------------------------------------------------------
(* The steps of the cache that StaleReads sees: a call asks, a hit or the  *)
(* end of a flight answers, a return returns, a commit and a tick are      *)
(* themselves, and the lookups, flights and stores between them stutter.   *)
LEMMA ReadsStep == IInv /\ [Next]_vars => [Reads!Next]_(Reads!vars)
<1> SUFFICES ASSUME IInv, [Next]_vars PROVE [Reads!Next]_(Reads!vars)
  OBVIOUS
<1> DEFINE phase == [c \in Callers |-> PhaseOf(pc[c])]
           answer == [c \in Callers |-> AnswerOf(c)]
<1>t. TypeOK /\ TypeOK'
  BY TypeStep DEF IInv
<1> USE DEF PhaseOf, AnswerOf
<1>1. ASSUME NEW c \in Callers, NEW k \in Keys, NEW d \in 0 .. MaxNow, Call(c, k, d)
      PROVE  Reads!Ask(c, k)
  <2>1. phase[c] = "idle" /\ phase' = [phase EXCEPT ![c] = "asking"]
    BY <1>1, <1>t DEF Call, TypeOK
  <2>2. answer' = answer
    BY <1>1, <1>t DEF Call, TypeOK
  <2> QED
    BY <2>1, <2>2, <1>1 DEF Call, Reads!Ask, dbVars
<1>2. ASSUME NEW S \in SUBSET Callers, NEW c \in Callers,
             \A d \in S : pc[d] \notin {"idle", "return"},
             \A d \in S : pc'[d] = "return" /\ result'[d] = result'[c],
             \A d \in Callers \ S : pc'[d] = pc[d] /\ result'[d] = result[d],
             c \in S, UNCHANGED <<now, dbVars, callVars, seen>>,
             IInv'
      PROVE  \E r \in [ok : BOOLEAN, ver : Versions] : Reads!Answer(S, r)
  <2> DEFINE r == [ok |-> result'[c].ok, ver |-> result'[c].ver]
  <2>1. r \in [ok : BOOLEAN, ver : Versions] /\ r.ok = result'[c].ok /\ r.ver = result'[c].ver
    BY <1>t DEF TypeOK, Result
  <2>2. \A d \in S : phase[d] = "asking"
    BY <1>2, <1>t DEF TypeOK, Phases, Leading
  <2>3. phase' = [d \in Callers |-> IF d \in S THEN "answered" ELSE phase[d]]
    BY <1>2, <1>t DEF TypeOK, Phases, Leading
  <2>4. answer' = [d \in Callers |-> IF d \in S THEN r ELSE answer[d]]
    BY <1>2, <1>t DEF TypeOK
  <2>5. ASSUME NEW d \in S, r.ok PROVE Reads!Acceptable(d, r.ver)
    <3>1. pc'[d] = "return" /\ result'[d].ok /\ result'[d].ver = r.ver /\ d \in Callers
      BY <2>5, <2>1, <1>2
    <3>2. floor'[d] <= r.ver /\ r.ver <= version'
      BY <3>1, <1>2 DEF IInv, MonotonicReads, KnownVersions
    <3>3. began'[d] <= Fresh(result[d].ver)' + TTL + Timeout
      BY <3>1, <1>2 DEF IInv, BoundedStaleness
    <3>4. Fresh(result[d].ver)' = Reads!Fresh(r.ver)
      BY <3>1, <1>2 DEF Reads!Fresh, Fresh, dbVars
    <3>5. began[d] \in Int /\ Reads!Fresh(r.ver) \in Int
      BY <2>1, <3>1, <1>t DEF TypeOK, Reads!Fresh
    <3>6. began[d] <= Reads!Fresh(r.ver) + (TTL + Timeout)
      BY <3>3, <3>4, <3>5, <1>2 DEF callVars
    <3> QED
      BY <3>2, <3>6, <1>2 DEF Reads!Acceptable, dbVars, callVars
  <2> QED
    BY <2>1, <2>2, <2>3, <2>4, <2>5, <1>2 DEF Reads!Answer, dbVars, callVars
<1>i. IInv'
  BY IInvStep
<1>3. ASSUME NEW c \in Callers, Hit(c)
      PROVE  \E r \in [ok : BOOLEAN, ver : Versions] : Reads!Answer({c}, r)
  <2>1. /\ pc[c] = "get" /\ pc'[c] = "return"
        /\ \A d \in Callers \ {c} : pc'[d] = pc[d] /\ result'[d] = result[d]
    BY <1>3, <1>t DEF Hit, TypeOK
  <2> QED
    BY <2>1, <1>2, <1>3, <1>i DEF Hit
<1>4. ASSUME NEW c \in Callers, Finish(c)
      PROVE  \E S \in SUBSET Callers, r \in [ok : BOOLEAN, ver : Versions] : Reads!Answer(S, r)
  <2> DEFINE S == Followers(c) \cup {c}
  <2>1. /\ S \in SUBSET Callers
        /\ \A d \in S : pc[d] \notin {"idle", "return"}
        /\ \A d \in S : pc'[d] = "return" /\ result'[d] = result'[c]
        /\ \A d \in Callers \ S : pc'[d] = pc[d] /\ result'[d] = result[d]
    BY <1>4, <1>t DEF Finish, Followers, TypeOK
  <2>2. \E r \in [ok : BOOLEAN, ver : Versions] : Reads!Answer(S, r)
    BY <2>1, <1>2, <1>4, <1>i DEF Finish
  <2> QED
    BY <2>1, <2>2
<1>5. ASSUME NEW c \in Callers, Return(c) PROVE Reads!Return(c)
  <2>1. phase[c] = "answered" /\ phase' = [phase EXCEPT ![c] = "idle"]
    BY <1>5, <1>t DEF Return, TypeOK
  <2>2. answer' = [answer EXCEPT ![c] = [ok |-> FALSE, ver |-> 0]]
    BY <1>5, <1>t DEF Return, TypeOK
  <2>3. answer[c].ok = result[c].ok /\ answer[c].ver = result[c].ver
    BY <1>5 DEF Return
  <2> QED
    BY <2>1, <2>2, <2>3, <1>5 DEF Return, Reads!Return, Reads!NoAnswer, dbVars
<1>6. ASSUME Store PROVE Reads!Commit
  BY <1>6 DEF Store, Reads!Commit, callVars
<1>7. ASSUME Tick PROVE Reads!Tick
  BY <1>7 DEF Tick, Reads!Tick, dbVars, callVars
<1>8. ASSUME NEW c \in Callers,
             \/ Miss(c) \/ Lead(c) \/ Join(c) \/ StartQuery(c) \/ FailQuery(c)
             \/ EndRows(c) \/ CutRows(c) \/ Set(c)
      PROVE  UNCHANGED Reads!vars
  <2>1. \A d \in Callers : \/ pc'[d] = pc[d] /\ result'[d] = result[d]
                           \/ /\ pc[d] \notin {"idle", "return"}
                              /\ pc'[d] \notin {"idle", "return"}
    BY <1>8, <1>t DEF Miss, Lead, Join, StartQuery, FailQuery,
                      EndRows, CutRows, Set, TypeOK
  <2>2. phase' = phase /\ answer' = answer
    BY <2>1
  <2>3. UNCHANGED <<now, dbVars, callVars, seen>>
    BY <1>8 DEF Miss, Lead, Join, StartQuery, FailQuery, EndRows, CutRows, Set
  <2> QED
    BY <2>2, <2>3 DEF Reads!vars, dbVars, callVars
<1>9. ASSUME Purge \/ UNCHANGED vars \/ \E S \in SUBSET Callers : Cancel(S)
      PROVE  UNCHANGED Reads!vars
  BY <1>9 DEF Purge, Cancel, vars, Reads!vars, dbVars, callVars
<1> QED
  BY <1>1, <1>3, <1>4, <1>5, <1>6, <1>7, <1>8, <1>9
     DEF Next, Flight, Reads!Next, Reads!Versions, Versions

(* The cache implements StaleReads with MaxStaleness = TTL + Timeout: to   *)
(* its callers it is a register per key whose reads are stale by at most   *)
(* that and never go back.                                                 *)
THEOREM CacheImplementsStaleReads == Spec => ReadsAreStaleReads
<1>1. Init => Reads!Init
  BY DEF Init, Reads!Init, Reads!Versions, Versions, PhaseOf, AnswerOf, Reads!NoAnswer
<1> QED
  BY <1>1, ReadsStep, Invariance, PTL DEF Spec, ReadsAreStaleReads, Reads!Spec

=============================================================================
