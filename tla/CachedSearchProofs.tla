------------------------- MODULE CachedSearchProofs -------------------------
(***************************************************************************)
(* Proofs about CachedSearch, for any number of requests, facets and       *)
(* editions.  Its steps are steps of the service, of the cache and of the  *)
(* cache of places, so the invariants proved of these modules hold of the  *)
(* parts; what the composition adds rests on them.                         *)
(***************************************************************************)
EXTENDS CachedSearch, TLAPS

(* The parts again, with what has been proved of them.                     *)
NamesP == INSTANCE CachedRepositoryProofs WITH
            Callers <- Requests,
            Keys <- {"place"},
            ListKeys <- {},
            TTL <- NamesTTL,
            MaxVersion <- MaxEdition,
            version <- edition, superseded <- replaced, storage <- places,
            flight <- asking, pc <- find, key <- place, began <- asked,
            deadline <- findBy, cancelled <- forgone, result <- found,
            seen <- heard, floor <- heardBy
CacheP == INSTANCE CachedRepositoryProofs WITH
            Callers <- Requests \X Service!Parts,
            Keys <- CacheKeys,
            ListKeys <- (Service!Parts \ {"total"}) \X Editions
ServiceP == INSTANCE RoutesServiceProofs

-----------------------------------------------------------------------------
(* The specifications that the proofs are about are those of CachedSearch. *)
LEMMA SameNames ==
    /\ Names!Init <=> NamesP!Init
    /\ [Names!Next]_(Names!vars) <=> [NamesP!Next]_(NamesP!vars)
BY DEF Names!Call, NamesP!Call, Names!Hit, NamesP!Hit, Names!Miss, NamesP!Miss,
       Names!Lead, NamesP!Lead, Names!Join, NamesP!Join, Names!StartQuery,
       NamesP!StartQuery, Names!FailQuery, NamesP!FailQuery, Names!EndRows,
       NamesP!EndRows, Names!CutRows, NamesP!CutRows, Names!Set, NamesP!Set,
       Names!Finish, NamesP!Finish, Names!Followers, NamesP!Followers, Names!Return,
       NamesP!Return, Names!Cancel, NamesP!Cancel, Names!Store, NamesP!Store,
       Names!Purge, NamesP!Purge, Names!Tick, NamesP!Tick, Names!Flight,
       NamesP!Flight, Names!Next, NamesP!Next, Names!vars, NamesP!vars, Names!dbVars,
       NamesP!dbVars, Names!callVars, NamesP!callVars, Names!Live, NamesP!Live,
       Names!Present, NamesP!Present, Names!CtxDone, NamesP!CtxDone, Names!Leading,
       NamesP!Leading, Names!NoEntry, NamesP!NoEntry, Names!Error, NamesP!Error,
       Names!Init, NamesP!Init, Names!Versions, NamesP!Versions, Names!Entry,
       NamesP!Entry

LEMMA SameCache ==
    /\ Cache!Init <=> CacheP!Init
    /\ [Cache!Next]_(Cache!vars) <=> [CacheP!Next]_(CacheP!vars)
BY DEF Cache!Call, CacheP!Call, Cache!Hit, CacheP!Hit, Cache!Miss, CacheP!Miss,
       Cache!Lead, CacheP!Lead, Cache!Join, CacheP!Join, Cache!StartQuery,
       CacheP!StartQuery, Cache!FailQuery, CacheP!FailQuery, Cache!EndRows,
       CacheP!EndRows, Cache!CutRows, CacheP!CutRows, Cache!Set, CacheP!Set,
       Cache!Finish, CacheP!Finish, Cache!Followers, CacheP!Followers, Cache!Return,
       CacheP!Return, Cache!Cancel, CacheP!Cancel, Cache!Store, CacheP!Store,
       Cache!Purge, CacheP!Purge, Cache!Tick, CacheP!Tick, Cache!Flight,
       CacheP!Flight, Cache!Next, CacheP!Next, Cache!vars, CacheP!vars, Cache!dbVars,
       CacheP!dbVars, Cache!callVars, CacheP!callVars, Cache!Live, CacheP!Live,
       Cache!Present, CacheP!Present, Cache!CtxDone, CacheP!CtxDone, Cache!Leading,
       CacheP!Leading, Cache!NoEntry, CacheP!NoEntry, Cache!Error, CacheP!Error,
       Cache!Init, CacheP!Init, Cache!Versions, CacheP!Versions, Cache!Entry,
       CacheP!Entry

LEMMA SameService ==
    /\ Service!Init <=> ServiceP!Init
    /\ [Service!Next]_(Service!vars) <=> [ServiceP!Next]_(ServiceP!vars)
BY DEF Service!Cardinality, ServiceP!Cardinality, Service!Parts, ServiceP!Parts,
       Service!Channels, ServiceP!Channels, Service!Kinds, ServiceP!Kinds,
       Service!Wanted, ServiceP!Wanted, Service!ChannelOf, ServiceP!ChannelOf,
       Service!Capacity, ServiceP!Capacity, Service!Init, ServiceP!Init,
       Service!Reply, ServiceP!Reply, Service!Begin, ServiceP!Begin,
       Service!LookupReturns, ServiceP!LookupReturns, Service!LookupFails,
       ServiceP!LookupFails, Service!Spawn, ServiceP!Spawn, Service!Enter,
       ServiceP!Enter, Service!Exit, ServiceP!Exit, Service!Send, ServiceP!Send,
       Service!Collecting, ServiceP!Collecting, Service!Receive, ServiceP!Receive,
       Service!ReceiveError, ServiceP!ReceiveError, Service!ContextDone,
       ServiceP!ContextDone, Service!AllReceived, ServiceP!AllReceived,
       Service!RouteReturns, ServiceP!RouteReturns, Service!Expire, ServiceP!Expire,
       Service!Main, ServiceP!Main, Service!Next, ServiceP!Next, Service!vars,
       ServiceP!vars

(* The constants of CachedSearch are such as the parts assume.             *)
LEMMA Assumptions ==
    /\ NamesP!KeysAssumption /\ NamesP!NoCallerAssumption /\ NamesP!TimesAssumption
    /\ CacheP!KeysAssumption /\ CacheP!NoCallerAssumption /\ CacheP!TimesAssumption
    /\ ServiceP!FacetsAssumption
BY NobodyAssumption, TimesAssumption, FacetsAssumption
   DEF NamesP!KeysAssumption, NamesP!NoCallerAssumption, NamesP!TimesAssumption,
       CacheP!KeysAssumption, CacheP!NoCallerAssumption, CacheP!TimesAssumption, CacheKeys,
       ServiceP!FacetsAssumption, ServiceP!IsFiniteSet, IsFiniteSet

(* What is not a variable of any part.                                     *)
OwnTypes ==
    /\ kind = [r \in Requests |-> Kind]
    /\ due \in [Requests -> Nat]
    /\ centre \in [Requests -> Editions]
    /\ said \subseteq Editions

PartsIInv == NamesP!IInv /\ CacheP!IInv /\ ServiceP!IInv /\ OwnTypes

(* Instants and editions are within their bounds.                          *)
LEMMA Types ==
    ASSUME PartsIInv
    PROVE  /\ now \in 0 .. MaxNow
           /\ edition \in Editions
           /\ \A r \in Requests : found[r].ver \in Editions
BY DEF PartsIInv, NamesP!IInv, NamesP!TypeOK, NamesP!Result, NamesP!Versions, Editions

-----------------------------------------------------------------------------
(* Every step is a step of each part, or leaves it alone.  A call is made  *)
(* with a key that exists and a deadline that the part allows for.         *)
LEMMA StepsOfTheParts ==
    ASSUME PartsIInv, [Next]_vars
    PROVE  /\ [Names!Next]_(Names!vars)
           /\ [Cache!Next]_(Cache!vars)
           /\ [Service!Next]_(Service!vars)
<1>n. UNCHANGED <<now, namesVars>> => UNCHANGED Names!vars
  BY DEF namesVars, Names!vars
<1>c. UNCHANGED cacheVars => UNCHANGED Cache!vars /\ UNCHANGED now
  BY DEF cacheVars, Cache!vars
<1>s. UNCHANGED serviceVars => UNCHANGED Service!vars
  BY DEF serviceVars, Service!vars
<1> USE DEF searchVars
<1>2. CASE UNCHANGED vars
  BY <1>2, <1>n, <1>c, <1>s DEF vars
<1>3. ASSUME NEW r \in Requests, Begin(r)
      PROVE  /\ UNCHANGED <<namesVars, cacheVars>>
             /\ Service!Next
  BY <1>3 DEF Begin, Service!Next, Service!Main
<1>4. ASSUME NEW r \in Requests, Find(r)
      PROVE  /\ Names!Next
             /\ UNCHANGED <<serviceVars, cacheVars>>
  <2>1. PICK d \in Int : Names!Call(r, "place", d)
    BY <1>4, Types DEF Find, PartsIInv, OwnTypes
  <2>2. d \in 0 .. MaxNow
    BY <2>1, Types DEF Names!Call
  <2> QED
    BY <1>4, <2>1, <2>2 DEF Find, Names!Next
<1>5. ASSUME NEW r \in Requests, NamesStep(r) \/ FetchAnswers(r) \/ FetchFails(r)
      PROVE  /\ Names!Next
             /\ UNCHANGED <<serviceVars, cacheVars>>
  BY <1>5 DEF NamesStep, FetchAnswers, FetchFails, Names!Next, Names!Flight
<1>6. ASSUME NEW r \in Requests, Lookup(r)
      PROVE  /\ Names!Next
             /\ [Cache!Next]_(Cache!vars)
             /\ Service!Next
  <2>1. Names!Next /\ Service!Next
    BY <1>6 DEF Lookup, Names!Next, Service!Next, Service!Main
  <2>2. Cancelled(r) => Cache!Next
    <3>1. {r} \X Service!Parts \in SUBSET (Requests \X Service!Parts)
      OBVIOUS
    <3> QED
      BY <3>1 DEF Cancelled, Cache!Next
  <2> QED
    BY <1>6, <2>1, <2>2, <1>c DEF Lookup
<1>7. CASE NewEdition
  <2>1. Names!Next /\ UNCHANGED <<serviceVars, cacheVars>>
    BY <1>7 DEF NewEdition, Names!Next
  <2> QED
    BY <2>1, <1>c, <1>s
<1>8. ASSUME NEW r \in Requests, Collect(r)
      PROVE  /\ UNCHANGED <<now, namesVars>>
             /\ [Cache!Next]_(Cache!vars)
             /\ Service!Next
  <2>1. UNCHANGED namesVars /\ Service!Next
    BY <1>8 DEF Collect, Service!Next, Service!Main
  <2>2. Cancelled(r) => Cache!Next
    <3>1. {r} \X Service!Parts \in SUBSET (Requests \X Service!Parts)
      OBVIOUS
    <3> QED
      BY <3>1 DEF Cancelled, Cache!Next
  <2>3. UNCHANGED cacheVars \/ Cancelled(r)
    BY <1>8 DEF Collect
  <2>4. UNCHANGED now
    BY <2>3, <1>c DEF Cancelled, Cache!Cancel
  <2> QED
    BY <2>1, <2>2, <2>3, <2>4, <1>c
<1>9. ASSUME NEW r \in Requests, Expire(r)
      PROVE  UNCHANGED <<namesVars, cacheVars>> /\ Service!Next
  BY <1>9 DEF Expire, Service!Next
<1>10. ASSUME NEW r \in Requests, NEW p \in Service!Parts, Enter(r, p)
       PROVE  /\ UNCHANGED <<now, namesVars>>
              /\ Cache!Next
              /\ Service!Next
  <2>1. PICK d \in Int : Cache!Call(<<r, p>>, <<p, centre[r]>>, d)
    BY <1>10, Types DEF Enter, PartsIInv, OwnTypes
  <2>2. d \in 0 .. MaxNow
    BY <2>1, Types DEF Cache!Call
  <2>3. <<r, p>> \in Requests \X Service!Parts /\ <<p, centre[r]>> \in CacheKeys
    BY DEF CacheKeys, PartsIInv, OwnTypes
  <2>4. Cache!Next
    BY <2>1, <2>2, <2>3 DEF Cache!Next
  <2> QED
    BY <1>10, <2>1, <2>4 DEF Enter, Service!Next, Cache!Call
<1>11. ASSUME NEW r \in Requests, NEW p \in Service!Parts, Exit(r, p)
       PROVE  /\ UNCHANGED <<now, namesVars>>
              /\ Cache!Next
              /\ Service!Next
  <2>1. <<r, p>> \in Requests \X Service!Parts
    OBVIOUS
  <2>2. Cache!Next
    BY <1>11, <2>1 DEF Exit, Cache!Next
  <2>3. result[<<r, p>>].ok \in BOOLEAN
    BY <2>1 DEF PartsIInv, CacheP!IInv, CacheP!TypeOK, CacheP!Result
  <2> QED
    BY <1>11, <2>2, <2>3 DEF Exit, Service!Next, Cache!Return
<1>12. ASSUME NEW c \in Callers, Trouble(c) \/ QueryEndedByContext(c) \/ CacheStep(c)
       PROVE  /\ UNCHANGED <<now, namesVars, serviceVars>>
              /\ Cache!Next
  <2>1. UNCHANGED <<namesVars, serviceVars>> /\ Cache!Next
    BY <1>12 DEF Callers, Trouble, QueryEndedByContext, CacheStep, Cache!Next, Cache!Flight
  <2>2. UNCHANGED now
    BY <1>12 DEF Trouble, QueryEndedByContext, CacheStep, Cache!Hit, Cache!Miss, Cache!Lead,
       Cache!Join, Cache!StartQuery, Cache!EndRows, Cache!Set, Cache!Finish, Cache!FailQuery,
       Cache!CutRows
  <2> QED
    BY <2>1, <2>2
<1>13. CASE Tick
  BY <1>13, <1>s DEF Tick, Names!Next, Cache!Next
<1>14. CASE ImportStores
  <2>1. /\ Cache!Next
        /\ UNCHANGED <<now, namesVars, serviceVars>>
    BY <1>14 DEF ImportStores, Cache!Next, Cache!Store
  <2> QED
    BY <2>1, <1>n, <1>s
<1> QED
  BY <1>n, <1>c, <1>s, <1>2, <1>3, <1>4, <1>5, <1>6, <1>7, <1>8, <1>9, <1>10, <1>11,
     <1>12, <1>13, <1>14
     DEF Next

(* So the invariants of the parts are kept.                                *)
LEMMA PartsStep == PartsIInv /\ [Next]_vars => PartsIInv'
<1> SUFFICES ASSUME PartsIInv, [Next]_vars PROVE PartsIInv'
  OBVIOUS
<1>1. NamesP!IInv'
  BY StepsOfTheParts, SameNames, Assumptions, NamesP!IInvStep DEF PartsIInv
<1>2. CacheP!IInv'
  BY StepsOfTheParts, SameCache, Assumptions, CacheP!IInvStep DEF PartsIInv
<1>3. ServiceP!IInv'
  BY StepsOfTheParts, SameService, Assumptions, ServiceP!StepKeeps DEF PartsIInv
<1>4. kind' = kind
  BY StepsOfTheParts DEF Service!Next, Service!Main, Service!vars, Service!Begin,
     Service!LookupReturns, Service!LookupFails, Service!Spawn, Service!Receive,
     Service!ReceiveError, Service!ContextDone, Service!AllReceived, Service!RouteReturns,
     Service!Enter, Service!Exit, Service!Send, Service!Expire
<1>5. due' \in [Requests -> Nat] /\ centre' \in [Requests -> Editions] /\ said' \subseteq Editions
  <2>1. CASE UNCHANGED <<due, centre, said>>
    BY <2>1 DEF PartsIInv, OwnTypes
  <2>2. ASSUME NEW r \in Requests, Begin(r)
        PROVE  due' \in [Requests -> Nat] /\ UNCHANGED <<centre, said>>
    BY <2>2, Types, TimesAssumption DEF Begin, searchVars, PartsIInv, OwnTypes
  <2>3. ASSUME NEW r \in Requests, Lookup(r)
        PROVE  centre' \in [Requests -> Editions] /\ UNCHANGED <<due, said>>
    BY <2>3, Types DEF Lookup, PartsIInv, OwnTypes
  <2>4. ASSUME NEW r \in Requests, FetchAnswers(r)
        PROVE  said' \subseteq Editions /\ UNCHANGED <<due, centre>>
    BY <2>4, Types DEF FetchAnswers, PartsIInv, OwnTypes
  <2> QED
    BY <2>1, <2>2, <2>3, <2>4
       DEF Next, vars, searchVars, Find, NamesStep, FetchFails, NewEdition, ImportStores,
           Collect, Expire, Enter, Exit, Trouble, QueryEndedByContext, CacheStep, Tick,
           PartsIInv, OwnTypes
<1> QED
  BY <1>1, <1>2, <1>3, <1>4, <1>5 DEF PartsIInv, OwnTypes

LEMMA PartsInit == Init => PartsIInv
<1> SUFFICES ASSUME Init PROVE PartsIInv
  OBVIOUS
<1>1. NamesP!IInv
  BY SameNames, Assumptions, NamesP!IInvInit DEF Init
<1>2. CacheP!IInv
  BY SameCache, Assumptions, CacheP!IInvInit DEF Init
<1>3. ServiceP!IInv
  BY SameService, Assumptions, ServiceP!InitHolds DEF Init
<1> QED
  BY <1>1, <1>2, <1>3, TimesAssumption DEF Init, PartsIInv, OwnTypes, Editions

LEMMA PartsInvariance == Spec => []PartsIInv
BY PartsInit, PartsStep, PTL DEF Spec

(* The composition implements its parts: service, cache and cache of       *)
(* places behave, together, as each of them does by itself.                *)
THEOREM PartsAreKept == Spec => Names!Spec /\ Cache!Spec /\ Service!Spec
<1>1. Init => Names!Init /\ Cache!Init /\ Service!Init
  BY DEF Init
<1> QED
  BY <1>1, StepsOfTheParts, PartsInvariance, PTL DEF Spec, Names!Spec, Cache!Spec, Service!Spec

(* OneQueryPerKey, SendsNeverBlock, AnswersAreWhole and, of the cache of   *)
(* places, BoundedStaleness hold of the parts when they run together.      *)
THEOREM PartsKeepTheirPromises ==
    Spec => [](/\ Cache!OneQueryPerKey /\ Names!OneQueryPerKey
               /\ Names!BoundedStaleness
               /\ Service!SendsNeverBlock /\ Service!AnswersAreWhole)
<1>1. ASSUME PartsIInv
      PROVE  /\ Cache!OneQueryPerKey /\ Names!OneQueryPerKey
             /\ Names!BoundedStaleness
             /\ Service!SendsNeverBlock /\ Service!AnswersAreWhole
  <2>1. Cache!OneQueryPerKey
    BY <1>1 DEF PartsIInv, CacheP!IInv, CacheP!OneQueryPerKey, CacheP!Leading,
                Cache!OneQueryPerKey, Cache!Leading
  <2>2. Names!OneQueryPerKey
    BY <1>1 DEF PartsIInv, NamesP!IInv, NamesP!OneQueryPerKey, NamesP!Leading,
                Names!OneQueryPerKey, Names!Leading
  <2>3. Names!BoundedStaleness
    BY <1>1 DEF PartsIInv, NamesP!IInv, NamesP!BoundedStaleness, NamesP!Fresh,
                Names!BoundedStaleness, Names!Fresh
  <2>4. ServiceP!SendsNeverBlock
    BY <1>1, Assumptions, ServiceP!RoomToSend DEF PartsIInv
  <2>5. Service!SendsNeverBlock
    BY <2>4 DEF ServiceP!SendsNeverBlock, ServiceP!ChannelOf, ServiceP!Capacity, ServiceP!Parts,
                ServiceP!Cardinality, Service!SendsNeverBlock, Service!ChannelOf,
                Service!Capacity, Service!Parts, Service!Cardinality
  <2>6. Service!AnswersAreWhole
    BY <1>1 DEF PartsIInv, ServiceP!IInv, ServiceP!AnswersAreWhole, ServiceP!Wanted,
                ServiceP!Parts, Service!AnswersAreWhole, Service!Wanted, Service!Parts
  <2> QED
    BY <2>1, <2>2, <2>3, <2>5, <2>6
<1> QED
  BY <1>1, PartsInvariance, PTL

-----------------------------------------------------------------------------
(* What the cache of places may still hand out is what the service said.   *)
CentresSaid ==
    /\ \A v \in said : v <= edition
    /\ places["place"].expires >= 0 => places["place"].ver \in said
    /\ \A r \in Requests :
          /\ find[r] \in {"rows", "set"} => found[r].ver \in said
          /\ (find[r] \in {"finish", "return"} /\ found[r].ok) => found[r].ver \in said

(* A search looks its place up while it is in lookup, with the deadline it *)
(* was given when it began.                                                *)
LookupsInTime ==
    \A r \in Requests :
        /\ due[r] <= now + Timeout
        /\ find[r] # "idle" => main[r] = "lookup" /\ due[r] <= asked[r] + Timeout

CentreIInv == PartsIInv /\ CentresSaid /\ LookupsInTime /\ CentreIsTheServices

(* Nothing that was current becomes older than it was.                     *)
LEMMA FreshGrows ==
    ASSUME PartsIInv, [Next]_vars
    PROVE  /\ now \in Int /\ now' \in Int /\ now <= now'
           /\ edition \in Int /\ edition' \in Int /\ edition <= edition'
           /\ \A v \in Editions : v <= edition =>
                 /\ Names!Fresh(v) \in Int /\ Names!Fresh(v)' \in Int
                 /\ Names!Fresh(v) <= Names!Fresh(v)'
<1>1. /\ now \in Int /\ now' \in Int
      /\ edition \in Int /\ edition' \in Int
      /\ \A v \in Editions : replaced[v] \in Int /\ replaced'[v] \in Int
      /\ replaced \in [Editions -> 0 .. MaxNow]
  <2>1. NamesP!TypeOK /\ NamesP!TypeOK'
    BY PartsStep DEF PartsIInv, NamesP!IInv
  <2>2. NamesP!Versions = Editions
    BY DEF NamesP!Versions, Editions
  <2>3. /\ replaced \in [Editions -> 0 .. MaxNow] /\ replaced' \in [Editions -> 0 .. MaxNow]
        /\ now \in 0 .. MaxNow /\ now' \in 0 .. MaxNow
        /\ edition \in Editions /\ edition' \in Editions
    BY <2>1, <2>2 DEF NamesP!TypeOK
  <2> QED
    BY <2>3, TimesAssumption DEF Editions
<1>2. now' = now \/ now' = now + 1
  BY StepsOfTheParts
     DEF Names!Next, Names!vars, Names!Call, Names!Hit, Names!Miss, Names!Lead, Names!Join,
         Names!Flight, Names!StartQuery, Names!FailQuery, Names!EndRows, Names!CutRows,
         Names!Set, Names!Finish, Names!Return, Names!Cancel, Names!Store, Names!Purge,
         Names!Tick, Names!dbVars
<1>3. \/ UNCHANGED <<edition, replaced>>
      \/ edition' = edition + 1 /\ replaced' = [replaced EXCEPT ![edition] = now] /\ now' = now
  BY StepsOfTheParts
     DEF Names!Next, Names!vars, Names!Call, Names!Hit, Names!Miss, Names!Lead, Names!Join,
         Names!Flight, Names!StartQuery, Names!FailQuery, Names!EndRows, Names!CutRows,
         Names!Set, Names!Finish, Names!Return, Names!Cancel, Names!Store, Names!Purge,
         Names!Tick, Names!dbVars
<1>4. now <= now' /\ edition <= edition'
  BY <1>1, <1>2, <1>3
<1>5. ASSUME NEW v \in Editions, v <= edition
      PROVE  /\ Names!Fresh(v) \in Int /\ Names!Fresh(v)' \in Int
             /\ Names!Fresh(v) <= Names!Fresh(v)'
  <2>1. v \in Int
    BY DEF Editions
  <2>2. CASE UNCHANGED <<edition, replaced>>
    BY <1>1, <1>4, <2>1, <2>2 DEF Names!Fresh
  <2>3. CASE /\ edition' = edition + 1 /\ now' = now
             /\ replaced' = [replaced EXCEPT ![edition] = now]
    BY <1>1, <1>5, <2>1, <2>3 DEF Names!Fresh
  <2> QED
    BY <2>2, <2>3, <1>3
<1> QED
  BY <1>1, <1>4, <1>5

(* A search that has its centre keeps it, and the centre stays as fresh    *)
(* as it was.                                                              *)
LEMMA CentreKept ==
    ASSUME CentreIInv, [Next]_vars, said \subseteq said', NEW r \in Requests,
           Kind # "refData", main[r] \in {"spawn", "collect"},
           due'[r] = due[r], centre'[r] = centre[r]
    PROVE  /\ centre'[r] \in said'
           /\ due'[r] <= Names!Fresh(centre[r])' + NamesTTL + 2 * Timeout
<1>1. /\ centre[r] \in said
      /\ due[r] <= Names!Fresh(centre[r]) + NamesTTL + 2 * Timeout
  BY DEF CentreIInv, CentreIsTheServices
<1>2. centre[r] \in Editions /\ centre[r] <= edition
  BY <1>1 DEF CentreIInv, CentresSaid, PartsIInv, OwnTypes
<1>3. PICK v \in Editions : v = centre[r]
  BY <1>2
<1>4. /\ Names!Fresh(v) \in Int /\ Names!Fresh(v)' \in Int
      /\ Names!Fresh(v) <= Names!Fresh(v)'
  BY <1>2, <1>3, FreshGrows DEF CentreIInv
<1>5. due[r] \in Int
  BY DEF CentreIInv, PartsIInv, OwnTypes
<1>6. Names!Fresh(centre[r])' = Names!Fresh(v)'
  BY <1>3 DEF Names!Fresh
<1> QED
  BY <1>1, <1>3, <1>4, <1>5, <1>6, TimesAssumption

(* The types of what a lookup reads and writes.                            *)
LEMMA LookupTypes ==
    ASSUME PartsIInv
    PROVE  /\ places \in [{"place"} -> [ver : Editions, cutAt : Int, expires : Int]]
           /\ find \in [Requests -> {"idle", "get", "do", "wait", "return",
                                     "query", "rows", "set", "finish"}]
           /\ \A r \in Requests : place[r] = "place"
           /\ found \in [Requests -> [ok : BOOLEAN, ver : Editions, cutAt : Int]]
           /\ asked \in [Requests -> Int] /\ findBy \in [Requests -> Int]
           /\ due \in [Requests -> Nat]
           /\ now \in Int
           /\ edition \in Editions
           /\ main \in [Requests -> {"idle", "lookup", "spawn", "collect", "call", "done"}]
<1>1. NamesP!Versions = Editions
  BY DEF NamesP!Versions, Editions
<1>2. main \in [Requests -> {"idle", "lookup", "spawn", "collect", "call", "done"}]
  BY DEF PartsIInv, ServiceP!IInv, ServiceP!TypeOK, ServiceP!Mains
<1> QED
  BY <1>1, <1>2, TimesAssumption
     DEF PartsIInv, OwnTypes, NamesP!IInv, NamesP!TypeOK, NamesP!Entry, NamesP!Result,
         NamesP!Phases, NamesP!Leading

(* Steps that neither begin nor end a lookup.                              *)
LEMMA LookupsKept ==
    ASSUME CentreIInv, now <= now', now' \in Int, UNCHANGED <<due, asked>>,
           \A r \in Requests : find'[r] # "idle" => find[r] # "idle" /\ main'[r] = main[r]
    PROVE  LookupsInTime'
BY LookupTypes, TimesAssumption DEF CentreIInv, LookupsInTime

(* The steps of the lookups and of the names service.                      *)
LEMMA CentresSaidStep ==
    ASSUME CentreIInv, [Next]_vars
    PROVE  CentresSaid' /\ said \subseteq said'
<1>t. PartsIInv
  BY DEF CentreIInv
<1>i. CentresSaid
  BY DEF CentreIInv
<1> USE LookupTypes, <1>t
<1>1. CASE UNCHANGED <<namesVars, said>>
  BY <1>1, <1>i DEF CentresSaid, namesVars
<1>2. CASE Tick
  <2>1. UNCHANGED <<edition, places, find, found, said>>
    BY <1>2 DEF Tick, Names!Tick, Names!dbVars, Names!callVars
  <2> QED
    BY <2>1, <1>i DEF CentresSaid
<1>3. CASE NewEdition
  <2>1. edition' = edition + 1 /\ UNCHANGED <<places, find, found, said>>
    BY <1>3 DEF NewEdition, Names!Store, Names!callVars
  <2>2. \A v \in said : v \in Int
    BY DEF PartsIInv, OwnTypes, Editions
  <2>3. edition \in Int
    BY DEF Editions
  <2> QED
    BY <2>1, <2>2, <2>3, <1>i DEF CentresSaid
<1>4. ASSUME NEW r \in Requests, Find(r)
      PROVE  CentresSaid' /\ UNCHANGED said
  <2>1. /\ find' = [find EXCEPT ![r] = "get"]
        /\ UNCHANGED <<edition, places, found, said>>
    BY <1>4 DEF Find, Names!Call, Names!dbVars
  <2> QED
    BY <2>1, <1>i DEF CentresSaid
<1>5. ASSUME NEW r \in Requests, NamesStep(r)
      PROVE  CentresSaid' /\ UNCHANGED said
  <2>1. UNCHANGED <<edition, said>>
    BY <1>5 DEF NamesStep, Names!Hit, Names!Miss, Names!Lead, Names!Join, Names!EndRows,
                Names!Set, Names!Finish, Names!dbVars
  <2>2. CASE Names!Hit(r)
    <3>1. /\ find' = [find EXCEPT ![r] = "return"]
          /\ \E n \in Int : found' = [found EXCEPT ![r] =
                                [ok |-> TRUE, ver |-> places["place"].ver, cutAt |-> n]]
          /\ now <= places["place"].expires
          /\ UNCHANGED places
      BY <2>2 DEF Names!Hit, Names!Live
    <3>2. places["place"].expires >= 0
      BY <3>1, Types
    <3> QED
      BY <3>1, <3>2, <2>1, <1>i DEF CentresSaid
  <2>3. CASE Names!Miss(r) \/ Names!Lead(r) \/ Names!Join(r)
    BY <2>3, <2>1, <1>i DEF CentresSaid, Names!Miss, Names!Lead, Names!Join
  <2>4. CASE Names!EndRows(r)
    BY <2>4, <2>1, <1>i DEF CentresSaid, Names!EndRows
  <2>5. CASE Names!Set(r)
    <3>1. /\ find[r] = "set"
          /\ find' = [find EXCEPT ![r] = "finish"]
          /\ places'["place"].ver = found[r].ver
          /\ UNCHANGED found
      BY <2>5 DEF Names!Set
    <3>2. found[r].ver \in said
      BY <3>1, <1>i DEF CentresSaid
    <3>3. \A d \in Requests : found'[d] = found[d] /\ (d # r => find'[d] = find[d])
      BY <3>1
    <3> QED
      BY <3>1, <3>2, <3>3, <2>1, <1>i DEF CentresSaid
  <2>6. CASE Names!Finish(r)
    <3>1. /\ find[r] = "finish"
          /\ \A d \in Requests :
                \/ find'[d] = find[d] /\ found'[d] = found[d]
                \/ find'[d] = "return" /\ found'[d] = found[r]
          /\ UNCHANGED places
      BY <2>6 DEF Names!Finish, Names!Followers
    <3>2. found[r].ok => found[r].ver \in said
      BY <3>1, <1>i DEF CentresSaid
    <3>3. ASSUME NEW d \in Requests,
                 \/ find'[d] \in {"rows", "set"}
                 \/ find'[d] \in {"finish", "return"} /\ found'[d].ok
          PROVE  found'[d].ver \in said
      <4>1. CASE find'[d] = find[d] /\ found'[d] = found[d]
        BY <4>1, <3>3, <2>1, <1>i DEF CentresSaid
      <4>2. CASE find'[d] = "return" /\ found'[d] = found[r]
        BY <4>2, <3>2, <3>3, <2>1
      <4> QED
        BY <3>1, <4>1, <4>2
    <3> QED
      BY <3>1, <3>3, <2>1, <1>i DEF CentresSaid
  <2> QED
    BY <1>5, <2>1, <2>2, <2>3, <2>4, <2>5, <2>6 DEF NamesStep
<1>6. ASSUME NEW r \in Requests, FetchAnswers(r)
      PROVE  CentresSaid' /\ said \subseteq said'
  <2>1. /\ find' = [find EXCEPT ![r] = "rows"]
        /\ found' = [found EXCEPT ![r] = [ok |-> TRUE, ver |-> edition, cutAt |-> -1]]
        /\ said' = said \cup {edition}
        /\ UNCHANGED <<edition, places>>
    BY <1>6 DEF FetchAnswers, Names!StartQuery, Names!dbVars
  <2>2. edition <= edition
    BY DEF Editions
  <2> QED
    BY <2>1, <2>2, <1>i DEF CentresSaid
<1>7. ASSUME NEW r \in Requests, FetchFails(r)
      PROVE  CentresSaid' /\ UNCHANGED said
  <2>1. /\ find' = [find EXCEPT ![r] = "finish"]
        /\ found' = [found EXCEPT ![r] = [ok |-> FALSE, ver |-> 0, cutAt |-> -1]]
        /\ UNCHANGED <<said, edition, places>>
    BY <1>7 DEF FetchFails, Names!FailQuery, Names!dbVars, Names!Error
  <2> QED
    BY <2>1, <1>i DEF CentresSaid
<1>8. ASSUME NEW r \in Requests, Lookup(r)
      PROVE  CentresSaid' /\ UNCHANGED said
  <2>1. /\ find' = [find EXCEPT ![r] = "idle"]
        /\ \A d \in Requests \ {r} : found'[d] = found[d]
        /\ UNCHANGED <<said, edition, places>>
    BY <1>8 DEF Lookup, Names!Return, Names!dbVars
  <2> QED
    BY <2>1, <1>i DEF CentresSaid
<1> QED
  BY <1>1, <1>2, <1>3, <1>4, <1>5, <1>6, <1>7, <1>8
     DEF Next, vars, searchVars, Begin, Collect, Expire, Enter, Exit, Trouble,
         QueryEndedByContext, CacheStep, ImportStores

(* A lookup begins with what its search has left of its deadline.          *)
LEMMA LookupsInTimeStep ==
    ASSUME CentreIInv, [Next]_vars
    PROVE  LookupsInTime'
<1>t. PartsIInv /\ LookupsInTime
  BY DEF CentreIInv
<1>n. now <= now' /\ now' \in Int
  BY FreshGrows, <1>t
<1> USE LookupTypes, <1>t
<1>1. ASSUME NEW r \in Requests, Begin(r)
      PROVE  LookupsInTime'
  <2>1. /\ main[r] = "idle"
        /\ \A d \in Requests \ {r} : main'[d] = main[d]
        /\ due' = [due EXCEPT ![r] = now + Timeout]
        /\ UNCHANGED <<now, find, asked>>
    BY <1>1 DEF Begin, Service!Begin, cacheVars, searchVars, namesVars
  <2> QED
    BY <2>1, TimesAssumption DEF LookupsInTime
<1>2. ASSUME NEW r \in Requests, Find(r)
      PROVE  LookupsInTime'
  <2>1. /\ main[r] = "lookup"
        /\ find' = [find EXCEPT ![r] = "get"]
        /\ asked' = [asked EXCEPT ![r] = now]
        /\ UNCHANGED <<now, due, main>>
    BY <1>2 DEF Find, Names!Call, cacheVars, serviceVars
  <2> QED
    BY <2>1, TimesAssumption DEF LookupsInTime
<1>3. ASSUME NEW r \in Requests, Lookup(r)
      PROVE  LookupsInTime'
  <2>1. /\ find' = [find EXCEPT ![r] = "idle"]
        /\ asked' = [asked EXCEPT ![r] = 0]
        /\ \A d \in Requests \ {r} : main'[d] = main[d]
        /\ UNCHANGED <<now, due>>
    BY <1>3 DEF Lookup, Names!Return, Service!LookupReturns, Service!LookupFails, Service!Reply
  <2> QED
    BY <2>1, TimesAssumption DEF LookupsInTime
<1>4. ASSUME UNCHANGED <<due, asked>>,
             \A r \in Requests : find'[r] # "idle" => find[r] # "idle" /\ main'[r] = main[r]
      PROVE  LookupsInTime'
  BY <1>4, <1>n, LookupsKept
<1>5. ASSUME NEW r \in Requests, NamesStep(r) \/ FetchAnswers(r) \/ FetchFails(r)
      PROVE  LookupsInTime'
  <2>1. UNCHANGED <<due, asked, main>>
    BY <1>5 DEF NamesStep, FetchAnswers, FetchFails, Names!Hit, Names!Miss, Names!Lead,
                Names!Join, Names!EndRows, Names!Set, Names!Finish, Names!StartQuery,
                Names!FailQuery, Names!callVars, serviceVars
  <2>2. \A d \in Requests : find'[d] # "idle" => find[d] # "idle"
    BY <1>5 DEF NamesStep, FetchAnswers, FetchFails, Names!Hit, Names!Miss, Names!Lead,
                Names!Join, Names!EndRows, Names!Set, Names!Finish, Names!StartQuery,
                Names!FailQuery, Names!Followers
  <2> QED
    BY <2>1, <2>2, <1>4
<1>6. CASE NewEdition \/ Tick
  BY <1>6, <1>4 DEF NewEdition, Tick, Names!Store, Names!Tick, Names!callVars, serviceVars
<1>7. ASSUME NEW r \in Requests, Collect(r) \/ Expire(r)
      PROVE  LookupsInTime'
  <2>1. UNCHANGED <<due, find, asked>>
    BY <1>7 DEF Collect, Expire, searchVars, namesVars
  <2>2. \A d \in Requests : main[d] = "lookup" => main'[d] = main[d]
    BY <1>7 DEF Collect, Expire, Service!Spawn, Service!Receive, Service!Send,
                Service!ReceiveError, Service!ContextDone, Service!AllReceived,
                Service!Expire, Service!Reply, Service!Collecting
  <2> QED
    BY <2>1, <2>2, <1>4 DEF LookupsInTime
<1>8. ASSUME NEW r \in Requests, NEW p \in Service!Parts, Enter(r, p) \/ Exit(r, p)
      PROVE  LookupsInTime'
  BY <1>8, <1>4 DEF Enter, Exit, Service!Enter, Service!Exit, searchVars, namesVars
<1>9. ASSUME NEW c \in Callers, Trouble(c) \/ QueryEndedByContext(c) \/ CacheStep(c)
      PROVE  LookupsInTime'
  BY <1>9, <1>4 DEF Trouble, QueryEndedByContext, CacheStep, serviceVars, searchVars, namesVars
<1>10. CASE ImportStores \/ UNCHANGED vars
  BY <1>10, <1>4 DEF ImportStores, vars, serviceVars, searchVars, namesVars
<1> QED
  BY <1>1, <1>2, <1>3, <1>5, <1>6, <1>7, <1>8, <1>9, <1>10 DEF Next

(* The step that gives a search its centre.                                *)
LEMMA CentreGiven ==
    ASSUME CentreIInv, [Next]_vars, NEW r \in Requests, Lookup(r),
           main'[r] \in {"spawn", "collect"}
    PROVE  /\ centre'[r] \in said'
           /\ due'[r] <= Names!Fresh(centre[r])' + NamesTTL + 2 * Timeout
<1>t. PartsIInv /\ LookupsInTime /\ CentresSaid
  BY DEF CentreIInv
<1> USE LookupTypes, <1>t
<1>1. main[r] = "lookup" /\ find[r] = "return"
  BY DEF Lookup, Names!Return, Service!LookupReturns, Service!LookupFails
<1>2. found[r].ok
  <2>1. CASE Service!LookupFails(r)
    BY <2>1 DEF Service!LookupFails, Service!Reply
  <2> QED
    BY <2>1 DEF Lookup
<1>3. /\ centre' = [centre EXCEPT ![r] = found[r].ver]
      /\ UNCHANGED <<said, due, now, edition, replaced>>
  BY <1>2 DEF Lookup, Names!Return, Names!dbVars
<1>4. centre'[r] = found[r].ver
  BY <1>3 DEF PartsIInv, OwnTypes
<1>5. PICK v \in Editions : v = found[r].ver
  OBVIOUS
<1>6. v \in said /\ v <= edition
  BY <1>1, <1>2, <1>5 DEF CentresSaid
<1>7. asked[r] <= NamesP!Fresh(v) + NamesTTL + Timeout
  BY <1>1, <1>2, <1>5 DEF PartsIInv, NamesP!IInv, NamesP!BoundedStaleness
<1>8. NamesP!Fresh(v) = Names!Fresh(v)
  BY DEF NamesP!Fresh, Names!Fresh
<1>9. due[r] <= asked[r] + Timeout
  BY <1>1 DEF LookupsInTime
<1>10. Names!Fresh(centre[r])' = Names!Fresh(v)
  BY <1>3, <1>4, <1>5 DEF Names!Fresh
<1>11. Names!Fresh(v) \in Int
  BY <1>6, FreshGrows
<1>12. due[r] <= Names!Fresh(v) + NamesTTL + 2 * Timeout
  <2>1. asked[r] \in Int /\ due[r] \in Int
    OBVIOUS
  <2>2. \A a, d, f, n, t \in Int : (a <= f + n + t /\ d <= a + t) => d <= f + n + 2 * t
    OBVIOUS
  <2>3. NamesTTL \in Int /\ Timeout \in Int
    BY TimesAssumption
  <2> QED
    BY <1>7, <1>8, <1>9, <1>11, <2>1, <2>2, <2>3
<1> QED
  BY <1>3, <1>4, <1>5, <1>6, <1>10, <1>12

(* All of it, step by step.                                               *)
LEMMA CentreStep == CentreIInv /\ [Next]_vars => CentreIInv'
<1> SUFFICES ASSUME CentreIInv, [Next]_vars PROVE CentreIInv'
  OBVIOUS
<1>t. PartsIInv
  BY DEF CentreIInv
<1>1. CentresSaid' /\ said \subseteq said'
  BY CentresSaidStep
<1>2. ASSUME NEW r \in Requests, Kind # "refData", main'[r] \in {"spawn", "collect"}
      PROVE  \/ Lookup(r)
             \/ /\ main[r] \in {"spawn", "collect"}
                /\ due'[r] = due[r]
                /\ centre'[r] = centre[r]
  <2>0. main \in [Requests -> {"idle", "lookup", "spawn", "collect", "call", "done"}]
    BY LookupTypes, <1>t
  <2>1. ASSUME NEW d \in Requests, Begin(d)
        PROVE  d # r /\ main'[r] = main[r] /\ due'[r] = due[r] /\ centre' = centre
    BY <2>0, <2>1, <1>2, LookupTypes, <1>t DEF Begin, Service!Begin, searchVars
  <2>2. ASSUME NEW d \in Requests, Lookup(d), d # r
        PROVE  main'[r] = main[r] /\ due'[r] = due[r] /\ centre'[r] = centre[r]
    BY <2>0, <2>2, <1>t
       DEF Lookup, Service!LookupReturns, Service!LookupFails, Service!Reply, PartsIInv, OwnTypes
  <2>3. ASSUME NEW d \in Requests, Collect(d) \/ Expire(d)
        PROVE  main[r] \in {"spawn", "collect"} /\ due' = due /\ centre' = centre
    BY <2>0, <2>3, <1>2
       DEF Collect, Expire, Service!Spawn, Service!Receive, Service!Send,
           Service!ReceiveError, Service!ContextDone, Service!AllReceived, Service!Expire,
           Service!Reply, Service!Collecting, searchVars
  <2>4. CASE UNCHANGED <<main, due, centre>>
    BY <2>4, <1>2
  <2> QED
    BY <2>1, <2>2, <2>3, <2>4, <1>2
       DEF Next, vars, serviceVars, searchVars, Find, NamesStep, FetchAnswers, FetchFails,
           NewEdition, ImportStores, Enter, Exit, Service!Enter, Service!Exit, Trouble,
           QueryEndedByContext, CacheStep, Tick
<1>3. CentreIsTheServices'
  <2> SUFFICES ASSUME NEW r \in Requests, Kind # "refData", main'[r] \in {"spawn", "collect"}
               PROVE  /\ centre'[r] \in said'
                      /\ due'[r] <= Names!Fresh(centre[r])' + NamesTTL + 2 * Timeout
    BY DEF CentreIsTheServices
  <2> QED
    BY <1>1, <1>2, CentreGiven, CentreKept
<1> QED
  BY <1>t, <1>1, <1>3, PartsStep, LookupsInTimeStep DEF CentreIInv

LEMMA CentreInit == Init => CentreIInv
<1> SUFFICES ASSUME Init PROVE CentreIInv
  OBVIOUS
<1>1. CentresSaid /\ LookupsInTime /\ CentreIsTheServices
  BY TimesAssumption
     DEF Init, Service!Init, Names!Init, Cache!Init, Names!NoEntry, Names!Error, CentresSaid,
         LookupsInTime, CentreIsTheServices
<1> QED
  BY <1>1, PartsInit DEF CentreIInv

(* CentreIsTheServices: for any number of searches that share lookups of   *)
(* the place, failed ones among them, the centre of each is what the       *)
(* service said and has not been wrong for longer than the bound.          *)
THEOREM CentresAreTheServices == Spec => []CentreIsTheServices
<1>1. CentreIInv => CentreIsTheServices
  BY DEF CentreIInv
<1> QED
  BY <1>1, CentreInit, CentreStep, PTL DEF Spec

-----------------------------------------------------------------------------
(* A goroutine is in the cache only while its part is being asked for.     *)
CallersAreTasks ==
    \A r \in Requests, p \in Service!Parts : pc[<<r, p>>] # "idle" => task[r][p] = "calling"

(* As long as nothing outside the program has failed: no context ends but  *)
(* that of a search all of whose goroutines have ended ...                 *)
CalmRequests ==
    \A r \in Requests :
        /\ main[r] # "done" => ctx[r] = "live"
        /\ main[r] = "done" => \A p \in Service!Parts : task[r][p] \in {"none", "ended"}
        /\ reply[r] \in {"none", "ok"}
        /\ buffer[r]["error"] = {}
        /\ \A p \in Service!Parts : task[r][p] # "sendError"

(* ... so no lookup and no query is cut off before its search's deadline,  *)
(* and nobody is given an error or a part of a list.                       *)
CalmLookups ==
    /\ forgone = {}
    /\ \A r \in Requests :
          /\ find[r] # "idle" => findBy[r] = due[r]
          /\ find[r] \in {"finish", "return"} => found[r].ok

CalmQueries ==
    /\ cancelled = {}
    /\ \A k \in CacheKeys : storage[k].cutAt < 0
    /\ \A r \in Requests, p \in Service!Parts :
          /\ pc[<<r, p>>] # "idle" => deadline[<<r, p>>] = due[r]
          /\ pc[<<r, p>>] \in {"finish", "return"} => result[<<r, p>>].ok
          /\ result[<<r, p>>].cutAt < 0

Calm == CalmRequests /\ CalmLookups /\ CalmQueries

CauseIInv == CentreIInv /\ CallersAreTasks /\ (~troubled => Calm)

(* The types of what a query and its request read and write.               *)
LEMMA QueryTypes ==
    ASSUME PartsIInv
    PROVE  /\ pc \in [Requests \X Service!Parts ->
                        {"idle", "get", "do", "wait", "return", "query", "rows", "set", "finish"}]
           /\ key \in [Requests \X Service!Parts -> CacheKeys]
           /\ result \in [Requests \X Service!Parts -> [ok : BOOLEAN, ver : 0 .. MaxVersion, cutAt : Int]]
           /\ storage \in [CacheKeys -> [ver : 0 .. MaxVersion, cutAt : Int, expires : Int]]
           /\ deadline \in [Requests \X Service!Parts -> Int]
           /\ task \in [Requests -> [Service!Parts -> {"none", "ready", "calling", "sendValue",
                                                       "sendError", "ended"}]]
           /\ buffer \in [Requests -> [{"total", "results", "facets", "error"}
                                         -> SUBSET Service!Parts]]
           /\ ctx \in [Requests -> {"live", "expired", "cancelled"}]
           /\ reply \in [Requests -> {"none", "ok", "error", "ctxError"}]
<1>1. ServiceP!Parts = Service!Parts
  BY DEF ServiceP!Parts, Service!Parts
<1>2. CacheP!Versions = 0 .. MaxVersion
  BY DEF CacheP!Versions
<1>3. CacheP!TypeOK /\ ServiceP!TypeOK
  BY DEF PartsIInv, CacheP!IInv, ServiceP!IInv
<1>4. deadline \in [Requests \X Service!Parts -> Int]
  <2>1. deadline \in [Requests \X Service!Parts -> 0 .. MaxNow]
    BY <1>3 DEF CacheP!TypeOK
  <2> QED
    BY <2>1
<1> QED
  BY <1>1, <1>2, <1>3, <1>4
     DEF CacheP!TypeOK, CacheP!Entry, CacheP!Result, CacheP!Phases, CacheP!Leading,
         ServiceP!TypeOK, ServiceP!Tasks, ServiceP!Channels, ServiceP!Replies

(* A goroutine enters the cache and leaves it with the service.            *)
LEMMA CallersStep ==
    ASSUME PartsIInv, CallersAreTasks, [Next]_vars
    PROVE  CallersAreTasks'
<1> USE QueryTypes, LookupTypes
<1>1. CASE UNCHANGED <<pc, task>>
  BY <1>1 DEF CallersAreTasks
<1>2. ASSUME NEW r \in Requests, NEW p \in Service!Parts, Enter(r, p)
      PROVE  CallersAreTasks'
  <2>1. /\ pc' = [pc EXCEPT ![<<r, p>>] = "get"]
        /\ task' = [task EXCEPT ![r][p] = "calling"]
    BY <1>2 DEF Enter, Cache!Call, Service!Enter
  <2> QED
    BY <2>1 DEF CallersAreTasks
<1>3. ASSUME NEW r \in Requests, NEW p \in Service!Parts, Exit(r, p)
      PROVE  CallersAreTasks'
  <2>1. /\ pc' = [pc EXCEPT ![<<r, p>>] = "idle"]
        /\ \E t : task' = [task EXCEPT ![r][p] = t]
    BY <1>3 DEF Exit, Cache!Return, Service!Exit
  <2> QED
    BY <2>1 DEF CallersAreTasks
<1>4. ASSUME NEW c \in Callers, Trouble(c) \/ QueryEndedByContext(c) \/ CacheStep(c)
      PROVE  CallersAreTasks'
  <2>1. UNCHANGED task
    BY <1>4 DEF Trouble, QueryEndedByContext, CacheStep, serviceVars
  <2>2. \A d \in Requests \X Service!Parts : pc[d] = "idle" => pc'[d] = "idle"
    BY <1>4 DEF Trouble, QueryEndedByContext, CacheStep, Callers, Cache!Hit, Cache!Miss,
                Cache!Lead, Cache!Join, Cache!StartQuery, Cache!FailQuery, Cache!EndRows,
                Cache!CutRows, Cache!Set, Cache!Finish, Cache!Followers
  <2> QED
    BY <2>1, <2>2 DEF CallersAreTasks
<1>5. ASSUME NEW r \in Requests, Collect(r)
      PROVE  CallersAreTasks'
  <2>1. UNCHANGED pc
    BY <1>5 DEF Collect, Cancelled, Cache!Cancel, cacheVars
  <2>2. \A d \in Requests, p \in Service!Parts : task[d][p] = "calling" => task'[d][p] = "calling"
    <3>1. CASE UNCHANGED task
      BY <3>1
    <3>2. CASE Service!Spawn(r)
      <4>1. \A p \in Service!Parts : task[r][p] = "none"
        <5>1. ServiceP!Parts = Service!Parts
          BY DEF ServiceP!Parts, Service!Parts
        <5> QED
          BY <3>2, <5>1 DEF Service!Spawn, PartsIInv, ServiceP!IInv, ServiceP!Quiet
      <4> QED
        BY <3>2, <4>1 DEF Service!Spawn
    <3>3. ASSUME NEW p \in Service!Parts, Service!Send(r, p)
          PROVE  \A d \in Requests, q \in Service!Parts :
                    task[d][q] = "calling" => task'[d][q] = "calling"
      <4>1. task[r][p] # "calling" /\ task' = [task EXCEPT ![r][p] = "ended"]
        BY <3>3 DEF Service!Send
      <4> QED
        BY <4>1
    <3> QED
      BY <1>5, <3>1, <3>2, <3>3
         DEF Collect, Service!Receive, Service!ReceiveError, Service!ContextDone,
             Service!AllReceived
  <2> QED
    BY <2>1, <2>2 DEF CallersAreTasks
<1> QED
  BY <1>1, <1>2, <1>3, <1>4, <1>5
     DEF Next, vars, serviceVars, cacheVars, Begin, Service!Begin, Find, NamesStep, FetchAnswers,
         FetchFails, Lookup, Service!LookupReturns, Service!LookupFails, Cancelled, Cache!Cancel,
         NewEdition, ImportStores, Cache!Store, Expire, Service!Expire, Tick, Cache!Tick

(* What has failed once has failed for good.                               *)
LEMMA StillUntroubled ==
    ASSUME CauseIInv, [Next]_vars, ~troubled'
    PROVE  ~troubled /\ Calm
<1>1. CASE UNCHANGED troubled
  BY <1>1 DEF CauseIInv
<1>2. ASSUME NEW c \in Callers, QueryEndedByContext(c)
      PROVE  troubled' = (troubled \/ now >= due[c[1]])
  BY <1>2 DEF QueryEndedByContext
<1>3. ASSUME NEW r \in Requests, FetchFails(r)
      PROVE  troubled' = (troubled \/ now >= due[r] \/ ~Names!CtxDone(r))
  BY <1>3 DEF FetchFails
<1>4. \/ UNCHANGED troubled
      \/ \E c \in Callers : QueryEndedByContext(c) \/ Trouble(c)
      \/ \E r \in Requests : FetchFails(r) \/ Expire(r)
  BY DEF Next, vars, Begin, searchVars, Find, NamesStep, FetchAnswers, Lookup, NewEdition,
         ImportStores, Collect, Enter, Exit, CacheStep, Tick
<1>5. (\A c \in Callers : ~Trouble(c)) /\ (\A r \in Requests : ~Expire(r))
  BY DEF Trouble, Expire
<1>6. ~troubled
  BY <1>1, <1>2, <1>3, <1>4, <1>5, Zenon
<1> QED
  BY <1>6 DEF CauseIInv

(* Nothing ends a query, or a lookup, while all is well.                   *)
LEMMA NothingFails ==
    ASSUME CauseIInv, Calm, ~troubled'
    PROVE  /\ \A c \in Callers : ~Trouble(c) /\ ~QueryEndedByContext(c)
           /\ \A r \in Requests : ~Expire(r) /\ ~FetchFails(r)
<1>t. PartsIInv /\ CentreIInv /\ LookupsInTime /\ CallersAreTasks
  BY DEF CauseIInv, CentreIInv
<1> USE QueryTypes, LookupTypes, <1>t
<1>1. ASSUME NEW c \in Callers, QueryEndedByContext(c)
      PROVE  FALSE
  <2>1. PICK r \in Requests, p \in Service!Parts : c = <<r, p>>
    BY DEF Callers
  <2>2. pc[<<r, p>>] \in {"query", "rows"}
    BY <1>1, <2>1 DEF QueryEndedByContext, Cache!FailQuery, Cache!CutRows
  <2>3. now < due[r]
    <3>1. c[1] = r /\ now \in Int /\ due[r] \in Int
      BY <2>1
    <3>2. troubled' = (troubled \/ now >= due[c[1]])
      BY <1>1 DEF QueryEndedByContext
    <3>3. ~(now >= due[c[1]])
      BY <3>2, Zenon
    <3> QED
      BY <3>1, <3>3
  <2>4. deadline[<<r, p>>] = due[r] /\ cancelled = {}
    BY <2>2 DEF Calm, CalmQueries
  <2> QED
    BY <1>1, <2>1, <2>3, <2>4 DEF QueryEndedByContext, Cache!CtxDone
<1>2. ASSUME NEW r \in Requests, FetchFails(r)
      PROVE  FALSE
  <2>1. find[r] \in {"query", "rows"}
    BY <1>2 DEF FetchFails, Names!FailQuery
  <2>2. findBy[r] = due[r] /\ forgone = {}
    BY <2>1 DEF Calm, CalmLookups
  <2> QED
    BY <1>2, <2>2 DEF FetchFails, Names!CtxDone
<1> QED
  BY <1>1, <1>2 DEF Trouble, Expire

(* Lookups keep their searches' deadlines and end well.                    *)
LEMMA CalmLookupsStep ==
    ASSUME CauseIInv, [Next]_vars, ~troubled'
    PROVE  CalmLookups'
<1>t. PartsIInv /\ LookupsInTime /\ CallersAreTasks /\ Calm
  BY StillUntroubled DEF CauseIInv, CentreIInv
<1>i. CalmLookups
  BY <1>t DEF Calm
<1> USE LookupTypes, <1>t
<1>1. CASE UNCHANGED <<forgone, find, findBy, found, due>>
  BY <1>1, <1>i DEF CalmLookups
<1>2. ASSUME NEW r \in Requests, Begin(r)
      PROVE  CalmLookups'
  <2>1. find[r] = "idle"
    BY <1>2 DEF Begin, Service!Begin, LookupsInTime
  <2>2. /\ UNCHANGED <<forgone, find, findBy, found>>
        /\ due' = [due EXCEPT ![r] = now + Timeout]
    BY <1>2 DEF Begin, searchVars, namesVars
  <2> QED
    BY <2>1, <2>2, <1>i DEF CalmLookups
<1>3. ASSUME NEW r \in Requests, Find(r)
      PROVE  CalmLookups'
  <2>1. ctx[r] = "live"
    BY <1>3, <1>t DEF Find, Calm, CalmRequests
  <2>2. /\ UNCHANGED <<forgone, found, due>>
        /\ find' = [find EXCEPT ![r] = "get"]
        /\ findBy' = [findBy EXCEPT ![r] = due[r]]
    BY <1>3, <2>1 DEF Find, Names!Call
  <2> QED
    BY <2>2, <1>i DEF CalmLookups
<1>4. ASSUME NEW r \in Requests, NamesStep(r)
      PROVE  CalmLookups'
  <2>1. UNCHANGED <<forgone, findBy, due>>
    BY <1>4 DEF NamesStep, Names!Hit, Names!Miss, Names!Lead, Names!Join, Names!EndRows,
                Names!Set, Names!Finish, Names!callVars
  <2>2. CASE Names!Hit(r)
    BY <2>1, <2>2, <1>i DEF CalmLookups, Names!Hit
  <2>3. CASE Names!Miss(r) \/ Names!Lead(r) \/ Names!Join(r) \/ Names!EndRows(r)
    BY <2>1, <2>3, <1>i DEF CalmLookups, Names!Miss, Names!Lead, Names!Join, Names!EndRows
  <2>4. CASE Names!Set(r)
    <3>1. found[r].ok
      <4>1. find[r] = "set"
        BY <2>4 DEF Names!Set
      <4> QED
        BY <4>1 DEF PartsIInv, NamesP!IInv, NamesP!LeaderOk, NamesP!Holds
    <3> QED
      BY <2>1, <2>4, <3>1, <1>i DEF CalmLookups, Names!Set
  <2>5. CASE Names!Finish(r)
    <3>1. /\ find[r] = "finish"
          /\ \A d \in Requests :
                \/ find'[d] = find[d] /\ found'[d] = found[d]
                \/ find'[d] = "return" /\ find[d] # "idle" /\ found'[d] = found[r]
      BY <2>5 DEF Names!Finish, Names!Followers
    <3> QED
      BY <2>1, <3>1, <1>i DEF CalmLookups
  <2> QED
    BY <1>4, <2>2, <2>3, <2>4, <2>5 DEF NamesStep
<1>5. ASSUME NEW r \in Requests, FetchAnswers(r)
      PROVE  CalmLookups'
  <2>1. /\ UNCHANGED <<forgone, findBy, due>>
        /\ find[r] = "query"
        /\ find' = [find EXCEPT ![r] = "rows"]
        /\ \A d \in Requests \ {r} : found'[d] = found[d]
    BY <1>5 DEF FetchAnswers, Names!StartQuery, Names!callVars
  <2> QED
    BY <2>1, <1>i DEF CalmLookups
<1>6. ASSUME NEW r \in Requests, Lookup(r)
      PROVE  CalmLookups'
  <2>1. /\ forgone' = forgone \ {r}
        /\ find' = [find EXCEPT ![r] = "idle"]
        /\ \A d \in Requests \ {r} : found'[d] = found[d] /\ findBy'[d] = findBy[d]
        /\ UNCHANGED due
    BY <1>6 DEF Lookup, Names!Return
  <2> QED
    BY <2>1, <1>i DEF CalmLookups
<1> QED
  BY <1>1, <1>2, <1>3, <1>4, <1>5, <1>6, NothingFails
     DEF Next, vars, searchVars, namesVars, NewEdition, ImportStores,
         Names!Store, Names!callVars, Collect,
         Enter, Exit, Callers, CacheStep, Tick, Names!Tick

(* A search that returns while all is well has all its parts, so its       *)
(* cancel finds none of its goroutines in the cache.                       *)
LEMMA CalmReturns ==
    ASSUME CauseIInv, [Next]_vars, ~troubled', NEW r \in Requests, Collect(r)
    PROVE  /\ ~Service!ContextDone(r)
           /\ \A p \in Service!Parts : ~Service!ReceiveError(r, p)
           /\ Service!AllReceived(r) =>
                 \A p \in Service!Parts : task[r][p] \in {"none", "ended"} /\ pc[<<r, p>>] = "idle"
<1>t. PartsIInv /\ CallersAreTasks /\ CalmRequests
  BY StillUntroubled DEF CauseIInv, CentreIInv, Calm
<1> USE QueryTypes, LookupTypes, <1>t
<1>1. ~Service!ContextDone(r) /\ \A p \in Service!Parts : ~Service!ReceiveError(r, p)
  BY DEF CalmRequests, Service!ContextDone, Service!ReceiveError, Service!Collecting
<1>2. ASSUME Service!AllReceived(r), NEW p \in Service!Parts
      PROVE  task[r][p] \in {"none", "ended"} /\ pc[<<r, p>>] = "idle"
  <2>1. ServiceP!AnswersAreWhole' /\ ServiceP!OnlyWanted' /\ OwnTypes'
    BY PartsStep DEF PartsIInv, ServiceP!IInv
  <2>2. reply'[r] = "ok" /\ task' = task
    BY <1>2 DEF Service!AllReceived, Service!Reply
  <2>3. kind'[r] # "route"
    BY <2>1, KindAssumption DEF OwnTypes
  <2>4. ServiceP!Parts = Service!Parts
    BY DEF ServiceP!Parts, Service!Parts
  <2>5. \A q \in ServiceP!Wanted(r)' : task'[r][q] = "ended"
    BY <2>1, <2>2, <2>3 DEF ServiceP!AnswersAreWhole
  <2>6. task'[r][p] # "none" => p \in ServiceP!Wanted(r)'
    BY <2>1, <2>4 DEF ServiceP!OnlyWanted
  <2>7. task[r][p] \in {"none", "ended"}
    BY <2>2, <2>5, <2>6
  <2> QED
    BY <2>7 DEF CallersAreTasks
<1> QED
  BY <1>1, <1>2

(* Requests are given values, so they return when all parts are there.     *)
LEMMA CalmRequestsStep ==
    ASSUME CauseIInv, [Next]_vars, ~troubled'
    PROVE  CalmRequests'
<1>t. PartsIInv /\ CallersAreTasks /\ Calm /\ CalmRequests /\ CalmLookups /\ CalmQueries
  BY StillUntroubled DEF CauseIInv, CentreIInv, Calm
<1> USE QueryTypes, LookupTypes, <1>t
<1>1. CASE UNCHANGED <<main, ctx, task, buffer, reply>>
  BY <1>1 DEF CalmRequests
<1>2. ASSUME NEW r \in Requests, Begin(r)
      PROVE  CalmRequests'
  <2>1. /\ main[r] = "idle"
        /\ \A d \in Requests \ {r} : main'[d] = main[d]
        /\ main'[r] # "done"
        /\ UNCHANGED <<ctx, task, buffer, reply>>
    BY <1>2 DEF Begin, Service!Begin
  <2> QED
    BY <2>1 DEF CalmRequests
<1>3. ASSUME NEW r \in Requests, Lookup(r)
      PROVE  CalmRequests'
  <2>1. found[r].ok
    BY <1>3 DEF Lookup, Names!Return, CalmLookups
  <2>2. /\ main[r] = "lookup"
        /\ main' = [main EXCEPT ![r] = "spawn"]
        /\ UNCHANGED <<ctx, task, buffer, reply>>
    BY <1>3, <2>1 DEF Lookup, Service!LookupReturns
  <2> QED
    BY <2>2 DEF CalmRequests
<1>4. ASSUME NEW r \in Requests, Collect(r)
      PROVE  CalmRequests'
  <2>1. CASE Service!Spawn(r)
    <3>1. /\ main[r] = "spawn"
          /\ main' = [main EXCEPT ![r] = "collect"]
          /\ \A d \in Requests \ {r} : task'[d] = task[d]
          /\ \A p \in Service!Parts : task'[r][p] \in {"ready", "none"}
          /\ UNCHANGED <<ctx, buffer, reply>>
      BY <2>1 DEF Service!Spawn
    <3>2. ASSUME NEW d \in Requests, NEW p \in Service!Parts
          PROVE  task'[d][p] # "sendError"
      <4>1. task[d][p] # "sendError"
        BY DEF CalmRequests
      <4>2. CASE d = r
        BY <3>1, <4>2
      <4>3. CASE d # r
        BY <3>1, <4>1, <4>3
      <4> QED
        BY <4>2, <4>3
    <3>3. \A d \in Requests : main'[d] = "done" =>
              \A p \in Service!Parts : task'[d][p] \in {"none", "ended"}
      BY <3>1 DEF CalmRequests
    <3>4. \A d \in Requests : /\ main'[d] # "done" => ctx'[d] = "live"
                             /\ reply'[d] \in {"none", "ok"}
                             /\ buffer'[d]["error"] = {}
      BY <3>1 DEF CalmRequests
    <3> QED
      BY <3>2, <3>3, <3>4 DEF CalmRequests
  <2>2. ASSUME NEW p \in Service!Parts, Service!Receive(r, p)
        PROVE  CalmRequests'
    <3>1. /\ \A d \in Requests : buffer'[d]["error"] \subseteq buffer[d]["error"]
          /\ UNCHANGED <<main, ctx, task, reply>>
      BY <2>2 DEF Service!Receive
    <3> QED
      BY <3>1 DEF CalmRequests
  <2>3. ASSUME NEW p \in Service!Parts, Service!Send(r, p)
        PROVE  CalmRequests'
    <3>1. task[r][p] = "sendValue"
      BY <2>3 DEF Service!Send, CalmRequests
    <3>3. Service!ChannelOf(p) # "error" /\ Service!ChannelOf(p) \in {"total", "results", "facets"}
      BY DEF Service!ChannelOf, Service!Parts
    <3>4. /\ \A d \in Requests : buffer'[d]["error"] = buffer[d]["error"]
          /\ task' = [task EXCEPT ![r][p] = "ended"]
          /\ UNCHANGED <<main, ctx, reply>>
      BY <2>3, <3>1, <3>3 DEF Service!Send
    <3> QED
      BY <3>4 DEF CalmRequests
  <2>4. CASE Service!AllReceived(r)
    <3>1. \A p \in Service!Parts : task[r][p] \in {"none", "ended"}
      BY <1>4, <2>4, CalmReturns
    <3>2. /\ main' = [main EXCEPT ![r] = "done"]
          /\ reply' = [reply EXCEPT ![r] = "ok"]
          /\ \A d \in Requests \ {r} : ctx'[d] = ctx[d]
          /\ UNCHANGED <<task, buffer>>
      BY <2>4 DEF Service!AllReceived, Service!Reply
    <3> QED
      BY <3>1, <3>2 DEF CalmRequests
  <2> QED
    BY <1>4, <2>1, <2>2, <2>3, <2>4, CalmReturns DEF Collect
<1>5. ASSUME NEW r \in Requests, NEW p \in Service!Parts, Enter(r, p)
      PROVE  CalmRequests'
  <2>1. /\ task[r][p] = "ready"
        /\ task' = [task EXCEPT ![r][p] = "calling"]
        /\ UNCHANGED <<main, ctx, buffer, reply>>
    BY <1>5 DEF Enter, Service!Enter
  <2> QED
    BY <2>1 DEF CalmRequests
<1>6. ASSUME NEW r \in Requests, NEW p \in Service!Parts, Exit(r, p)
      PROVE  CalmRequests'
  <2>1. result[<<r, p>>].ok
    BY <1>6 DEF Exit, Cache!Return, CalmQueries
  <2>2. /\ task[r][p] = "calling"
        /\ task' = [task EXCEPT ![r][p] = "sendValue"]
        /\ UNCHANGED <<main, ctx, buffer, reply>>
    BY <1>6, <2>1 DEF Exit, Service!Exit
  <2> QED
    BY <2>2 DEF CalmRequests
<1> QED
  BY <1>1, <1>2, <1>3, <1>4, <1>5, <1>6, NothingFails
     DEF Next, vars, serviceVars, Find, NamesStep, FetchAnswers, NewEdition, ImportStores,
         CacheStep, Tick

(* Queries keep their contexts, and what they leave is whole.              *)
LEMMA CalmQueriesStep ==
    ASSUME CauseIInv, [Next]_vars, ~troubled'
    PROVE  CalmQueries'
<1>t. PartsIInv /\ CallersAreTasks /\ Calm /\ CalmRequests /\ CalmLookups /\ CalmQueries
  BY StillUntroubled DEF CauseIInv, CentreIInv, Calm
<1> USE QueryTypes, LookupTypes, <1>t
<1>1. CASE UNCHANGED <<cancelled, pc, deadline, due, result, storage>>
  BY <1>1 DEF CalmQueries
<1>2. ASSUME NEW r \in Requests, Begin(r)
      PROVE  CalmQueries'
  <2>1. \A p \in Service!Parts : pc[<<r, p>>] = "idle"
    <3>1. ServiceP!Parts = Service!Parts
      BY DEF ServiceP!Parts, Service!Parts
    <3>2. \A p \in Service!Parts : task[r][p] = "none"
      BY <1>2, <3>1 DEF Begin, Service!Begin, PartsIInv, ServiceP!IInv, ServiceP!Quiet
    <3> QED
      BY <3>2 DEF CallersAreTasks
  <2>2. /\ due' = [due EXCEPT ![r] = now + Timeout]
        /\ UNCHANGED <<cancelled, pc, deadline, result, storage>>
    BY <1>2 DEF Begin, cacheVars
  <2> QED
    BY <2>1, <2>2 DEF CalmQueries
<1>3. ASSUME NEW r \in Requests, Lookup(r)
      PROVE  CalmQueries'
  <2>1. found[r].ok
    BY <1>3 DEF Lookup, Names!Return, CalmLookups
  <2> QED
    BY <1>1, <1>3, <2>1 DEF Lookup, cacheVars
<1>4. ASSUME NEW r \in Requests, Collect(r)
      PROVE  CalmQueries'
  <2>1. UNCHANGED due
    BY <1>4 DEF Collect
  <2>2. CASE Service!AllReceived(r) /\ Cancelled(r)
    <3>1. \A p \in Service!Parts : pc[<<r, p>>] = "idle"
      BY <1>4, <2>2, CalmReturns
    <3>2. /\ cancelled' = cancelled \cup
                {c \in {r} \X Service!Parts : pc[c] \in {"get", "do", "query", "rows"}}
          /\ UNCHANGED <<pc, deadline, result, storage>>
      BY <2>2 DEF Cancelled, Cache!Cancel, Cache!callVars
    <3>3. \A c \in {r} \X Service!Parts : pc[c] = "idle"
      BY <3>1
    <3>4. UNCHANGED cancelled
      BY <3>2, <3>3
    <3> QED
      BY <2>1, <3>2, <3>4, <1>1
  <2> QED
    BY <1>1, <1>4, <2>1, <2>2, CalmReturns DEF Collect, cacheVars
<1>5. ASSUME NEW r \in Requests, NEW p \in Service!Parts, Enter(r, p)
      PROVE  CalmQueries'
  <2>1. ctx[r] = "live"
    BY <1>5 DEF Enter, Service!Enter, CalmRequests
  <2>2. /\ pc' = [pc EXCEPT ![<<r, p>>] = "get"]
        /\ deadline' = [deadline EXCEPT ![<<r, p>>] = due[r]]
        /\ UNCHANGED <<cancelled, due, result, storage>>
    BY <1>5, <2>1 DEF Enter, Cache!Call
  <2>3. <<r, p>> \in Requests \X Service!Parts
    OBVIOUS
  <2> QED
    BY <2>2, <2>3 DEF CalmQueries
<1>6. ASSUME NEW r \in Requests, NEW p \in Service!Parts, Exit(r, p)
      PROVE  CalmQueries'
  <2>1. /\ pc' = [pc EXCEPT ![<<r, p>>] = "idle"]
        /\ result' = [result EXCEPT ![<<r, p>>] = [ok |-> FALSE, ver |-> 0, cutAt |-> -1]]
        /\ deadline' = [deadline EXCEPT ![<<r, p>>] = 0]
        /\ cancelled' = cancelled \ {<<r, p>>}
        /\ UNCHANGED <<due, storage>>
    BY <1>6 DEF Exit, Cache!Return, Cache!Error
  <2>2. <<r, p>> \in Requests \X Service!Parts
    OBVIOUS
  <2> QED
    BY <2>1, <2>2 DEF CalmQueries
<1>7. ASSUME NEW c \in Callers, CacheStep(c)
      PROVE  CalmQueries'
  <2> DEFINE C == Requests \X Service!Parts
             Good(d) == /\ pc[d] \in {"finish", "return"} => result[d].ok
                        /\ result[d].cutAt < 0
  <2>0. c \in C
    BY DEF Callers
  <2>1. \A d \in C : Good(d)
    <3> SUFFICES ASSUME NEW d \in C PROVE Good(d)
      OBVIOUS
    <3>1. PICK r \in Requests, p \in Service!Parts : d = <<r, p>>
      OBVIOUS
    <3> QED
      BY <3>1 DEF CalmQueries
  <2>2. UNCHANGED <<cancelled, deadline, due>>
    BY <1>7 DEF CacheStep, Cache!Hit, Cache!Miss, Cache!Lead, Cache!Join, Cache!StartQuery,
                Cache!EndRows, Cache!Set, Cache!Finish, Cache!callVars
  <2>6. \A d \in C : pc[d] = "idle" => pc'[d] = "idle"
    <3>1. CASE Cache!Finish(c)
      BY <3>1, <2>0 DEF Cache!Finish, Cache!Followers
    <3> QED
      BY <1>7, <3>1, <2>0 DEF CacheStep, Cache!Hit, Cache!Miss, Cache!Lead, Cache!Join,
         Cache!StartQuery, Cache!EndRows, Cache!Set
  <2>3. \A k \in CacheKeys : storage'[k].cutAt < 0
    <3>1. CASE UNCHANGED storage
      BY <3>1 DEF CalmQueries
    <3>2. CASE Cache!Set(c)
      <4>1. result[c].cutAt < 0
        BY <2>0, <2>1
      <4> QED
        BY <3>2, <4>1, <2>0 DEF Cache!Set, CalmQueries
    <3> QED
      BY <1>7, <3>1, <3>2 DEF CacheStep, Cache!Hit, Cache!Miss, Cache!Lead, Cache!Join,
         Cache!StartQuery, Cache!EndRows, Cache!Finish
  <2>4. \A d \in C : Good(d)'
    <3>1. CASE Cache!Hit(c)
      <4>1. storage[key[c]].cutAt < 0
        BY <2>0 DEF CalmQueries
      <4> QED
        BY <3>1, <4>1, <2>0, <2>1 DEF Cache!Hit
    <3>2. CASE Cache!Miss(c) \/ Cache!Lead(c) \/ Cache!Join(c) \/ Cache!EndRows(c)
      BY <3>2, <2>0, <2>1 DEF Cache!Miss, Cache!Lead, Cache!Join, Cache!EndRows
    <3>3. CASE Cache!StartQuery(c)
      BY <3>3, <2>0, <2>1 DEF Cache!StartQuery
    <3>4. CASE Cache!Set(c)
      <4>1. result[c].ok
        <5>1. pc[c] = "set"
          BY <3>4 DEF Cache!Set
        <5> QED
          BY <5>1, <2>0 DEF PartsIInv, CacheP!IInv, CacheP!LeaderOk, CacheP!Holds
      <4> QED
        BY <3>4, <4>1, <2>0, <2>1 DEF Cache!Set
    <3>5. CASE Cache!Finish(c)
      <4>1. /\ pc[c] = "finish"
            /\ \A d \in C : \/ pc'[d] = pc[d] /\ result'[d] = result[d]
                            \/ pc'[d] = "return" /\ result'[d] = result[c]
        BY <3>5, <2>0 DEF Cache!Finish, Cache!Followers
      <4> QED
        BY <4>1, <2>0, <2>1
    <3> QED
      BY <1>7, <3>1, <3>2, <3>3, <3>4, <3>5 DEF CacheStep
  <2>5. ASSUME NEW r \in Requests, NEW p \in Service!Parts
        PROVE  /\ pc'[<<r, p>>] # "idle" => deadline'[<<r, p>>] = due'[r]
               /\ pc'[<<r, p>>] \in {"finish", "return"} => result'[<<r, p>>].ok
               /\ result'[<<r, p>>].cutAt < 0
    <3>1. <<r, p>> \in C
      OBVIOUS
    <3>2. Good(<<r, p>>)'
      BY <2>4, <3>1
    <3> QED
      BY <2>2, <2>6, <3>1, <3>2 DEF CalmQueries
  <2> QED
    BY <2>2, <2>3, <2>5 DEF CalmQueries
<1> QED
  BY <1>1, <1>2, <1>3, <1>4, <1>5, <1>6, <1>7, NothingFails
     DEF Next, vars, cacheVars, Find, NamesStep, FetchAnswers, NewEdition, ImportStores,
         Cache!Store, Tick, Cache!Tick, Cache!callVars

LEMMA CauseInvariance == Spec => []CauseIInv
<1>1. Init => CauseIInv
  <2> SUFFICES ASSUME Init PROVE CauseIInv
    OBVIOUS
  <2>1. CentreIInv
    BY CentreInit
  <2>2. CallersAreTasks /\ CalmRequests /\ CalmLookups /\ CalmQueries
    BY DEF Init, Service!Init, Names!Init, Cache!Init, Names!Error, Cache!Error, Cache!NoEntry,
           Service!Channels, CallersAreTasks, CalmRequests, CalmLookups, CalmQueries
  <2> QED
    BY <2>1, <2>2 DEF CauseIInv, Calm
<1>2. CauseIInv /\ [Next]_vars => CauseIInv'
  <2> SUFFICES ASSUME CauseIInv, [Next]_vars PROVE CauseIInv'
    OBVIOUS
  <2>1. CentreIInv'
    BY CentreStep DEF CauseIInv
  <2>2. CallersAreTasks'
    BY CallersStep DEF CauseIInv, CentreIInv
  <2>3. ~troubled' => Calm'
    BY CalmRequestsStep, CalmLookupsStep, CalmQueriesStep DEF Calm
  <2> QED
    BY <2>1, <2>2, <2>3 DEF CauseIInv
<1> QED
  BY <1>1, <1>2, PTL DEF Spec

(* FailuresHaveACause: of any number of searches that share flights, none  *)
(* fails because another one returned and cancelled its context.           *)
THEOREM FailuresAreCaused == Spec => []FailuresHaveACause
<1>1. CauseIInv => FailuresHaveACause
  BY DEF CauseIInv, Calm, CalmRequests, FailuresHaveACause
<1> QED
  BY <1>1, CauseInvariance, PTL

(* TruncationsHaveACause: nor is a list cut short, in the cache or in a    *)
(* caller's hands.                                                         *)
THEOREM TruncationsAreCaused == Spec => []TruncationsHaveACause
<1>1. CauseIInv => TruncationsHaveACause
  <2> SUFFICES ASSUME CauseIInv, ~troubled PROVE TruncationsHaveACause
    BY DEF TruncationsHaveACause
  <2>1. CalmQueries /\ PartsIInv
    BY DEF CauseIInv, Calm, CentreIInv
  <2>2. ASSUME NEW c \in Callers PROVE ~(result[c].cutAt >= 0)
    <3>1. PICK r \in Requests, p \in Service!Parts : c = <<r, p>>
      BY DEF Callers
    <3> QED
      BY <2>1, <3>1, QueryTypes DEF CalmQueries
  <2>3. \A k \in CacheKeys : ~(storage[k].cutAt >= 0)
    BY <2>1, QueryTypes DEF CalmQueries
  <2> QED
    BY <2>2, <2>3 DEF TruncationsHaveACause
<1> QED
  BY <1>1, CauseInvariance, PTL
-----------------------------------------------------------------------------
(* A call is made in the time its search has, and only while it is being   *)
(* answered.                                                               *)
CallsInTime ==
    \A r \in Requests, p \in Service!Parts : pc[<<r, p>>] # "idle" =>
        main[r] # "idle" /\ due[r] <= began[<<r, p>>] + Timeout

LEMMA CallsInTimeStep ==
    ASSUME CentreIInv, CallsInTime, [Next]_vars
    PROVE  CallsInTime'
<1>t. PartsIInv /\ LookupsInTime
  BY DEF CentreIInv
<1> USE QueryTypes, LookupTypes, <1>t
<1> DEFINE C == Requests \X Service!Parts
<1>b. began \in [C -> Int]
  <2>1. began \in [C -> 0 .. MaxNow]
    BY DEF PartsIInv, CacheP!IInv, CacheP!TypeOK
  <2> QED
    BY <2>1
<1>1. CASE UNCHANGED <<pc, main, due, began>>
  BY <1>1 DEF CallsInTime
<1>2. ASSUME NEW r \in Requests, Begin(r)
      PROVE  CallsInTime'
  <2>1. /\ main[r] = "idle" /\ main'[r] # "idle"
        /\ \A d \in Requests \ {r} : main'[d] = main[d] /\ due'[d] = due[d]
        /\ UNCHANGED <<pc, began>>
    BY <1>2 DEF Begin, Service!Begin, cacheVars
  <2> QED
    BY <2>1 DEF CallsInTime
<1>3. ASSUME NEW r \in Requests, NEW p \in Service!Parts, Enter(r, p)
      PROVE  CallsInTime'
  <2>1. /\ pc' = [pc EXCEPT ![<<r, p>>] = "get"]
        /\ began' = [began EXCEPT ![<<r, p>>] = now]
        /\ UNCHANGED <<main, due>>
        /\ task[r][p] = "ready"
    BY <1>3 DEF Enter, Cache!Call, Service!Enter
  <2>2. main[r] # "idle"
    <3>1. ServiceP!Parts = Service!Parts
      BY DEF ServiceP!Parts, Service!Parts
    <3> QED
      BY <2>1, <3>1 DEF PartsIInv, ServiceP!IInv, ServiceP!Quiet
  <2>3. due[r] <= now + Timeout
    BY DEF LookupsInTime
  <2> QED
    BY <2>1, <2>2, <2>3, <1>b DEF CallsInTime
<1>4. ASSUME NEW r \in Requests, NEW p \in Service!Parts, Exit(r, p)
      PROVE  CallsInTime'
  <2>1. /\ pc' = [pc EXCEPT ![<<r, p>>] = "idle"]
        /\ began' = [began EXCEPT ![<<r, p>>] = 0]
        /\ UNCHANGED <<main, due>>
    BY <1>4 DEF Exit, Cache!Return, Service!Exit
  <2> QED
    BY <2>1, <1>b DEF CallsInTime
<1>5. ASSUME NEW c \in Callers, Trouble(c) \/ QueryEndedByContext(c) \/ CacheStep(c)
      PROVE  CallsInTime'
  <2>1. UNCHANGED <<main, due, began>>
    BY <1>5 DEF Trouble, QueryEndedByContext, CacheStep, serviceVars, Cache!Hit, Cache!Miss,
                Cache!Lead, Cache!Join, Cache!StartQuery, Cache!FailQuery, Cache!EndRows,
                Cache!CutRows, Cache!Set, Cache!Finish, Cache!callVars
  <2>2. \A d \in C : pc[d] = "idle" => pc'[d] = "idle"
    BY <1>5 DEF Trouble, QueryEndedByContext, CacheStep, Callers, Cache!Hit, Cache!Miss,
                Cache!Lead, Cache!Join, Cache!StartQuery, Cache!FailQuery, Cache!EndRows,
                Cache!CutRows, Cache!Set, Cache!Finish, Cache!Followers
  <2> QED
    BY <2>1, <2>2 DEF CallsInTime
<1>6. ASSUME NEW r \in Requests, Lookup(r) \/ Collect(r) \/ Expire(r)
      PROVE  CallsInTime'
  <2>1. UNCHANGED <<pc, due, began>>
    BY <1>6 DEF Lookup, Collect, Expire, Cancelled, Cache!Cancel, Cache!callVars, cacheVars
  <2>2. \A d \in Requests : main[d] # "idle" => main'[d] # "idle"
    BY <1>6 DEF Lookup, Collect, Expire, Service!LookupReturns, Service!LookupFails,
                Service!Spawn, Service!Receive, Service!Send, Service!ReceiveError,
                Service!ContextDone, Service!AllReceived, Service!Expire, Service!Reply
  <2> QED
    BY <2>1, <2>2 DEF CallsInTime
<1> QED
  BY <1>1, <1>2, <1>3, <1>4, <1>5, <1>6
     DEF Next, vars, serviceVars, cacheVars, Find, NamesStep, FetchAnswers, FetchFails,
         NewEdition, ImportStores, Cache!Store, Tick, Cache!Tick, Cache!callVars

(* PartsAreRecent, for any number of searches, imports and instants: the   *)
(* bound of the cache counts from the call of a goroutine, which its       *)
(* search's deadline ties to the search.                                   *)
THEOREM PartsComeRecent == Spec => []PartsAreRecent
<1>1. Init => CallsInTime
  BY DEF Init, Cache!Init, CallsInTime
<1>2. CentreIInv /\ CallsInTime => PartsAreRecent
  <2> SUFFICES ASSUME CentreIInv, CallsInTime, NEW r \in Requests, NEW p \in Service!Parts,
                      pc[<<r, p>>] = "return", result[<<r, p>>].ok
               PROVE  due[r] <= Cache!Fresh(result[<<r, p>>].ver) + TTL + 2 * Timeout
    BY DEF PartsAreRecent
  <2>t. PartsIInv /\ CacheP!TypeOK
    BY DEF CentreIInv, PartsIInv, CacheP!IInv
  <2>1. PICK c \in Requests \X Service!Parts : c = <<r, p>>
    OBVIOUS
  <2>2. PICK v : v = result[c].ver
    OBVIOUS
  <2>3. began[c] <= CacheP!Fresh(v) + TTL + Timeout
    BY <2>t, <2>1, <2>2 DEF PartsIInv, CacheP!IInv, CacheP!BoundedStaleness
  <2>4. Cache!Fresh(v) = CacheP!Fresh(v)
    BY DEF Cache!Fresh, CacheP!Fresh
  <2>5. due[r] <= began[c] + Timeout
    BY <2>1 DEF CallsInTime
  <2>6. CacheP!Fresh(v) \in Int
    <3>1. v \in CacheP!Versions
      BY <2>t, <2>2 DEF CacheP!TypeOK, CacheP!Result
    <3>2. now \in Int /\ superseded[v] \in Int
      BY <2>t, <3>1 DEF CacheP!TypeOK
    <3> QED
      BY <3>2 DEF CacheP!Fresh
  <2>7. began[c] \in Int /\ due[r] \in Int /\ TTL \in Int /\ Timeout \in Int
    BY <2>t, LookupTypes, TimesAssumption DEF CacheP!TypeOK
  <2>8. \A a, d, f, n, t \in Int : (a <= f + n + t /\ d <= a + t) => d <= f + n + 2 * t
    OBVIOUS
  <2>9. due[r] <= CacheP!Fresh(v) + TTL + 2 * Timeout
    BY <2>3, <2>5, <2>6, <2>7, <2>8
  <2> QED
    BY <2>1, <2>2, <2>4, <2>9
<1> QED
  BY <1>1, <1>2, CentreInit, CentreStep, CallsInTimeStep, PTL DEF Spec

-----------------------------------------------------------------------------
(* What a cache promises is the same in CachedSearch and in the proofs.    *)
LEMMA SameReads ==
    /\ Names!Reads!Init <=> NamesP!Reads!Init
    /\ [Names!Reads!Next]_(Names!Reads!vars) <=> [NamesP!Reads!Next]_(NamesP!Reads!vars)
    /\ Cache!Reads!Init <=> CacheP!Reads!Init
    /\ [Cache!Reads!Next]_(Cache!Reads!vars) <=> [CacheP!Reads!Next]_(CacheP!Reads!vars)
<1>1. /\ Names!Reads!Init <=> NamesP!Reads!Init
      /\ [Names!Reads!Next]_(Names!Reads!vars) <=> [NamesP!Reads!Next]_(NamesP!Reads!vars)
  BY DEF Names!PhaseOf, NamesP!PhaseOf, Names!AnswerOf, NamesP!AnswerOf,
         Names!Reads!Init, NamesP!Reads!Init, Names!Reads!Next,
         NamesP!Reads!Next, Names!Reads!vars, NamesP!Reads!vars,
         Names!Reads!Versions, NamesP!Reads!Versions, Names!Reads!NoAnswer,
         NamesP!Reads!NoAnswer, Names!Reads!Fresh, NamesP!Reads!Fresh,
         Names!Reads!Ask, NamesP!Reads!Ask, Names!Reads!Acceptable,
         NamesP!Reads!Acceptable, Names!Reads!Answer, NamesP!Reads!Answer,
         Names!Reads!Return, NamesP!Reads!Return, Names!Reads!Commit,
         NamesP!Reads!Commit, Names!Reads!Tick, NamesP!Reads!Tick
<1>2. /\ Cache!Reads!Init <=> CacheP!Reads!Init
      /\ [Cache!Reads!Next]_(Cache!Reads!vars) <=> [CacheP!Reads!Next]_(CacheP!Reads!vars)
  BY DEF Cache!PhaseOf, CacheP!PhaseOf, Cache!AnswerOf, CacheP!AnswerOf,
         Cache!Reads!Init, CacheP!Reads!Init, Cache!Reads!Next,
         CacheP!Reads!Next, Cache!Reads!vars, CacheP!Reads!vars,
         Cache!Reads!Versions, CacheP!Reads!Versions, Cache!Reads!NoAnswer,
         CacheP!Reads!NoAnswer, Cache!Reads!Fresh, CacheP!Reads!Fresh,
         Cache!Reads!Ask, CacheP!Reads!Ask, Cache!Reads!Acceptable,
         CacheP!Reads!Acceptable, Cache!Reads!Answer, CacheP!Reads!Answer,
         Cache!Reads!Return, CacheP!Reads!Return, Cache!Reads!Commit,
         CacheP!Reads!Commit, Cache!Reads!Tick, CacheP!Reads!Tick
<1> QED
  BY <1>1, <1>2

(* Of requests that share a cache and one of places, each lookup and each  *)
(* part is a boundedly stale, monotonic read, cancelled or not.            *)
THEOREM SearchesReadStale == Spec => PartsAreStaleReads /\ Names!ReadsAreStaleReads
<1>1. Init => NamesP!Init /\ CacheP!Init
  BY SameNames, SameCache DEF Init
<1>2. NamesP!Init => NamesP!Reads!Init
  BY DEF NamesP!Init, NamesP!Reads!Init, NamesP!Reads!Versions, NamesP!Versions,
         NamesP!PhaseOf, NamesP!AnswerOf, NamesP!Reads!NoAnswer
<1>3. CacheP!Init => CacheP!Reads!Init
  BY DEF CacheP!Init, CacheP!Reads!Init, CacheP!Reads!Versions, CacheP!Versions,
         CacheP!PhaseOf, CacheP!AnswerOf, CacheP!Reads!NoAnswer
<1>4. ASSUME PartsIInv, [Next]_vars
      PROVE  [Names!Reads!Next]_(Names!Reads!vars) /\ [Cache!Reads!Next]_(Cache!Reads!vars)
  <2>1. [NamesP!Next]_(NamesP!vars) /\ [CacheP!Next]_(CacheP!vars)
    BY <1>4, StepsOfTheParts, SameNames, SameCache
  <2>2. [NamesP!Reads!Next]_(NamesP!Reads!vars)
    BY <1>4, <2>1, Assumptions, NamesP!ReadsStep DEF PartsIInv
  <2>3. [CacheP!Reads!Next]_(CacheP!Reads!vars)
    BY <1>4, <2>1, Assumptions, CacheP!ReadsStep DEF PartsIInv
  <2> QED
    BY <2>2, <2>3, SameReads
<1> QED
  BY <1>1, <1>2, <1>3, <1>4, SameReads, PartsInvariance, PTL
     DEF Spec, Names!ReadsAreStaleReads, Names!Reads!Spec, PartsAreStaleReads,
         Cache!ReadsAreStaleReads, Cache!Reads!Spec

=============================================================================
