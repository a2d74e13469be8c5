---------------------------- MODULE CachedSearch ----------------------------
(***************************************************************************)
(* Requests with equal criteria served at the same time: the scatter-      *)
(* gather of RoutesService over the one cache of CachedRepository, as      *)
(* src/cmds/http_api_server.go wires them.  The goroutine of part p of     *)
(* request r is the caller <<r, p>> of the cache and asks for key p, so    *)
(* the requests meet in entries and in flights: a goroutine of one may be  *)
(* given what the query of another one read, or the error that the         *)
(* other's context brought on it.                                          *)
(*                                                                         *)
(* A search names a place and no centre, and looks the place up first.     *)
(* src/services/osdatahub/names_api.go keeps what the names service has    *)
(* said in a memoize cache of its own, as cache.go does, but for hours.    *)
(* Edition 0 of the service does not know the place, and then the search   *)
(* has no centre; in each later edition the place is somewhere else.       *)
(***************************************************************************)
EXTENDS Integers, FiniteSets

CONSTANTS
    Requests, FacetFields,              \* as in RoutesService
    Kind,                               \* the method all requests call
    NoCaller, TTL, Timeout,             \* as in CachedRepository
    MaxNow, MaxVersion,
    NamesTTL,                           \* expiration of a place, 8h in the code
    MaxEdition                          \* bound: editions of the names service

ASSUME KindAssumption == Kind \in {"search", "searchSkipFacets", "refData"}

VARIABLES
    kind, main, ctx, task, buffer, remaining, got, reply,       \* service
    now, version, superseded, storage, flight, pc, key, began,
    deadline, cancelled, result, seen, floor,                   \* cache
    edition, replaced, places, asking, find, place, asked, findBy,
    forgone, found, heard, heardBy,                             \* names cache
    centre,    \* [request -> edition of the centre it searches around]
    said,      \* history: editions the service has answered from
    due,       \* [request -> deadline of its context]
    troubled   \* history: something outside the program has failed

Service == INSTANCE RoutesService

ASSUME FacetsAssumption == /\ IsFiniteSet(FacetFields)
                           /\ FacetFields \cap {"total", "results"} = {}
ASSUME NobodyAssumption == NoCaller \notin Requests \cup (Requests \X Service!Parts)
ASSUME TimesAssumption == /\ TTL \in Nat /\ NamesTTL \in Nat
                          /\ Timeout \in Nat /\ MaxNow \in Nat
                          /\ MaxVersion \in Nat /\ MaxEdition \in Nat

Editions == 0 .. MaxEdition
CacheKeys == Service!Parts \X Editions
Cache == INSTANCE CachedRepository WITH
            Callers <- Requests \X Service!Parts,
            Keys <- CacheKeys,
            ListKeys <- (Service!Parts \ {"total"}) \X Editions

(* The body of an answer comes with io.ReadAll, which reports when it is   *)
(* cut short: no key is a list.  The lookup has the context of the search. *)
Names == INSTANCE CachedRepository WITH
            Callers <- Requests,
            Keys <- {"place"},
            ListKeys <- {},
            TTL <- NamesTTL,
            MaxVersion <- MaxEdition,
            version <- edition, superseded <- replaced, storage <- places,
            flight <- asking, pc <- find, key <- place, began <- asked,
            deadline <- findBy, cancelled <- forgone, result <- found,
            seen <- heard, floor <- heardBy

serviceVars == <<kind, main, ctx, task, buffer, remaining, got, reply>>
cacheVars == <<now, version, superseded, storage, flight, pc, key, began,
               deadline, cancelled, result, seen, floor>>
namesVars == <<edition, replaced, places, asking, find, place, asked, findBy,
               forgone, found, heard, heardBy>>
searchVars == <<namesVars, centre, said>>
vars == <<serviceVars, cacheVars, searchVars, due, troubled>>

Init ==
    /\ Service!Init
    /\ kind = [r \in Requests |-> Kind]
    /\ Cache!Init
    /\ key = [c \in Requests \X Service!Parts |-> <<c[2], 0>>]
    /\ Names!Init
    /\ centre = [r \in Requests |-> 0]
    /\ said = {}
    /\ due = [r \in Requests |-> 0]
    /\ troubled = FALSE

-----------------------------------------------------------------------------
Begin(r) ==
    /\ now + Timeout <= MaxNow
    /\ Service!Begin(r)
    /\ Kind # "refData" => main'[r] = "lookup"
    /\ due' = [due EXCEPT ![r] = now + Timeout]
    /\ UNCHANGED <<cacheVars, searchVars, troubled>>

(* Search returns and its deferred cancel reaches its callers' queries.    *)
Cancelled(r) == Cache!Cancel({r} \X Service!Parts)

(* Search calls namesApi.Find with its context; Find looks in the names     *)
(* cache, waits for the fetch another search has begun, or fetches.        *)
Find(r) ==
    /\ main[r] = "lookup"
    /\ Names!Call(r, "place", IF ctx[r] = "live" THEN due[r] ELSE now)
    /\ UNCHANGED <<serviceVars, cacheVars, centre, said, due, troubled>>

NamesStep(r) ==
    /\ \/ Names!Hit(r) \/ Names!Miss(r) \/ Names!Lead(r) \/ Names!Join(r)
       \/ Names!EndRows(r) \/ Names!Set(r) \/ Names!Finish(r)
    /\ UNCHANGED <<serviceVars, cacheVars, centre, said, due, troubled>>

(* The service answers; a place it does not know is nil without an error.  *)
FetchAnswers(r) ==
    /\ Names!StartQuery(r)
    /\ said' = said \cup {edition}
    /\ UNCHANGED <<serviceVars, cacheVars, centre, due, troubled>>

(* No connection, half a body, a status other than 200, or not JSON.       *)
FetchFailsFault(r) ==
    /\ find[r] \in {"query", "rows"}
    /\ found' = [found EXCEPT ![r] = [ok |-> TRUE, ver |-> 0, cutAt |-> -1]]
    /\ find' = [find EXCEPT ![r] = "set"]
    /\ troubled' = (troubled \/ now >= due[r] \/ ~Names!CtxDone(r))
    /\ UNCHANGED <<edition, replaced, places, asking, place, asked, findBy, forgone,
                   heard, heardBy, serviceVars, cacheVars, centre, said, due>>
FetchFails(r) ==
    /\ Names!FailQuery(r)
    /\ troubled' = (troubled \/ now >= due[r] \/ ~Names!CtxDone(r))
    /\ UNCHANGED <<serviceVars, cacheVars, centre, said, due>>

(* Find returns, and Search goes on around the centre or fails.            *)
Lookup(r) ==
    /\ Names!Return(r)
    /\ \/ /\ found[r].ok
          /\ Service!LookupReturns(r)
          /\ centre' = [centre EXCEPT ![r] = found[r].ver]
          /\ UNCHANGED cacheVars
       \/ /\ ~found[r].ok
          /\ Service!LookupFails(r)
          /\ Cancelled(r)
          /\ UNCHANGED centre
    /\ UNCHANGED <<said, due, troubled>>

(* The names service learns of the place, or of another of that name.      *)
NewEdition ==
    /\ Names!Store
    /\ UNCHANGED <<serviceVars, cacheVars, centre, said, due, troubled>>

(* import-data stores a route: an answer may have parts from before and    *)
(* from after.                                                             *)
ImportStores ==
    /\ Cache!Store
    /\ UNCHANGED <<serviceVars, searchVars, due, troubled>>

Collect(r) ==
    \/ /\ \/ Service!Spawn(r)
          \/ \E p \in Service!Parts : Service!Receive(r, p) \/ Service!Send(r, p)
       /\ UNCHANGED <<cacheVars, searchVars, due, troubled>>
    \/ /\ \/ \E p \in Service!Parts : Service!ReceiveError(r, p)
          \/ Service!ContextDone(r)
          \/ Service!AllReceived(r)
       /\ Cancelled(r)
       /\ UNCHANGED <<searchVars, due, troubled>>

(* A goroutine calls the cache with the request's context, which may be    *)
(* done before it gets to run.                                             *)
Enter(r, p) ==
    /\ Service!Enter(r, p)
    /\ Cache!Call(<<r, p>>, <<p, centre[r]>>, IF ctx[r] = "live" THEN due[r] ELSE now)
    /\ UNCHANGED <<searchVars, due, troubled>>

Exit(r, p) ==
    /\ Cache!Return(<<r, p>>)
    /\ Service!Exit(r, p, result[<<r, p>>].ok)
    /\ UNCHANGED <<searchVars, due, troubled>>

(* The database refuses a query, or the connection is lost under it.       *)
Trouble(c) ==
    /\ ~Cache!CtxDone(c)
    /\ Cache!FailQuery(c) \/ Cache!CutRows(c)
    /\ troubled' = TRUE
    /\ UNCHANGED <<serviceVars, searchVars, due>>

(* What the context of the leader does to its query.                       *)
QueryEndedByContext(c) ==
    /\ Cache!CtxDone(c)
    /\ Cache!FailQuery(c) \/ Cache!CutRows(c)
    /\ troubled' = (troubled \/ now >= due[c[1]])
    /\ UNCHANGED <<serviceVars, searchVars, due>>

CacheStep(c) ==
    /\ \/ Cache!Hit(c) \/ Cache!Miss(c) \/ Cache!Lead(c) \/ Cache!Join(c)
       \/ Cache!StartQuery(c) \/ Cache!EndRows(c) \/ Cache!Set(c) \/ Cache!Finish(c)
    /\ UNCHANGED <<serviceVars, searchVars, due, troubled>>

Expire(r) ==
    /\ now >= due[r]
    /\ Service!Expire(r)
    /\ troubled' = TRUE
    /\ UNCHANGED <<cacheVars, searchVars, due>>

(* Timers fire on time.                                                    *)
Tick ==
    /\ \A r \in Requests :
          (main[r] \notin {"idle", "done"} /\ ctx[r] = "live") => now < due[r]
    /\ Cache!Tick
    /\ Names!Tick
    /\ UNCHANGED <<serviceVars, centre, said, due, troubled>>

Callers == Requests \X Service!Parts

Next ==
    \/ \E r \in Requests : \/ Begin(r) \/ Lookup(r) \/ Collect(r) \/ Expire(r)
                           \/ Find(r) \/ NamesStep(r) \/ FetchAnswers(r) \/ FetchFails(r)
    \/ NewEdition \/ ImportStores
    \/ \E r \in Requests, p \in Service!Parts : Enter(r, p) \/ Exit(r, p)
    \/ \E c \in Callers : Trouble(c) \/ QueryEndedByContext(c) \/ CacheStep(c)
    \/ Tick

Spec == Init /\ [][Next]_vars

(* Goroutines run, timers fire and time passes; the database need not      *)
(* answer a query whose context is live.                                   *)
AnswersQuery(c) == CacheStep(c) /\ (pc[c] = "rows" => Cache!CtxDone(c))
                   /\ (pc[c] = "query" => Cache!CtxDone(c))
Fairness ==
    /\ SF_vars(Tick)
    /\ \A r \in Requests :
          /\ WF_vars(Begin(r) \/ Find(r) \/ Lookup(r) \/ Collect(r))
          /\ WF_vars(NamesStep(r) /\ (find[r] = "rows" => Names!CtxDone(r)))
          /\ WF_vars(FetchFails(r) /\ Names!CtxDone(r))
          /\ WF_vars(Expire(r))
    /\ \A r \in Requests, p \in Service!Parts : WF_vars(Enter(r, p)) /\ WF_vars(Exit(r, p))
    /\ \A c \in Callers : WF_vars(QueryEndedByContext(c) \/ AnswersQuery(c))
FairSpec == Spec /\ Fairness

-----------------------------------------------------------------------------
(* A search fails only when something outside the program has failed: a    *)
(* database call, the lookup of a place, or a deadline that passed.  That  *)
(* searches share flights does not let a search that ends well, whose      *)
(* deferred cancel would end queries others wait for, fail another.        *)
FailuresHaveACause ==
    \A r \in Requests : reply[r] \in {"error", "ctxError"} => troubled

(* ... and no list is cut short, cached or handed out, without such cause. *)
TruncationsHaveACause ==
    /\ \A k \in CacheKeys : storage[k].cutAt >= 0 => troubled
    /\ \A c \in Callers : (pc[c] # "idle" /\ result[c].cutAt >= 0) => troubled

(* A search by place goes around what the names service has said, and had  *)
(* not taken back NamesTTL + Timeout before the search began: it goes      *)
(* without a centre, over all routes, only if the service did not know the *)
(* place, and not because an attempt to ask it had failed.                 *)
CentreIsTheServices ==
    \A r \in Requests : (Kind # "refData" /\ main[r] \in {"spawn", "collect"}) =>
        /\ centre[r] \in said
        /\ due[r] <= Names!Fresh(centre[r]) + NamesTTL + 2 * Timeout

(* What a part of a search is given was current TTL + 2 * Timeout before   *)
(* the search had to end, though its goroutine may have come late, and the *)
(* query may be another search's: the parts of an answer may differ, but   *)
(* by no more than what is stored in that time.                            *)
PartsAreRecent ==
    \A r \in Requests, p \in Service!Parts :
        (pc[<<r, p>>] = "return" /\ result[<<r, p>>].ok) =>
            due[r] <= Cache!Fresh(result[<<r, p>>].ver) + TTL + 2 * Timeout

(* The parts of searches are the reads of StaleReads, whatever cancels,    *)
(* outlives or overtakes them.                                             *)
PartsAreStaleReads == Cache!ReadsAreStaleReads

(* Every request is answered, and all its goroutines end, even when the    *)
(* database hangs: what RoutesService assumes of its calls, the cache      *)
(* delivers, to the followers of somebody else's flight too.               *)
EveryRequestEnds ==
    \A r \in Requests :
        main[r] # "idle" ~> /\ main[r] = "done"
                               /\ \A p \in Service!Parts : task[r][p] \in {"none", "ended"}

=============================================================================
