-------------------------- MODULE CachedRepository --------------------------
(***************************************************************************)
(* The read-through cache in front of the database,                        *)
(* src/repositories/cache.go: every read goes through memoize.Call, that   *)
(* is go-cache (Storage, entries that expire) with singleflight in front   *)
(* of the wrapped repository.  Callers are the goroutines of               *)
(* src/services/service_impl.go; each has a context with a deadline that   *)
(* its search may also cancel.                                             *)
(*                                                                         *)
(* The data are abstracted to the number of commits the database has seen  *)
(* when a query takes its snapshot, and to whether all the rows arrived.   *)
(* The database is written by the import job, a process of its own, so     *)
(* nothing in this process learns of a commit.                             *)
(*                                                                         *)
(* A definition named ...Fault is a faulty form of the one that follows    *)
(* it.  No behaviour uses it: put in the other's place, it makes the       *)
(* property of a run fail, which shows what the property watches.          *)
(***************************************************************************)
EXTENDS Integers

CONSTANTS
    Callers,     \* goroutines that call the repository
    Keys,        \* cache keys: a method with its arguments
    ListKeys,    \* keys of the methods that iterate over rows.Next
    NoCaller,    \* "no flight"
    TTL,         \* DefaultExpiration of an entry, 90s in the code
    Timeout,     \* longest a context lives, searchTimeout in the code
    MaxVersion,  \* bound: commits the database sees
    MaxNow       \* bound: the clock

ASSUME KeysAssumption == ListKeys \subseteq Keys
ASSUME NoCallerAssumption == NoCaller \notin Callers
ASSUME TimesAssumption == /\ TTL \in Nat
                          /\ Timeout \in Nat
                          /\ MaxNow \in Nat
                          /\ MaxVersion \in Nat

VARIABLES
    now,         \* wall clock
    version,     \* commits of the database so far: its current version
    superseded,  \* history: [version -> instant it stopped being current]
    storage,     \* go-cache: [key -> entry]
    flight,      \* singleflight.Group.m: [key -> leader of the call]
    pc,          \* [caller -> where in memoize.Call it is]
    key,         \* [caller -> the key it asks for]
    began,       \* history: [caller -> when it called]
    deadline,    \* [caller -> deadline of its context]
    cancelled,   \* callers whose context was cancelled
    result,      \* [caller -> what it has read or been given]
    seen,        \* history: [key -> newest version returned so far]
    floor        \* history: [caller -> seen[key] when it called]

dbVars == <<version, superseded>>
callVars == <<key, began, deadline, floor>>
vars == <<now, version, superseded, storage, flight, pc, key, began,
          deadline, cancelled, result, seen, floor>>

-----------------------------------------------------------------------------
Versions == 0 .. MaxVersion

(* An entry of the cache; `cutAt' is -1 when all rows of the query had     *)
(* arrived and else the instant at which the rows ended early.             *)
Entry == [ver : Versions, cutAt : Int, expires : Int]
NoEntry == [ver |-> 0, cutAt |-> -1, expires |-> -1]
Present(k) == storage[k].expires >= 0
Live(k) == now <= storage[k].expires

Result == [ok : BOOLEAN, ver : Versions, cutAt : Int]
Error == [ok |-> FALSE, ver |-> 0, cutAt |-> -1]

(* query: fn runs, nothing sent yet; rows: the snapshot is taken and rows  *)
(* arrive; set: fn returned no error; finish: doCall is about to delete    *)
(* the call from the group.                                                *)
Leading == {"query", "rows", "set", "finish"}
Phases == {"idle", "get", "do", "wait", "return"} \cup Leading

CtxDoneFault(c) == FALSE
CtxDone(c) == c \in cancelled \/ now >= deadline[c]

Init ==
    /\ now = 0
    /\ version = 0
    /\ superseded = [v \in Versions |-> 0]
    /\ storage = [k \in Keys |-> NoEntry]
    /\ flight = [k \in Keys |-> NoCaller]
    /\ pc = [c \in Callers |-> "idle"]
    /\ key \in [Callers -> Keys]
    /\ began = [c \in Callers |-> 0]
    /\ deadline = [c \in Callers |-> 0]
    /\ cancelled = {}
    /\ result = [c \in Callers |-> Error]
    /\ seen = [k \in Keys |-> 0]
    /\ floor = [c \in Callers |-> 0]

-----------------------------------------------------------------------------
(* A caller enters CountAll, FacetCounts, FindByObjectID or SearchHits     *)
(* with a context made at or before the call, so that at most Timeout of   *)
(* it is left.  The bound on the clock leaves room for the deadline.       *)
CallFault(c, k, d) ==
    /\ pc[c] = "idle"
    /\ now <= d /\ d <= now + Timeout
    /\ d <= MaxNow
    /\ pc' = [pc EXCEPT ![c] = "get"]
    /\ key' = [key EXCEPT ![c] = k]
    /\ began' = [began EXCEPT ![c] = now]
    /\ deadline' = [deadline EXCEPT ![c] = d + Timeout]
    /\ floor' = [floor EXCEPT ![c] = seen[k]]
    /\ UNCHANGED <<now, dbVars, storage, flight, cancelled, result, seen>>
CallUncachedFault(c, k, d) ==
    /\ pc[c] = "idle"
    /\ now <= d /\ d <= now + Timeout
    /\ d <= MaxNow
    /\ pc' = [pc EXCEPT ![c] = "query"]
    /\ key' = [key EXCEPT ![c] = k]
    /\ began' = [began EXCEPT ![c] = now]
    /\ deadline' = [deadline EXCEPT ![c] = d]
    /\ floor' = [floor EXCEPT ![c] = seen[k]]
    /\ UNCHANGED <<now, dbVars, storage, flight, cancelled, result, seen>>
Call(c, k, d) ==
    /\ pc[c] = "idle"
    /\ now <= d /\ d <= now + Timeout
    /\ d <= MaxNow
    /\ pc' = [pc EXCEPT ![c] = "get"]
    /\ key' = [key EXCEPT ![c] = k]
    /\ began' = [began EXCEPT ![c] = now]
    /\ deadline' = [deadline EXCEPT ![c] = d]
    /\ floor' = [floor EXCEPT ![c] = seen[k]]
    /\ UNCHANGED <<now, dbVars, storage, flight, cancelled, result, seen>>

(* memoize.Call, Storage.Get: an entry is a hit until its expiration has   *)
(* passed.  Nothing is locked, so the flight is looked up later.           *)
Hit(c) ==
    /\ pc[c] = "get"
    /\ Live(key[c])
    /\ result' = [result EXCEPT ![c] = [ok |-> TRUE,
                                        ver |-> storage[key[c]].ver,
                                        cutAt |-> storage[key[c]].cutAt]]
    /\ pc' = [pc EXCEPT ![c] = "return"]
    /\ UNCHANGED <<now, dbVars, storage, flight, callVars, cancelled, seen>>

Miss(c) ==
    /\ pc[c] = "get"
    /\ ~Live(key[c])
    /\ pc' = [pc EXCEPT ![c] = "do"]
    /\ UNCHANGED <<now, dbVars, storage, flight, callVars, cancelled, result, seen>>

(* singleflight.Do: the first caller of a key leads, the others wait for   *)
(* it whatever becomes of their own contexts.                              *)
Lead(c) ==
    /\ pc[c] = "do"
    /\ flight[key[c]] = NoCaller
    /\ flight' = [flight EXCEPT ![key[c]] = c]
    /\ pc' = [pc EXCEPT ![c] = "query"]
    /\ UNCHANGED <<now, dbVars, storage, callVars, cancelled, result, seen>>

Join(c) ==
    /\ pc[c] = "do"
    /\ flight[key[c]] # NoCaller
    /\ pc' = [pc EXCEPT ![c] = "wait"]
    /\ UNCHANGED <<now, dbVars, storage, flight, callVars, cancelled, result, seen>>

(* The wrapped repository's query takes its snapshot with the context of   *)
(* the leader and is refused when that context is done; it may fail, and   *)
(* so may the scan of any of its rows.                                     *)
StartQuery(c) ==
    /\ pc[c] = "query"
    /\ ~CtxDone(c)
    /\ result' = [result EXCEPT ![c] = [ok |-> TRUE, ver |-> version, cutAt |-> -1]]
    /\ pc' = [pc EXCEPT ![c] = "rows"]
    /\ UNCHANGED <<now, dbVars, storage, flight, callVars, cancelled, seen>>

FailQuery(c) ==
    /\ pc[c] \in {"query", "rows"}
    /\ result' = [result EXCEPT ![c] = Error]
    /\ pc' = [pc EXCEPT ![c] = "finish"]
    /\ UNCHANGED <<now, dbVars, storage, flight, callVars, cancelled, seen>>

EndRows(c) ==
    /\ pc[c] = "rows"
    /\ pc' = [pc EXCEPT ![c] = "set"]
    /\ UNCHANGED <<now, dbVars, storage, flight, callVars, cancelled, result, seen>>

(* The context ends or the connection is lost while rows arrive.  Only     *)
(* QueryRow().Scan reports it; the loops over rows.Next end as if there    *)
(* were no more rows, because nothing calls rows.Err().                    *)
CutRows(c) ==
    /\ pc[c] = "rows"
    /\ key[c] \in ListKeys
    /\ result' = [result EXCEPT ![c].cutAt = now]
    /\ pc' = [pc EXCEPT ![c] = "set"]
    /\ UNCHANGED <<now, dbVars, storage, flight, callVars, cancelled, seen>>

(* fn returned no error: Storage.Set, still inside the flight.             *)
Set(c) ==
    /\ pc[c] = "set"
    /\ storage' = [storage EXCEPT ![key[c]] =
                     [ver |-> result[c].ver, cutAt |-> result[c].cutAt,
                      expires |-> now + TTL]]
    /\ pc' = [pc EXCEPT ![c] = "finish"]
    /\ UNCHANGED <<now, dbVars, flight, callVars, cancelled, result, seen>>

(* The callers that wait for the flight c leads. *)
Followers(c) == {d \in Callers : pc[d] = "wait" /\ key[d] = key[c]}

(* doCall deletes the call from the group and hands the leader's result,   *)
(* value or error, to everyone who waits for it.                           *)
Finish(c) ==
    /\ pc[c] = "finish"
    /\ flight' = [flight EXCEPT ![key[c]] = NoCaller]
    /\ result' = [d \in Callers |-> IF d \in Followers(c) THEN result[c] ELSE result[d]]
    /\ pc' = [d \in Callers |-> IF d = c \/ d \in Followers(c) THEN "return" ELSE pc[d]]
    /\ UNCHANGED <<now, dbVars, storage, callVars, cancelled, seen>>

(* memoize.Call returns; the call's own state is gone with it.             *)
ReturnFault(c) ==
    /\ pc[c] = "return"
    /\ seen' = IF result[c].ok /\ result[c].ver > seen[key[c]]
               THEN [seen EXCEPT ![key[c]] = result[c].ver]
               ELSE seen
    /\ pc' = [pc EXCEPT ![c] = "idle"]
    /\ result' = [result EXCEPT ![c] = Error]
    /\ began' = [began EXCEPT ![c] = 0]
    /\ floor' = [floor EXCEPT ![c] = 0]
    /\ deadline' = [deadline EXCEPT ![c] = 0]
    /\ cancelled' = cancelled \ {c}
    /\ storage' = IF result[c].ok
                  THEN [storage EXCEPT ![key[c]] =
                           [ver |-> result[c].ver, cutAt |-> result[c].cutAt, expires |-> now + TTL]]
                  ELSE storage
    /\ UNCHANGED <<now, dbVars, flight, key>>
Return(c) ==
    /\ pc[c] = "return"
    /\ seen' = IF result[c].ok /\ result[c].ver > seen[key[c]]
               THEN [seen EXCEPT ![key[c]] = result[c].ver]
               ELSE seen
    /\ pc' = [pc EXCEPT ![c] = "idle"]
    /\ result' = [result EXCEPT ![c] = Error]
    /\ began' = [began EXCEPT ![c] = 0]
    /\ floor' = [floor EXCEPT ![c] = 0]
    /\ deadline' = [deadline EXCEPT ![c] = 0]
    /\ cancelled' = cancelled \ {c}
    /\ UNCHANGED <<now, dbVars, storage, flight, key>>

(* The search that the callers in S work for returns, perhaps early (an    *)
(* error of one part), and its deferred cancel runs.  Nobody looks at a    *)
(* context once its caller waits or its query is over.                     *)
Cancel(S) ==
    /\ cancelled' = cancelled \cup
          {c \in S : pc[c] \in {"get", "do", "query", "rows"}}
    /\ UNCHANGED <<now, dbVars, storage, flight, pc, callVars, result, seen>>

(* Store: the wrapped repository commits; no entry is invalidated.         *)
Store ==
    /\ version < MaxVersion
    /\ version' = version + 1
    /\ superseded' = [superseded EXCEPT ![version] = now]
    /\ UNCHANGED <<now, storage, flight, pc, callVars, cancelled, result, seen>>

(* go-cache's janitor deletes expired entries.                             *)
Purge ==
    /\ \E k \in Keys : Present(k) /\ ~Live(k)
    /\ storage' = [k \in Keys |-> IF Live(k) THEN storage[k] ELSE NoEntry]
    /\ UNCHANGED <<now, dbVars, flight, pc, callVars, cancelled, result, seen>>

(* Time passes.  A context's timer cuts a query off at its deadline, and   *)
(* what follows a query up to the end of the flight is a few instructions: *)
(* the clock does not pass the deadline of a leader.                       *)
Tick ==
    /\ now < MaxNow
    /\ \A c \in Callers : pc[c] \in Leading => now < deadline[c]
    /\ now' = now + 1
    /\ UNCHANGED <<dbVars, storage, flight, pc, callVars, cancelled, result, seen>>

Flight(c) == StartQuery(c) \/ FailQuery(c) \/ EndRows(c) \/ CutRows(c) \/ Set(c) \/ Finish(c)

Next ==
    \/ \E c \in Callers, k \in Keys, d \in 0 .. MaxNow : Call(c, k, d)
    \/ \E c \in Callers : \/ Hit(c) \/ Miss(c) \/ Lead(c) \/ Join(c)
                          \/ Flight(c) \/ Return(c)
    \/ \E S \in SUBSET Callers : Cancel(S)
    \/ Store
    \/ Purge
    \/ Tick

Spec == Init /\ [][Next]_vars

-----------------------------------------------------------------------------
TypeOK ==
    /\ now \in 0 .. MaxNow
    /\ version \in Versions
    /\ superseded \in [Versions -> 0 .. MaxNow]
    /\ storage \in [Keys -> Entry]
    /\ flight \in [Keys -> Callers \cup {NoCaller}]
    /\ pc \in [Callers -> Phases]
    /\ key \in [Callers -> Keys]
    /\ began \in [Callers -> 0 .. MaxNow]
    /\ deadline \in [Callers -> 0 .. MaxNow]
    /\ cancelled \subseteq Callers
    /\ result \in [Callers -> Result]
    /\ seen \in [Keys -> Versions]
    /\ floor \in [Callers -> Versions]

(* However the callers' Gets, waits and flights interleave, the database   *)
(* runs at most one query per key, and it is the one the group knows of.   *)
OneQueryPerKey ==
    \A c \in Callers : pc[c] \in Leading => flight[key[c]] = c

(* The last instant, up to now, at which v was the current version.        *)
Fresh(v) == IF v = version THEN now ELSE superseded[v]

(* A caller is given data that were still current TTL + Timeout before it  *)
(* called: a follower, or a hit on an entry a slow query filled, gets      *)
(* nothing older, though no commit ever invalidates an entry.              *)
BoundedStaleness ==
    \A c \in Callers : (pc[c] = "return" /\ result[c].ok) =>
        began[c] <= Fresh(result[c].ver) + TTL + Timeout

(* Reads of a key never go back in time: once any caller has been answered *)
(* with a version, a call that starts later gets that version or a newer   *)
(* one, although a caller that missed may start a second query after the   *)
(* entry was filled, and an answered follower may be slow to return.       *)
MonotonicReads ==
    \A c \in Callers : (pc[c] = "return" /\ result[c].ok) =>
        floor[c] <= result[c].ver

(* A list that was cut short and cached as if it were whole is not handed  *)
(* to anyone who asks later than TTL + Timeout after the cut.              *)
TruncationPasses ==
    \A c \in Callers : (pc[c] = "return" /\ result[c].ok /\ result[c].cutAt >= 0) =>
        began[c] <= result[c].cutAt + TTL + Timeout

(* The entry of a key never goes back to an older version while it is in   *)
(* the cache, whoever refills it.                                          *)
EntriesAdvance ==
    [][\A k \in Keys : (Present(k) /\ storage'[k].expires >= 0) =>
          storage[k].ver <= storage'[k].ver]_vars

(* To its callers the cache is a register whose reads are boundedly stale  *)
(* and monotonic: a call asks, the Get that hits or the end of the flight  *)
(* answers, and everything in between is invisible.                        *)
PhaseOf(p) == CASE p = "idle" -> "idle" [] p = "return" -> "answered" [] OTHER -> "asking"
AnswerOf(c) == IF pc[c] = "return"
               THEN [ok |-> result[c].ok, ver |-> result[c].ver]
               ELSE [ok |-> FALSE, ver |-> 0]
Reads == INSTANCE StaleReads WITH
            phase <- [c \in Callers |-> PhaseOf(pc[c])],
            answer <- [c \in Callers |-> AnswerOf(c)],
            MaxStaleness <- TTL + Timeout

ReadsAreStaleReads == Reads!Spec

=============================================================================
