--------------------------- MODULE RoutesService ----------------------------
(***************************************************************************)
(* The scatter-gather of src/services/service_impl.go.  A request's main   *)
(* goroutine makes a context with a deadline, starts one goroutine per     *)
(* part of the answer and collects what they send on buffered channels;    *)
(* it returns at the first error, when the context is done, or when every  *)
(* part has come, and its deferred cancel ends the context in any case.    *)
(* The goroutines it leaves behind must still be able to send and end.     *)
(*                                                                         *)
(* A channel is the set of parts whose message it holds: a goroutine sends *)
(* once, and in which order main takes waiting messages makes no           *)
(* difference to what is said here.  What the repository does with a call  *)
(* is a choice here; CachedSearch composes the two.                        *)
(***************************************************************************)
EXTENDS Integers, FiniteSets

CONSTANTS
    Requests,     \* requests being served, each on its own goroutine
    FacetFields   \* FACET_FIELDS of src/services/facets.go

ASSUME FacetsAssumption ==
    /\ IsFiniteSet(FacetFields)
    /\ FacetFields \cap {"total", "results"} = {}

VARIABLES
    kind,       \* [request -> which method serves it]
    main,       \* [request -> where its main goroutine is]
    ctx,        \* [request -> "live", "expired" or "cancelled"]
    task,       \* [request -> [part -> where its goroutine is]]
    buffer,     \* [request -> [channel -> parts it holds]]
    remaining,  \* [request -> messages main still waits for]
    got,        \* [request -> parts main has received]
    reply       \* [request -> what main returned]

vars == <<kind, main, ctx, task, buffer, remaining, got, reply>>

-----------------------------------------------------------------------------
Parts == {"total", "results"} \cup FacetFields
Channels == {"total", "results", "facets", "error"}
Kinds == {"search", "searchSkipFacets", "refData", "route"}

(* The parts a method of the service asks for.                             *)
Wanted(r) == CASE kind[r] = "search" -> Parts
               [] kind[r] = "searchSkipFacets" -> {"total", "results"}
               [] kind[r] = "refData" -> FacetFields
               [] OTHER -> {}

(* The channel a part's value is sent on, and the channels' capacities.    *)
ChannelOf(p) == IF p \in FacetFields THEN "facets" ELSE p

CapacityFault(r, ch) == 1
Capacity(r, ch) ==
    CASE ch \in {"total", "results"} -> 1
      [] ch = "facets" -> Cardinality(FacetFields)
      [] OTHER -> (IF kind[r] = "refData" THEN 0 ELSE 2) + Cardinality(FacetFields)

Mains == {"idle", "lookup", "spawn", "collect", "call", "done"}
Tasks == {"none", "ready", "calling", "sendValue", "sendError", "ended"}
Replies == {"none", "ok", "error", "ctxError"}

Init ==
    /\ kind \in [Requests -> Kinds]
    /\ main = [r \in Requests |-> "idle"]
    /\ ctx = [r \in Requests |-> "live"]
    /\ task = [r \in Requests |-> [p \in Parts |-> "none"]]
    /\ buffer = [r \in Requests |-> [ch \in Channels |-> {}]]
    /\ remaining = [r \in Requests |-> 0]
    /\ got = [r \in Requests |-> {}]
    /\ reply = [r \in Requests |-> "none"]

(* main returns a, and the deferred cancel ends the context.               *)
Reply(r, a) ==
    /\ main' = [main EXCEPT ![r] = "done"]
    /\ reply' = [reply EXCEPT ![r] = a]
    /\ ctx' = [ctx EXCEPT ![r] = IF @ = "live" THEN "cancelled" ELSE @]

(* context.WithTimeout; Search looks a place name up first when it has no  *)
(* centre yet, GetRouteByID makes its one call itself.                     *)
Begin(r) ==
    /\ main[r] = "idle"
    /\ \/ /\ kind[r] = "route"
          /\ main' = [main EXCEPT ![r] = "call"]
       \/ /\ kind[r] \in {"search", "searchSkipFacets"}
          /\ main' = [main EXCEPT ![r] = "lookup"]
       \/ /\ kind[r] # "route"
          /\ main' = [main EXCEPT ![r] = "spawn"]
    /\ UNCHANGED <<kind, ctx, task, buffer, remaining, got, reply>>

LookupReturns(r) ==
    /\ main[r] = "lookup"
    /\ main' = [main EXCEPT ![r] = "spawn"]
    /\ UNCHANGED <<kind, ctx, task, buffer, remaining, got, reply>>

LookupFails(r) ==
    /\ main[r] = "lookup"
    /\ Reply(r, "error")
    /\ UNCHANGED <<kind, task, buffer, remaining, got>>

(* The go statements; what main waits for is counted as they are made.     *)
SpawnFault(r) ==
    /\ main[r] = "spawn"
    /\ main' = [main EXCEPT ![r] = "collect"]
    /\ task' = [task EXCEPT ![r] = [p \in Parts |->
                   IF p \in Wanted(r) THEN "ready" ELSE "none"]]
    /\ remaining' = [remaining EXCEPT ![r] = Cardinality(Wanted(r)) - 1]
    /\ UNCHANGED <<kind, ctx, buffer, got, reply>>
Spawn(r) ==
    /\ main[r] = "spawn"
    /\ main' = [main EXCEPT ![r] = "collect"]
    /\ task' = [task EXCEPT ![r] = [p \in Parts |->
                   IF p \in Wanted(r) THEN "ready" ELSE "none"]]
    /\ remaining' = [remaining EXCEPT ![r] = Cardinality(Wanted(r))]
    /\ UNCHANGED <<kind, ctx, buffer, got, reply>>

-----------------------------------------------------------------------------
(* The goroutine of a part calls the repository; a call returns a value or *)
(* an error, and may return a value after the context is done.             *)
Enter(r, p) ==
    /\ task[r][p] = "ready"
    /\ task' = [task EXCEPT ![r][p] = "calling"]
    /\ UNCHANGED <<kind, main, ctx, buffer, remaining, got, reply>>

Exit(r, p, ok) ==
    /\ task[r][p] = "calling"
    /\ task' = [task EXCEPT ![r][p] = IF ok THEN "sendValue" ELSE "sendError"]
    /\ UNCHANGED <<kind, main, ctx, buffer, remaining, got, reply>>

(* A send waits while its channel is full.                                 *)
Send(r, p) ==
    LET ch == IF task[r][p] = "sendValue" THEN ChannelOf(p) ELSE "error"
    IN  /\ task[r][p] \in {"sendValue", "sendError"}
        /\ Cardinality(buffer[r][ch]) < Capacity(r, ch)
        /\ buffer' = [buffer EXCEPT ![r][ch] = @ \cup {p}]
        /\ task' = [task EXCEPT ![r][p] = "ended"]
        /\ UNCHANGED <<kind, main, ctx, remaining, got, reply>>

-----------------------------------------------------------------------------
(* The select of main, one action per case.                                *)
Collecting(r) == main[r] = "collect" /\ remaining[r] > 0

ReceiveFault(r, p) ==
    /\ Collecting(r)
    /\ p \in buffer[r][ChannelOf(p)]
    /\ buffer' = [buffer EXCEPT ![r][ChannelOf(p)] = @ \ {p}]
    /\ remaining' = IF p \in FacetFields THEN [remaining EXCEPT ![r] = @ - 1] ELSE remaining
    /\ got' = [got EXCEPT ![r] = @ \cup {p}]
    /\ UNCHANGED <<kind, main, ctx, task, reply>>
ReceiveTwiceFault(r, p) ==
    /\ Collecting(r)
    /\ p \in buffer[r][ChannelOf(p)]
    /\ buffer' = [buffer EXCEPT ![r][ChannelOf(p)] = @ \ {p}]
    /\ remaining' = [remaining EXCEPT ![r] = @ - IF p \in FacetFields THEN 2 ELSE 1]
    /\ got' = [got EXCEPT ![r] = @ \cup {p}]
    /\ UNCHANGED <<kind, main, ctx, task, reply>>
Receive(r, p) ==
    /\ Collecting(r)
    /\ p \in buffer[r][ChannelOf(p)]
    /\ buffer' = [buffer EXCEPT ![r][ChannelOf(p)] = @ \ {p}]
    /\ remaining' = [remaining EXCEPT ![r] = @ - 1]
    /\ got' = [got EXCEPT ![r] = @ \cup {p}]
    /\ UNCHANGED <<kind, main, ctx, task, reply>>

ReceiveError(r, p) ==
    /\ Collecting(r)
    /\ p \in buffer[r]["error"]
    /\ buffer' = [buffer EXCEPT ![r]["error"] = @ \ {p}]
    /\ Reply(r, "error")
    /\ UNCHANGED <<kind, task, remaining, got>>

ContextDoneFault(r) ==
    /\ main[r] = "collect"
    /\ remaining[r] = 0
    /\ ctx[r] # "live"
    /\ Reply(r, "ctxError")
    /\ UNCHANGED <<kind, task, buffer, remaining, got>>
ContextDone(r) ==
    /\ Collecting(r)
    /\ ctx[r] # "live"
    /\ Reply(r, "ctxError")
    /\ UNCHANGED <<kind, task, buffer, remaining, got>>

AllReceived(r) ==
    /\ main[r] = "collect"
    /\ remaining[r] = 0
    /\ Reply(r, "ok")
    /\ UNCHANGED <<kind, task, buffer, remaining, got>>

(* GetRouteByID returns what FindByObjectID returns.                       *)
RouteReturns(r, ok) ==
    /\ main[r] = "call"
    /\ Reply(r, IF ok THEN "ok" ELSE "error")
    /\ UNCHANGED <<kind, task, buffer, remaining, got>>

(* The context's timer fires.                                              *)
Expire(r) ==
    /\ main[r] \notin {"idle", "done"}
    /\ ctx[r] = "live"
    /\ ctx' = [ctx EXCEPT ![r] = "expired"]
    /\ UNCHANGED <<kind, main, task, buffer, remaining, got, reply>>

Main(r) ==
    \/ Begin(r) \/ LookupReturns(r) \/ LookupFails(r) \/ Spawn(r)
    \/ \E p \in Parts : Receive(r, p) \/ ReceiveError(r, p)
    \/ ContextDone(r) \/ AllReceived(r)

Next ==
    \E r \in Requests :
        \/ Main(r)
        \/ \E ok \in BOOLEAN : RouteReturns(r, ok)
        \/ \E p \in Parts : Enter(r, p) \/ Send(r, p)
        \/ \E p \in Parts, ok \in BOOLEAN : Exit(r, p, ok)
        \/ Expire(r)

Spec == Init /\ [][Next]_vars

(* Goroutines that can run do.  That calls of the repository return, and   *)
(* that the timer fires, are premises of the properties that need them.    *)
Goroutines == \A r \in Requests :
    /\ WF_vars(Main(r))
    /\ \A p \in Parts : WF_vars(Enter(r, p)) /\ WF_vars(Send(r, p))
CallsReturn == \A r \in Requests :
    /\ WF_vars(\E ok \in BOOLEAN : RouteReturns(r, ok))
    /\ \A p \in Parts : WF_vars(\E ok \in BOOLEAN : Exit(r, p, ok))
TimerFires == \A r \in Requests : WF_vars(Expire(r))

FairSpec == Spec /\ Goroutines

-----------------------------------------------------------------------------
TypeOK ==
    /\ kind \in [Requests -> Kinds]
    /\ main \in [Requests -> Mains]
    /\ ctx \in [Requests -> {"live", "expired", "cancelled"}]
    /\ task \in [Requests -> [Parts -> Tasks]]
    /\ buffer \in [Requests -> [Channels -> SUBSET Parts]]
    /\ remaining \in [Requests -> Nat]
    /\ got \in [Requests -> SUBSET Parts]
    /\ reply \in [Requests -> Replies]

(* No goroutine ever waits to send, whatever has failed and whether or not *)
(* main still receives: the channels have room for every message that can  *)
(* be sent on them.  An early return of main would otherwise leave         *)
(* goroutines, and the results they hold, behind for ever.                 *)
SendsNeverBlock ==
    \A r \in Requests, p \in Parts :
        /\ task[r][p] = "sendValue" =>
              Cardinality(buffer[r][ChannelOf(p)]) < Capacity(r, ChannelOf(p))
        /\ task[r][p] = "sendError" =>
              Cardinality(buffer[r]["error"]) < Capacity(r, "error")

(* A successful answer has every part the method promises, each received   *)
(* from its goroutine, none of which failed: no zero total, empty list or  *)
(* missing facet stands in for one that had not come.                      *)
AnswersAreWhole ==
    \A r \in Requests : (reply[r] = "ok" /\ kind[r] # "route") =>
        /\ got[r] = Wanted(r)
        /\ \A p \in Wanted(r) : task[r][p] = "ended"
        /\ buffer[r]["error"] = {}

(* When calls return, every request is answered, without help from the     *)
(* timer: main never waits for a message nobody will send.                 *)
EveryRequestIsAnswered ==
    CallsReturn => \A r \in Requests : main[r] # "idle" ~> main[r] = "done"

(* ... and no goroutine outlives its call: each ends, also when main has   *)
(* long returned.                                                          *)
NoGoroutineLeaks ==
    CallsReturn => \A r \in Requests, p \in Parts : task[r][p] = "ready" ~> task[r][p] = "ended"

(* When the timer fires, main answers although calls may hang for ever.    *)
DeadlineIsKept ==
    TimerFires => \A r \in Requests : main[r] = "collect" ~> main[r] = "done"

=============================================================================
