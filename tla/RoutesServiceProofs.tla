------------------------ MODULE RoutesServiceProofs -------------------------
(***************************************************************************)
(* Theorems about RoutesService, for any number of requests and any finite *)
(* set of facets: no goroutine ever waits to send, and a successful answer *)
(* has all its parts.  The invariant follows each part from its goroutine  *)
(* to one channel, and from there to main, and counts what is missing.     *)
(***************************************************************************)
EXTENDS RoutesService, FiniteSetTheorems, TLAPS

(* Nothing has been started, sent or received before the go statements.    *)
Quiet ==
    \A r \in Requests : main[r] \in {"idle", "lookup", "spawn", "call"} =>
        /\ \A p \in Parts : task[r][p] = "none"
        /\ \A ch \in Channels : buffer[r][ch] = {}
        /\ got[r] = {}
        /\ reply[r] = "none"

Unanswered ==
    \A r \in Requests : /\ main[r] = "collect" => reply[r] = "none"
                        /\ main[r] = "call" => kind[r] = "route"

OnlyWanted == \A r \in Requests, p \in Parts : task[r][p] # "none" => p \in Wanted(r)

(* A part is on one channel at most, and only after its goroutine sent it. *)
Sent ==
    \A r \in Requests, ch \in Channels, p \in Parts : p \in buffer[r][ch] =>
        /\ task[r][p] = "ended"
        /\ ch \in {"error", ChannelOf(p)}
        /\ \A other \in Channels \ {ch} : p \notin buffer[r][other]

Received ==
    \A r \in Requests, p \in Parts : p \in got[r] =>
        /\ task[r][p] = "ended"
        /\ \A ch \in Channels : p \notin buffer[r][ch]

Counted ==
    \A r \in Requests : main[r] = "collect" =>
        remaining[r] = Cardinality(Wanted(r) \ got[r])

IInv ==
    /\ TypeOK
    /\ Quiet
    /\ Unanswered
    /\ OnlyWanted
    /\ Sent
    /\ Received
    /\ Counted
    /\ AnswersAreWhole

USE FacetsAssumption

-----------------------------------------------------------------------------
(* What a method asks for is a finite set of parts, and the error channel  *)
(* has room for as many messages.                                          *)
LEMMA WantedFits ==
    ASSUME TypeOK, NEW r \in Requests
    PROVE  /\ Wanted(r) \subseteq Parts
           /\ IsFiniteSet(Wanted(r))
           /\ Cardinality(Wanted(r)) \in Nat
           /\ kind[r] # "route" => Cardinality(Wanted(r)) <= Capacity(r, "error")
<1>1. IsFiniteSet(FacetFields) /\ Cardinality(FacetFields) \in Nat
  BY FS_CardinalityType
<1>2. /\ IsFiniteSet(FacetFields \cup {"total"})
      /\ Cardinality(FacetFields \cup {"total"}) = Cardinality(FacetFields) + 1
  <2>1. "total" \notin FacetFields
    OBVIOUS
  <2> QED
    BY <2>1, <1>1, FS_AddElement
<1>3. /\ IsFiniteSet((FacetFields \cup {"total"}) \cup {"results"})
      /\ Cardinality((FacetFields \cup {"total"}) \cup {"results"}) = Cardinality(FacetFields) + 2
  <2>1. "results" \notin FacetFields \cup {"total"}
    OBVIOUS
  <2>2. Cardinality(FacetFields \cup {"total"}) + 1 = Cardinality(FacetFields) + 2
    BY <1>1, <1>2
  <2> QED
    BY <2>1, <2>2, <1>2, FS_AddElement
<1>4. Parts = (FacetFields \cup {"total"}) \cup {"results"}
  BY DEF Parts
<1>5. {"total", "results"} \subseteq Parts /\ FacetFields \subseteq Parts
  BY DEF Parts
<1>6. /\ IsFiniteSet({"total"}) /\ Cardinality({"total"}) = 1
      /\ IsFiniteSet({"total"} \cup {"results"})
      /\ Cardinality({"total"} \cup {"results"}) = 2
  <2>1. IsFiniteSet({"total"}) /\ Cardinality({"total"}) = 1 /\ "results" \notin {"total"}
    BY FS_Singleton
  <2>2. 1 + 1 = 2
    OBVIOUS
  <2> QED
    BY <2>1, <2>2, FS_AddElement
<1>7. {"total", "results"} = {"total"} \cup {"results"}
  OBVIOUS
<1>8. IsFiniteSet({}) /\ Cardinality({}) = 0
  BY FS_EmptySet
<1>9. kind[r] \in Kinds
  BY DEF TypeOK
<1>10. CASE kind[r] = "search"
  <2>1. Wanted(r) = Parts /\ Capacity(r, "error") = 2 + Cardinality(FacetFields)
    BY <1>10 DEF Wanted, Capacity
  <2> QED
    BY <2>1, <1>1, <1>3, <1>4
<1>11. CASE kind[r] = "searchSkipFacets"
  <2>1. /\ Wanted(r) = {"total", "results"}
        /\ Capacity(r, "error") = 2 + Cardinality(FacetFields)
    BY <1>11 DEF Wanted, Capacity
  <2> QED
    BY <2>1, <1>1, <1>5, <1>6, <1>7
<1>12. CASE kind[r] = "refData"
  <2>1. Wanted(r) = FacetFields /\ Capacity(r, "error") = 0 + Cardinality(FacetFields)
    BY <1>12 DEF Wanted, Capacity
  <2> QED
    BY <2>1, <1>1, <1>5
<1>13. CASE kind[r] = "route"
  <2>1. Wanted(r) = {}
    BY <1>13 DEF Wanted
  <2> QED
    BY <2>1, <1>8, <1>13
<1> QED
  BY <1>9, <1>10, <1>11, <1>12, <1>13 DEF Kinds

(* Receiving one more part lowers the count of the missing ones by one.    *)
LEMMA OneLess ==
    ASSUME NEW W, IsFiniteSet(W), NEW G, NEW p \in W, p \notin G
    PROVE  /\ Cardinality(W \ (G \cup {p})) = Cardinality(W \ G) - 1
           /\ Cardinality(W \ G) \in Nat /\ Cardinality(W \ G) > 0
<1>1. IsFiniteSet(W \ G) /\ p \in W \ G
  BY FS_Difference
<1>2. W \ (G \cup {p}) = (W \ G) \ {p}
  OBVIOUS
<1>3. Cardinality((W \ G) \ {p}) = Cardinality(W \ G) - 1
  BY <1>1, FS_RemoveElement
<1>4. Cardinality(W \ G) \in Nat /\ Cardinality(W \ G) # 0
  BY <1>1, FS_CardinalityType, FS_EmptySet
<1> QED
  BY <1>2, <1>3, <1>4

-----------------------------------------------------------------------------
(* The invariant leaves a sender room: whoever else is on the channel is   *)
(* one of the parts it can carry, and not the sender's.                    *)
LEMMA RoomToSend == IInv => SendsNeverBlock
<1> SUFFICES ASSUME IInv, NEW r \in Requests, NEW p \in Parts
             PROVE  /\ task[r][p] = "sendValue" =>
                          Cardinality(buffer[r][ChannelOf(p)]) < Capacity(r, ChannelOf(p))
                    /\ task[r][p] = "sendError" =>
                          Cardinality(buffer[r]["error"]) < Capacity(r, "error")
  BY DEF SendsNeverBlock
<1>t. TypeOK
  BY DEF IInv
<1>b. \A ch \in Channels : buffer[r][ch] \subseteq Parts
  BY <1>t DEF TypeOK
<1>1. CASE task[r][p] = "sendValue"
  <2>1. \A ch \in Channels : p \notin buffer[r][ch]
    BY <1>1 DEF IInv, Sent
  <2>2. CASE p \in FacetFields
    <3>1. buffer[r]["facets"] \subseteq FacetFields \ {p}
      BY <2>1, <1>b DEF IInv, Sent, ChannelOf, Channels, Parts
    <3>2. /\ IsFiniteSet(FacetFields \ {p})
          /\ Cardinality(FacetFields \ {p}) = Cardinality(FacetFields) - 1
          /\ Cardinality(FacetFields) \in Nat
      BY <2>2, FS_RemoveElement, FS_CardinalityType
    <3>3. /\ Cardinality(buffer[r]["facets"]) <= Cardinality(FacetFields) - 1
          /\ Cardinality(buffer[r]["facets"]) \in Nat
      BY <3>1, <3>2, FS_Subset, FS_CardinalityType
    <3>4. ChannelOf(p) = "facets" /\ Capacity(r, "facets") = Cardinality(FacetFields)
      BY <2>2 DEF ChannelOf, Capacity
    <3> QED
      BY <1>1, <3>2, <3>3, <3>4
  <2>3. CASE p \in {"total", "results"}
    <3>1. ChannelOf(p) = p /\ Capacity(r, p) = 1 /\ p \in Channels
      BY <2>3 DEF ChannelOf, Capacity, Channels
    <3>2. buffer[r][p] = {}
      <4>1. SUFFICES ASSUME NEW q \in buffer[r][p] PROVE FALSE
        OBVIOUS
      <4>2. q \in Parts /\ p \in {"error", ChannelOf(q)}
        BY <3>1, <1>b DEF IInv, Sent
      <4>3. q = p
        BY <4>2, <2>3 DEF ChannelOf
      <4> QED
        BY <4>3, <2>1, <3>1
    <3> QED
      BY <1>1, <3>1, <3>2, FS_EmptySet
  <2> QED
    BY <2>2, <2>3 DEF Parts
<1>2. CASE task[r][p] = "sendError"
  <2>1. p \in Wanted(r) /\ kind[r] # "route"
    BY <1>2, <1>t DEF IInv, OnlyWanted, Wanted, TypeOK, Kinds
  <2>2. buffer[r]["error"] \subseteq Wanted(r) \ {p}
    <3>1. \A q \in buffer[r]["error"] : q \in Parts /\ task[r][q] = "ended"
      BY <1>b DEF IInv, Sent, Channels
    <3> QED
      BY <3>1, <1>2 DEF IInv, OnlyWanted
  <2>3. /\ IsFiniteSet(Wanted(r)) /\ Cardinality(Wanted(r)) \in Nat
        /\ Cardinality(Wanted(r)) <= Capacity(r, "error")
    BY <1>t, <2>1, WantedFits
  <2>4. /\ IsFiniteSet(Wanted(r) \ {p})
        /\ Cardinality(Wanted(r) \ {p}) = Cardinality(Wanted(r)) - 1
    BY <2>1, <2>3, FS_RemoveElement
  <2>5. /\ Cardinality(buffer[r]["error"]) <= Cardinality(Wanted(r)) - 1
        /\ Cardinality(buffer[r]["error"]) \in Nat
    BY <2>2, <2>4, FS_Subset, FS_CardinalityType
  <2>6. Capacity(r, "error") \in Int
    BY FS_CardinalityType DEF Capacity
  <2> QED
    BY <1>2, <2>3, <2>5, <2>6
<1> QED
  BY <1>1, <1>2

-----------------------------------------------------------------------------
(* A channel's content can be replaced by any set of parts.                *)
LEMMA BufferUpdate ==
    ASSUME NEW B \in [Requests -> [Channels -> SUBSET Parts]],
           NEW r \in Requests, NEW ch \in Channels, NEW S \in SUBSET Parts
    PROVE  [B EXCEPT ![r][ch] = S] \in [Requests -> [Channels -> SUBSET Parts]]
<1>1. [B[r] EXCEPT ![ch] = S] \in [Channels -> SUBSET Parts]
  OBVIOUS
<1> QED
  BY <1>1

LEMMA ChannelsOfParts == \A p \in Parts : ChannelOf(p) \in Channels
BY DEF Parts, ChannelOf, Channels

(* Every variable keeps its type; the count stays a natural number because *)
(* main receives only while it is positive.                                *)
LEMMA TypeStep == TypeOK /\ [Next]_vars => TypeOK'
<1> SUFFICES ASSUME TypeOK, [Next]_vars PROVE TypeOK'
  OBVIOUS
<1> USE DEF TypeOK, Mains, Tasks, Replies, Kinds
<1>1. ASSUME NEW r \in Requests, Begin(r) PROVE TypeOK'
  BY <1>1 DEF Begin
<1>2. ASSUME NEW r \in Requests, LookupReturns(r) PROVE TypeOK'
  BY <1>2 DEF LookupReturns
<1>3. ASSUME NEW r \in Requests, LookupFails(r) PROVE TypeOK'
  BY <1>3 DEF LookupFails, Reply
<1>4. ASSUME NEW r \in Requests, Spawn(r) PROVE TypeOK'
  <2>1. Cardinality(Wanted(r)) \in Nat
    BY WantedFits
  <2> QED
    BY <2>1, <1>4 DEF Spawn
<1>5. ASSUME NEW r \in Requests, NEW p \in Parts, Receive(r, p) PROVE TypeOK'
  <2>1. ChannelOf(p) \in Channels
    BY ChannelsOfParts
  <2>2. buffer' \in [Requests -> [Channels -> SUBSET Parts]]
    BY <1>5, <2>1, BufferUpdate DEF Receive
  <2>3. remaining' \in [Requests -> Nat]
    BY <1>5 DEF Receive, Collecting
  <2>4. got' \in [Requests -> SUBSET Parts]
    BY <1>5 DEF Receive
  <2> QED
    BY <1>5, <2>2, <2>3, <2>4 DEF Receive
<1>6. ASSUME NEW r \in Requests, NEW p \in Parts, ReceiveError(r, p) PROVE TypeOK'
  <2>1. buffer' \in [Requests -> [Channels -> SUBSET Parts]]
    BY <1>6, BufferUpdate DEF ReceiveError, Channels
  <2> QED
    BY <1>6, <2>1 DEF ReceiveError, Reply
<1>7. ASSUME NEW r \in Requests, ContextDone(r) PROVE TypeOK'
  BY <1>7 DEF ContextDone, Reply
<1>8. ASSUME NEW r \in Requests, AllReceived(r) PROVE TypeOK'
  BY <1>8 DEF AllReceived, Reply
<1>9. ASSUME NEW r \in Requests, NEW ok \in BOOLEAN, RouteReturns(r, ok) PROVE TypeOK'
  BY <1>9 DEF RouteReturns, Reply
<1>10. ASSUME NEW r \in Requests, NEW p \in Parts, Enter(r, p) PROVE TypeOK'
  BY <1>10 DEF Enter
<1>11. ASSUME NEW r \in Requests, NEW p \in Parts, Send(r, p) PROVE TypeOK'
  <2> DEFINE ch == IF task[r][p] = "sendValue" THEN ChannelOf(p) ELSE "error"
  <2>1. ch \in Channels
    BY ChannelsOfParts DEF Channels
  <2>2. buffer' = [buffer EXCEPT ![r][ch] = @ \cup {p}]
    BY <1>11 DEF Send
  <2>3. buffer' \in [Requests -> [Channels -> SUBSET Parts]]
    <3> HIDE DEF ch
    <3>1. buffer[r][ch] \cup {p} \in SUBSET Parts
      BY <2>1
    <3> QED
      BY <2>1, <2>2, <3>1, BufferUpdate
  <2>4. task' \in [Requests -> [Parts -> Tasks]]
    BY <1>11 DEF Send
  <2> QED
    BY <1>11, <2>3, <2>4 DEF Send
<1>12. ASSUME NEW r \in Requests, NEW p \in Parts, NEW ok \in BOOLEAN, Exit(r, p, ok)
       PROVE  TypeOK'
  BY <1>12 DEF Exit
<1>13. ASSUME NEW r \in Requests, Expire(r) PROVE TypeOK'
  BY <1>13 DEF Expire
<1>14. ASSUME UNCHANGED vars PROVE TypeOK'
  BY <1>14 DEF vars
<1> QED
  BY <1>1, <1>2, <1>3, <1>4, <1>5, <1>6, <1>7, <1>8, <1>9, <1>10, <1>11,
     <1>12, <1>13, <1>14 DEF Next, Main

-----------------------------------------------------------------------------
(* The invariant holds when no request has begun ...                        *)
LEMMA InitHolds == Init => IInv
<1> SUFFICES ASSUME Init PROVE IInv
  OBVIOUS
<1> USE DEF Init
<1>1. TypeOK
  BY DEF TypeOK, Kinds, Mains, Tasks, Replies
<1>2. Quiet /\ Unanswered /\ OnlyWanted /\ Sent /\ Received /\ Counted
  BY DEF Quiet, Unanswered, OnlyWanted, Sent, Received, Counted
<1>3. AnswersAreWhole
  BY DEF AnswersAreWhole
<1> QED
  BY <1>1, <1>2, <1>3 DEF IInv

(* ... and every step keeps it: one step per action, one per conjunct.     *)
LEMMA StepKeeps == IInv /\ [Next]_vars => IInv'
<1> SUFFICES ASSUME IInv, [Next]_vars PROVE IInv'
  OBVIOUS
<1>t. TypeOK /\ TypeOK'
  BY TypeStep DEF IInv
<1>k. \A s \in Requests : Wanted(s)' = Wanted(s)
  <2>1. kind' = kind
    BY DEF Next, Main, Begin, LookupReturns, LookupFails, Spawn, Receive, ReceiveError,
       ContextDone, AllReceived, RouteReturns, Enter, Send, Exit, Expire, vars
  <2> QED
    BY <2>1 DEF Wanted
<1>e. "error" \in Channels /\ \A q \in Parts : ChannelOf(q) \in Channels
  BY ChannelsOfParts DEF Channels
<1>c. (\A s \in Requests : main'[s] = "collect" =>
           remaining'[s] = Cardinality(Wanted(s) \ got'[s])) => Counted'
  BY <1>k DEF Counted
<1>f. \A s \in Requests : IsFiniteSet(Wanted(s))
  BY <1>t, WantedFits
<1>s. ASSUME NEW s \in Requests, Wanted(s) \ got[s] = {}, got[s] \subseteq Wanted(s)
      PROVE  got[s] = Wanted(s)
  BY <1>s
<1>o. ASSUME NEW s \in Requests, NEW p \in Wanted(s), p \notin got[s]
      PROVE  Cardinality(Wanted(s) \ (got[s] \cup {p})) = Cardinality(Wanted(s) \ got[s]) - 1
  BY <1>o, <1>f, OneLess
<1>d. ASSUME NEW r \in Requests,
             \A s \in Requests \ {r} : /\ main'[s] = main[s] /\ got'[s] = got[s]
                                       /\ remaining'[s] = remaining[s],
             main'[r] = "collect" => remaining'[r] = Cardinality(Wanted(r) \ got'[r])
      PROVE  Counted'
  <2>1. ASSUME NEW s \in Requests, main'[s] = "collect"
        PROVE  remaining'[s] = Cardinality(Wanted(s) \ got'[s])
    <3>1. CASE s = r
      BY <1>d, <2>1, <3>1
    <3>2. CASE s # r
      BY <1>d, <2>1, <3>2 DEF IInv, Counted
    <3> QED
      BY <3>1, <3>2
  <2> QED
    BY <1>c, <2>1
<1> USE <1>t, <1>k, <1>e DEF IInv, TypeOK, Quiet, Unanswered, OnlyWanted, Sent, Received, Counted, AnswersAreWhole
<1>1. ASSUME NEW r \in Requests, Begin(r) PROVE IInv'
  <2>1. Quiet'
    BY <1>1 DEF Begin
  <2>2. Unanswered'
    BY <1>1 DEF Begin
  <2>3. OnlyWanted'
    BY <1>1 DEF Begin
  <2>4. Sent'
    BY <1>1 DEF Begin
  <2>5. Received'
    BY <1>1 DEF Begin
  <2>6. Counted'
    BY <1>c, <1>1 DEF Begin
  <2>7. AnswersAreWhole'
    BY <1>1 DEF Begin
  <2> QED
    BY <2>1, <2>2, <2>3, <2>4, <2>5, <2>6, <2>7
<1>2. ASSUME NEW r \in Requests, LookupReturns(r) PROVE IInv'
  <2>1. Quiet'
    BY <1>2 DEF LookupReturns
  <2>2. Unanswered'
    BY <1>2 DEF LookupReturns
  <2>3. OnlyWanted'
    BY <1>2 DEF LookupReturns
  <2>4. Sent'
    BY <1>2 DEF LookupReturns
  <2>5. Received'
    BY <1>2 DEF LookupReturns
  <2>6. Counted'
    BY <1>c, <1>2 DEF LookupReturns
  <2>7. AnswersAreWhole'
    BY <1>2 DEF LookupReturns
  <2> QED
    BY <2>1, <2>2, <2>3, <2>4, <2>5, <2>6, <2>7
<1>3. ASSUME NEW r \in Requests, LookupFails(r) PROVE IInv'
  <2>1. Quiet'
    BY <1>3 DEF LookupFails, Reply
  <2>2. Unanswered'
    BY <1>3 DEF LookupFails, Reply
  <2>3. OnlyWanted'
    BY <1>3 DEF LookupFails, Reply
  <2>4. Sent'
    BY <1>3 DEF LookupFails, Reply
  <2>5. Received'
    BY <1>3 DEF LookupFails, Reply
  <2>6. Counted'
    BY <1>c, <1>3 DEF LookupFails, Reply
  <2>7. AnswersAreWhole'
    BY <1>3 DEF LookupFails, Reply
  <2> QED
    BY <2>1, <2>2, <2>3, <2>4, <2>5, <2>6, <2>7
<1>4. ASSUME NEW r \in Requests, Spawn(r) PROVE IInv'
  <2>1. Quiet'
    BY <1>4 DEF Spawn
  <2>2. Unanswered'
    BY <1>4 DEF Spawn
  <2>3. OnlyWanted'
    BY <1>4 DEF Spawn
  <2>4. Sent'
    BY <1>4 DEF Spawn
  <2>5. Received'
    BY <1>4 DEF Spawn
  <2>6. Counted'
    <3>1. got' = got /\ got[r] = {} /\ Wanted(r) \ {} = Wanted(r)
      BY <1>4 DEF Spawn
    <3>2. remaining'[r] = Cardinality(Wanted(r) \ got'[r])
      BY <1>4, <3>1 DEF Spawn
    <3>3. \A s \in Requests \ {r} : /\ main'[s] = main[s] /\ got'[s] = got[s]
                                    /\ remaining'[s] = remaining[s]
      BY <1>4, <3>1 DEF Spawn
    <3> QED
      BY <1>d, <3>2, <3>3
  <2>7. AnswersAreWhole'
    BY <1>4 DEF Spawn
  <2> QED
    BY <2>1, <2>2, <2>3, <2>4, <2>5, <2>6, <2>7
<1>5. ASSUME NEW r \in Requests, NEW p \in Parts, Receive(r, p) PROVE IInv'
  <2>1. Quiet'
    BY <1>5 DEF Receive, Collecting
  <2>2. Unanswered'
    BY <1>5 DEF Receive, Collecting
  <2>3. OnlyWanted'
    BY <1>5 DEF Receive, Collecting
  <2>4. Sent'
    BY <1>5 DEF Receive, Collecting
  <2>5. Received'
    BY <1>5 DEF Receive, Collecting
  <2>6. Counted'
    <3>1. p \in Wanted(r) /\ p \notin got[r]
      BY <1>5 DEF Receive
    <3>2. Cardinality(Wanted(r) \ (got[r] \cup {p})) = Cardinality(Wanted(r) \ got[r]) - 1
      BY <3>1, <1>o
    <3>3. got'[r] = got[r] \cup {p} /\ remaining'[r] = remaining[r] - 1
      BY <1>5 DEF Receive
    <3>4. remaining'[r] = Cardinality(Wanted(r) \ got'[r])
      <4>1. main[r] = "collect"
        BY <1>5 DEF Receive, Collecting
      <4> QED
        BY <3>2, <3>3, <4>1
    <3>5. \A s \in Requests \ {r} : /\ main'[s] = main[s] /\ got'[s] = got[s]
                                    /\ remaining'[s] = remaining[s]
      BY <1>5 DEF Receive
    <3> QED
      BY <1>d, <3>4, <3>5
  <2>7. AnswersAreWhole'
    BY <1>5 DEF Receive, Collecting
  <2> QED
    BY <2>1, <2>2, <2>3, <2>4, <2>5, <2>6, <2>7
<1>6. ASSUME NEW r \in Requests, NEW p \in Parts, ReceiveError(r, p) PROVE IInv'
  <2>1. Quiet'
    BY <1>6 DEF ReceiveError, Reply, Collecting
  <2>2. Unanswered'
    BY <1>6 DEF ReceiveError, Reply, Collecting
  <2>3. OnlyWanted'
    BY <1>6 DEF ReceiveError, Reply, Collecting
  <2>4. Sent'
    BY <1>6 DEF ReceiveError, Reply, Collecting
  <2>5. Received'
    BY <1>6 DEF ReceiveError, Reply, Collecting
  <2>6. Counted'
    BY <1>c, <1>6 DEF ReceiveError, Reply, Collecting
  <2>7. AnswersAreWhole'
    BY <1>6 DEF ReceiveError, Reply, Collecting
  <2> QED
    BY <2>1, <2>2, <2>3, <2>4, <2>5, <2>6, <2>7
<1>7. ASSUME NEW r \in Requests, ContextDone(r) PROVE IInv'
  <2>1. Quiet'
    BY <1>7 DEF ContextDone, Reply, Collecting
  <2>2. Unanswered'
    BY <1>7 DEF ContextDone, Reply, Collecting
  <2>3. OnlyWanted'
    BY <1>7 DEF ContextDone, Reply, Collecting
  <2>4. Sent'
    BY <1>7 DEF ContextDone, Reply, Collecting
  <2>5. Received'
    BY <1>7 DEF ContextDone, Reply, Collecting
  <2>6. Counted'
    BY <1>c, <1>7 DEF ContextDone, Reply, Collecting
  <2>7. AnswersAreWhole'
    BY <1>7 DEF ContextDone, Reply, Collecting
  <2> QED
    BY <2>1, <2>2, <2>3, <2>4, <2>5, <2>6, <2>7
<1>8. ASSUME NEW r \in Requests, AllReceived(r) PROVE IInv'
  <2>1. Quiet'
    BY <1>8 DEF AllReceived, Reply
  <2>2. Unanswered'
    BY <1>8 DEF AllReceived, Reply
  <2>3. OnlyWanted'
    BY <1>8 DEF AllReceived, Reply
  <2>4. Sent'
    BY <1>8 DEF AllReceived, Reply
  <2>5. Received'
    BY <1>8 DEF AllReceived, Reply
  <2>6. Counted'
    BY <1>c, <1>8 DEF AllReceived, Reply
  <2>7. AnswersAreWhole'
    <3>1. Wanted(r) \ got[r] = {}
      <4>1. IsFiniteSet(Wanted(r) \ got[r])
        BY <1>f, FS_Difference
      <4>2. Cardinality(Wanted(r) \ got[r]) = 0
        BY <1>8 DEF AllReceived
      <4> QED
        BY <4>1, <4>2, FS_EmptySet
    <3>2. got[r] = Wanted(r)
      <4>1. got[r] \subseteq Wanted(r)
        OBVIOUS
      <4> QED
        BY <3>1, <4>1, <1>s
    <3>3. \A q \in Wanted(r) : task[r][q] = "ended"
      BY <3>2
    <3>4. buffer[r]["error"] = {}
      <4>1. SUFFICES ASSUME NEW q \in buffer[r]["error"] PROVE FALSE
        OBVIOUS
      <4>2. q \in Parts /\ task[r][q] = "ended"
        OBVIOUS
      <4>3. q \in Wanted(r)
        BY <4>2
      <4> QED
        BY <3>2, <4>2, <4>3
    <3> QED
      BY <1>8, <3>2, <3>3, <3>4 DEF AllReceived, Reply
  <2> QED
    BY <2>1, <2>2, <2>3, <2>4, <2>5, <2>6, <2>7
<1>9. ASSUME NEW r \in Requests, NEW ok \in BOOLEAN, RouteReturns(r, ok) PROVE IInv'
  <2>1. Quiet'
    BY <1>9 DEF RouteReturns, Reply
  <2>2. Unanswered'
    BY <1>9 DEF RouteReturns, Reply
  <2>3. OnlyWanted'
    BY <1>9 DEF RouteReturns, Reply
  <2>4. Sent'
    BY <1>9 DEF RouteReturns, Reply
  <2>5. Received'
    BY <1>9 DEF RouteReturns, Reply
  <2>6. Counted'
    BY <1>c, <1>9 DEF RouteReturns, Reply
  <2>7. AnswersAreWhole'
    BY <1>9 DEF RouteReturns, Reply
  <2> QED
    BY <2>1, <2>2, <2>3, <2>4, <2>5, <2>6, <2>7
<1>10. ASSUME NEW r \in Requests, NEW p \in Parts, Enter(r, p) PROVE IInv'
  <2>1. Quiet'
    BY <1>10 DEF Enter
  <2>2. Unanswered'
    BY <1>10 DEF Enter
  <2>3. OnlyWanted'
    BY <1>10 DEF Enter
  <2>4. Sent'
    BY <1>10 DEF Enter
  <2>5. Received'
    BY <1>10 DEF Enter
  <2>6. Counted'
    BY <1>c, <1>10 DEF Enter
  <2>7. AnswersAreWhole'
    BY <1>10 DEF Enter
  <2> QED
    BY <2>1, <2>2, <2>3, <2>4, <2>5, <2>6, <2>7
<1>11. ASSUME NEW r \in Requests, NEW p \in Parts, Send(r, p) PROVE IInv'
  <2>1. Quiet'
    BY <1>11 DEF Send
  <2>2. Unanswered'
    BY <1>11 DEF Send
  <2>3. OnlyWanted'
    BY <1>11 DEF Send
  <2>4. Sent'
    BY <1>11 DEF Send
  <2>5. Received'
    BY <1>11 DEF Send
  <2>6. Counted'
    BY <1>c, <1>11 DEF Send
  <2>7. AnswersAreWhole'
    BY <1>11 DEF Send
  <2> QED
    BY <2>1, <2>2, <2>3, <2>4, <2>5, <2>6, <2>7
<1>12. ASSUME NEW r \in Requests, NEW p \in Parts, NEW ok \in BOOLEAN, Exit(r, p, ok) PROVE IInv'
  <2>1. Quiet'
    BY <1>12 DEF Exit
  <2>2. Unanswered'
    BY <1>12 DEF Exit
  <2>3. OnlyWanted'
    BY <1>12 DEF Exit
  <2>4. Sent'
    BY <1>12 DEF Exit
  <2>5. Received'
    BY <1>12 DEF Exit
  <2>6. Counted'
    BY <1>c, <1>12 DEF Exit
  <2>7. AnswersAreWhole'
    BY <1>12 DEF Exit
  <2> QED
    BY <2>1, <2>2, <2>3, <2>4, <2>5, <2>6, <2>7
<1>13. ASSUME NEW r \in Requests, Expire(r) PROVE IInv'
  <2>1. Quiet'
    BY <1>13 DEF Expire
  <2>2. Unanswered'
    BY <1>13 DEF Expire
  <2>3. OnlyWanted'
    BY <1>13 DEF Expire
  <2>4. Sent'
    BY <1>13 DEF Expire
  <2>5. Received'
    BY <1>13 DEF Expire
  <2>6. Counted'
    BY <1>c, <1>13 DEF Expire
  <2>7. AnswersAreWhole'
    BY <1>13 DEF Expire
  <2> QED
    BY <2>1, <2>2, <2>3, <2>4, <2>5, <2>6, <2>7
<1>14. ASSUME UNCHANGED vars PROVE IInv'
  BY <1>14 DEF vars, Wanted
<1> QED
  BY <1>1, <1>2, <1>3, <1>4, <1>5, <1>6, <1>7, <1>8, <1>9, <1>10, <1>11,
     <1>12, <1>13, <1>14 DEF Next, Main

-----------------------------------------------------------------------------
(* The invariant holds in every reachable state of the service.            *)
THEOREM Invariance == Spec => []IInv
<1>1. Init => IInv
  BY InitHolds
<1>2. IInv /\ [Next]_vars => IInv'
  BY StepKeeps
<1> QED
  BY <1>1, <1>2, PTL DEF Spec

(* The variables keep their types; main's count of missing messages never  *)
(* falls below zero.                                                       *)
THEOREM TypeCorrect == Spec => []TypeOK
<1>1. IInv => TypeOK
  BY DEF IInv
<1> QED
  BY <1>1, Invariance, PTL

(* For any number of facets and requests, the capacities that              *)
(* service_impl.go computes leave every goroutine room to send.            *)
THEOREM NobodyWaitsToSend == Spec => []SendsNeverBlock
BY RoomToSend, Invariance, PTL

(* A request that succeeds has all its parts, whatever ran in what order.  *)
THEOREM WholeAnswers == Spec => []AnswersAreWhole
<1>1. IInv => AnswersAreWhole
  BY DEF IInv
<1> QED
  BY <1>1, Invariance, PTL

=============================================================================
