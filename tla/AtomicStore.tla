---------------------------- MODULE AtomicStore ----------------------------
(***************************************************************************)
(* What import-data and the readers of src/repositories/postgres.go may    *)
(* believe of the store, with no transactions, statements or connections   *)
(* in it.  A route is one register, which holds all the rows of a document *)
(* or nothing.  A run of import-data puts its files one after the other,   *)
(* each at one instant and at most once, and completes when it has put     *)
(* them all.  A request for a route samples the register once for each     *)
(* part of its answer, the route itself first: so the parts may be of      *)
(* different documents, but what is sampled is always the whole of one,    *)
(* or, for a part that is cut off, some of it.                             *)
(***************************************************************************)
EXTENDS Integers, Sequences

CONSTANTS
    Runs,      \* runs of import-data
    Readers,   \* requests for a route
    Files,     \* the route each file of the import folder holds, in order
    Parts,     \* parts of an answer
    Main       \* the part without which there is no route

VARIABLES
    document,  \* [route -> the document it holds, as a set of one, or {}]
    stored,    \* documents put so far
    completed, \* runs that have reported completion
    phase,     \* [reader -> "idle", "ask", "found", "notFound" or "failed"]
    route,     \* [reader -> the route it asked for]
    sampled,   \* [reader -> parts it has]
    got,       \* [reader -> [part -> documents whose rows it got]]
    cut        \* [reader -> parts it may not have got all of]

vars == <<document, stored, completed, phase, route, sampled, got, cut>>

Ids == {Files[i] : i \in DOMAIN Files}

Init ==
    /\ document = [id \in Ids |-> {}]
    /\ stored = {}
    /\ completed = {}
    /\ phase = [d \in Readers |-> "idle"]
    /\ route \in [Readers -> Ids]
    /\ sampled = [d \in Readers |-> {}]
    /\ got = [d \in Readers |-> [p \in Parts |-> {}]]
    /\ cut = [d \in Readers |-> {}]

Put(r, i) ==
    /\ <<r, i>> \notin stored
    /\ \A j \in 1..i - 1 : <<r, j>> \in stored
    /\ document' = [document EXCEPT ![Files[i]] = {<<r, i>>}]
    /\ stored' = stored \cup {<<r, i>>}
    /\ UNCHANGED <<completed, phase, route, sampled, got, cut>>

Complete(r) ==
    /\ \A i \in DOMAIN Files : <<r, i>> \in stored
    /\ completed' = completed \cup {r}
    /\ UNCHANGED <<document, stored, phase, route, sampled, got, cut>>

Ask(d) ==
    /\ phase[d] = "idle"
    /\ phase' = [phase EXCEPT ![d] = "ask"]
    /\ UNCHANGED <<document, stored, completed, route, sampled, got, cut>>

Sample(d, p, rows) ==
    /\ phase[d] = "ask"
    /\ p \notin sampled[d]
    /\ p = Main <=> sampled[d] = {}
    /\ \/ rows = document[route[d]] /\ UNCHANGED cut
       \/ p # Main /\ cut' = [cut EXCEPT ![d] = @ \cup {p}]
    /\ sampled' = [sampled EXCEPT ![d] = @ \cup {p}]
    /\ got' = [got EXCEPT ![d][p] = rows]
    /\ phase' = [phase EXCEPT ![d] =
           IF p = Main /\ rows = {} THEN "notFound"
           ELSE IF sampled'[d] = Parts THEN "found" ELSE "ask"]
    /\ UNCHANGED <<document, stored, completed, route>>

Fail(d) ==
    /\ phase[d] = "ask"
    /\ phase' = [phase EXCEPT ![d] = "failed"]
    /\ UNCHANGED <<document, stored, completed, route, sampled, got, cut>>

Next ==
    \/ \E r \in Runs, i \in DOMAIN Files : Put(r, i)
    \/ \E r \in Runs : Complete(r)
    \/ \E d \in Readers : Ask(d) \/ Fail(d)
    \/ \E d \in Readers, p \in Parts : \E rows \in SUBSET document[route[d]] : Sample(d, p, rows)

Spec == Init /\ [][Next]_vars

=============================================================================
