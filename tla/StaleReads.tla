----------------------------- MODULE StaleReads -----------------------------
(***************************************************************************)
(* What the read-through cache of src/repositories/cache.go promises its   *)
(* callers, with no cache in it: a caller asks for a key, is answered at   *)
(* one instant with some version of the data or with an error, perhaps     *)
(* together with others who asked the same, and returns.  The version may  *)
(* be out of date, but not by more than MaxStaleness when the question was *)
(* asked, and it is never older than what an answer for the same key,      *)
(* returned before the question, already was.                              *)
(***************************************************************************)
EXTENDS Integers

CONSTANTS
    Callers,      \* goroutines that call the repository
    Keys,         \* cache keys: a repository method with its arguments
    MaxVersion,   \* bound: commits the database sees
    MaxStaleness  \* how long a superseded version may still be handed out

VARIABLES
    now,          \* wall clock
    version,      \* commits of the database so far: the current version
    superseded,   \* [version -> instant at which it stopped being current]
    phase,        \* [caller -> "idle", "asking" or "answered"]
    key,          \* [caller -> the key of its latest question]
    began,        \* [caller -> when it asked]
    floor,        \* [caller -> newest version returned for the key by then]
    answer,       \* [caller -> the answer it is about to return]
    seen          \* [key -> newest version returned so far]

vars == <<now, version, superseded, phase, key, began, floor, answer, seen>>

Versions == 0 .. MaxVersion

NoAnswer == [ok |-> FALSE, ver |-> 0]

Init ==
    /\ now = 0
    /\ version = 0
    /\ superseded = [v \in Versions |-> 0]
    /\ phase = [c \in Callers |-> "idle"]
    /\ key \in [Callers -> Keys]
    /\ began = [c \in Callers |-> 0]
    /\ floor = [c \in Callers |-> 0]
    /\ answer = [c \in Callers |-> NoAnswer]
    /\ seen = [k \in Keys |-> 0]

(* The last instant, up to now, at which v was current. *)
Fresh(v) == IF v = version THEN now ELSE superseded[v]

Ask(c, k) ==
    /\ phase[c] = "idle"
    /\ phase' = [phase EXCEPT ![c] = "asking"]
    /\ key' = [key EXCEPT ![c] = k]
    /\ began' = [began EXCEPT ![c] = now]
    /\ floor' = [floor EXCEPT ![c] = seen[k]]
    /\ UNCHANGED <<now, version, superseded, answer, seen>>

(* Version v is an answer c may be given now. *)
Acceptable(c, v) ==
    /\ floor[c] <= v /\ v <= version
    /\ began[c] <= Fresh(v) + MaxStaleness

(* The callers in S get the same answer, r, at once. *)
Answer(S, r) ==
    /\ \A c \in S : /\ phase[c] = "asking"
                    /\ r.ok => Acceptable(c, r.ver)
    /\ phase' = [c \in Callers |-> IF c \in S THEN "answered" ELSE phase[c]]
    /\ answer' = [c \in Callers |-> IF c \in S THEN r ELSE answer[c]]
    /\ UNCHANGED <<now, version, superseded, key, began, floor, seen>>

Return(c) ==
    /\ phase[c] = "answered"
    /\ seen' = IF answer[c].ok /\ answer[c].ver > seen[key[c]]
               THEN [seen EXCEPT ![key[c]] = answer[c].ver]
               ELSE seen
    /\ phase' = [phase EXCEPT ![c] = "idle"]
    /\ answer' = [answer EXCEPT ![c] = NoAnswer]
    /\ began' = [began EXCEPT ![c] = 0]
    /\ floor' = [floor EXCEPT ![c] = 0]
    /\ UNCHANGED <<now, version, superseded, key>>

Commit ==
    /\ version < MaxVersion
    /\ version' = version + 1
    /\ superseded' = [superseded EXCEPT ![version] = now]
    /\ UNCHANGED <<now, phase, key, began, floor, answer, seen>>

Tick ==
    /\ now' = now + 1
    /\ UNCHANGED <<version, superseded, phase, key, began, floor, answer, seen>>

Next ==
    \/ \E c \in Callers, k \in Keys : Ask(c, k)
    \/ \E S \in SUBSET Callers, r \in [ok : BOOLEAN, ver : Versions] : Answer(S, r)
    \/ \E c \in Callers : Return(c)
    \/ Commit
    \/ Tick

Spec == Init /\ [][Next]_vars

=============================================================================
