------------------------ MODULE SearchQueriesProofs -----------------------
(***************************************************************************)
(* Theorems about SearchQueries, for any requests and facets, any boxes    *)
(* and distances and every order in which Build may go through the facets. *)
(* Those about what the database makes of a query are for PostgreSQL, which*)
(* the service uses; its holes are numbered.                               *)
(*                                                                         *)
(* The argument: each operation of the builder adds as many holes as       *)
(* parameters, with the same values, but for a box of the wrong length.    *)
(* A query then lacks coordinates or has parameters to spare.  OFFSET and  *)
(* LIMIT, numbers, take the place of missing coordinates and PostgreSQL    *)
(* casts them; the facets of Build, arrays, never can.  So what Build      *)
(* starts from decides whether a query is accepted and what it says.       *)
(***************************************************************************)
EXTENDS SearchQueries, FiniteSetTheorems, WellFoundedInduction, TLAPS

-----------------------------------------------------------------------------
(* Sequences.                                                              *)

(* Induction over the naturals, for a set: the library states it for a     *)
(* predicate, which the provers cannot instantiate.                        *)
LEMMA SetInduction ==
    ASSUME NEW S, 0 \in S, \A n \in Nat : n \in S => n + 1 \in S
    PROVE  \A n \in Nat : n \in S
<1> DEFINE T == Nat \ S
<1>1. SUFFICES ASSUME T # {} PROVE FALSE
  OBVIOUS
<1>2. IsWellFoundedOn(OpToRel(<, Nat), Nat)
  BY NatLessThanWellFounded
<1>3. \E x \in T : \A y \in T : ~ (<<y, x>> \in OpToRel(<, Nat))
  BY <1>1, <1>2, WFMin, T \subseteq Nat
<1>4. PICK x \in T : \A y \in T : ~ (<<y, x>> \in OpToRel(<, Nat))
  BY <1>3
<1>5. \A y \in T : ~(y < x)
  BY <1>4 DEF OpToRel
<1>6. x # 0 /\ x - 1 \in Nat
  OBVIOUS
<1>7. x - 1 \in S
  BY <1>5, <1>6
<1> QED
  BY <1>7

(* A sequence, of whatever it has as elements.                             *)
IsSeq(s) == s \in Seq(ToSet(s))

(* The domain of a sequence.                                               *)
LEMMA SeqFacts ==
    ASSUME NEW s, IsSeq(s)
    PROVE  /\ Len(s) \in Nat
           /\ DOMAIN s = 1..Len(s)
           /\ s = [i \in 1..Len(s) |-> s[i]]
BY DEF IsSeq

(* What Append returns: the elements so far, and one more.                 *)
LEMMA AppendFacts ==
    ASSUME NEW s, IsSeq(s), NEW x
    PROVE  /\ IsSeq(Append(s, x))
           /\ Len(Append(s, x)) = Len(s) + 1
           /\ ToSet(Append(s, x)) = ToSet(s) \cup {x}
           /\ \A i \in 1..Len(s) : Append(s, x)[i] = s[i]
           /\ Append(s, x)[Len(s) + 1] = x
<1> DEFINE T == ToSet(s) \cup {x}
<1>1. s \in Seq(T) /\ x \in T
  BY DEF IsSeq
<1>2. Append(s, x) \in Seq(T) /\ Len(s) \in Nat /\ Len(Append(s, x)) = Len(s) + 1
      /\ DOMAIN s = 1..Len(s) /\ DOMAIN Append(s, x) = 1..Len(s) + 1
      /\ (\A i \in 1..Len(s) : Append(s, x)[i] = s[i])
      /\ Append(s, x)[Len(s) + 1] = x
  BY <1>1
<1>3. ToSet(Append(s, x)) = T
  <2> HIDE DEF T
  <2>1. ToSet(Append(s, x)) = {Append(s, x)[i] : i \in 1..Len(s) + 1}
    BY <1>2 DEF ToSet
  <2>2. ToSet(s) = {s[i] : i \in 1..Len(s)}
    BY <1>2 DEF ToSet
  <2> QED
    BY <1>2, <2>1, <2>2 DEF T
<1> QED
  BY <1>2, <1>3 DEF IsSeq

(* What \o returns: the elements of the one, then those of the other.      *)
LEMMA ConcatFacts ==
    ASSUME NEW s, IsSeq(s), NEW t, IsSeq(t)
    PROVE  /\ IsSeq(s \o t)
           /\ Len(s \o t) = Len(s) + Len(t)
           /\ ToSet(s \o t) = ToSet(s) \cup ToSet(t)
           /\ \A i \in 1..Len(s) : (s \o t)[i] = s[i]
           /\ \A i \in 1..Len(t) : (s \o t)[Len(s) + i] = t[i]
<1> DEFINE T == ToSet(s) \cup ToSet(t)
<1>1. s \in Seq(T) /\ t \in Seq(T)
  BY DEF IsSeq
<1>2. /\ s \o t \in Seq(T) /\ Len(s) \in Nat /\ Len(t) \in Nat /\ Len(s \o t) = Len(s) + Len(t)
      /\ DOMAIN s = 1..Len(s) /\ DOMAIN t = 1..Len(t) /\ DOMAIN (s \o t) = 1..Len(s) + Len(t)
      /\ \A i \in 1..Len(s) + Len(t) : (s \o t)[i] = IF i <= Len(s) THEN s[i] ELSE t[i - Len(s)]
  BY <1>1
<1>3. /\ \A i \in 1..Len(s) : (s \o t)[i] = s[i]
      /\ \A i \in 1..Len(t) : (s \o t)[Len(s) + i] = t[i]
  BY <1>2
<1>4. ToSet(s \o t) = T
  <2> HIDE DEF T
  <2>1. ToSet(s \o t) = {(s \o t)[i] : i \in 1..Len(s) + Len(t)}
    BY <1>2 DEF ToSet
  <2>2. ToSet(s) = {s[i] : i \in 1..Len(s)} /\ ToSet(t) = {t[i] : i \in 1..Len(t)}
    BY <1>2 DEF ToSet
  <2>3. \A x \in ToSet(s \o t) : x \in T
    BY <1>2, <2>1, <2>2 DEF T
  <2>4. \A x \in ToSet(s) : x \in ToSet(s \o t)
    BY <1>2, <1>3, <2>1, <2>2
  <2>5. \A x \in ToSet(t) : x \in ToSet(s \o t)
    <3> TAKE x \in ToSet(t)
    <3>1. PICK i \in 1..Len(t) : x = t[i]
      BY <2>2
    <3>2. Len(s) + i \in 1..Len(s) + Len(t)
      BY <1>2
    <3> QED
      BY <3>1, <3>2, <1>3, <2>1
  <2> QED
    BY <2>3, <2>4, <2>5 DEF T
<1> QED
  BY <1>2, <1>3, <1>4 DEF IsSeq

(* An order of a finite set is a sequence and has all its elements.        *)
LEMMA OrderFacts ==
    ASSUME NEW S, IsFiniteSet(S), NEW order \in SetToSeqs(S)
    PROVE  IsSeq(order) /\ ToSet(order) = S
<1>1. Cardinality(S) \in Nat
  BY FS_CardinalityType
<1> DEFINE n == Cardinality(S)
<1>2. order \in [1..n -> S] /\ \A i, j \in 1..n : i # j => order[i] # order[j]
  BY DEF SetToSeqs
<1>3. order \in Injection(1..n, S)
  BY <1>2 DEF Injection, IsInjective
<1>4. IsFiniteSet(1..n) /\ Cardinality(1..n) = n
  BY <1>1, FS_Interval
<1>5. order \in Surjection(1..n, S)
  BY <1>3, <1>4, FS_Injection
<1>6. \A x \in S : \E i \in 1..n : order[i] = x
  BY <1>5 DEF Surjection
<1>7. ToSet(order) = S
  BY <1>2, <1>6 DEF ToSet
<1>8. order \in Seq(S)
  BY <1>1, <1>2
<1> QED
  BY <1>7, <1>8 DEF IsSeq

-----------------------------------------------------------------------------
(* The builder: what its operations add, and what PostgreSQL makes of it.  *)

(* The builder's record: four sequences.                                   *)
IsBuilder(b) ==
    /\ b = [where |-> b.where, tail |-> b.tail, sort |-> b.sort, params |-> b.params]
    /\ IsSeq(b.where) /\ IsSeq(b.tail) /\ IsSeq(b.sort) /\ IsSeq(b.params)

(* The holes of a list of clauses, and their names.                        *)
HolesIn(s) == UNION {ToSet(clause.holes) : clause \in ToSet(s)}
Names(s) == {clause.name : clause \in ToSet(s)}

(* The holes of a clause for these values, after n parameters.             *)
Numbered(n, type, values) ==
    {[number |-> n + i, type |-> type, means |-> values[i]] : i \in DOMAIN values}

(* What the builder's operations add: holes for "means", and "values" as   *)
(* parameters; a clause to the WHERE part or to the end of the query.      *)
Adds(b, after, type, means, values) ==
    /\ IsBuilder(after)
    /\ after.params = b.params \o values
    /\ Holes(after) = Holes(b) \cup Numbered(Len(b.params), type, means)
AddsWhere(b, after, clause) ==
    /\ after.sort = b.sort /\ after.tail = b.tail /\ after.where = Append(b.where, clause)
AddsTail(b, after, clause) ==
    /\ after.sort = b.sort /\ after.where = b.where /\ after.tail = Append(b.tail, clause)

(* A query that PostgreSQL would accept if it had k parameters more: every *)
(* parameter and every missing one has a hole, the types of a parameter's  *)
(* holes fit each other, and the missing ones are coordinates.             *)
Lacks(b, k) ==
    /\ \A hole \in Holes(b) : hole.number \in 1..Len(b.params) + k
    /\ \A n \in 1..Len(b.params) + k : \E hole \in Holes(b) : hole.number = n
    /\ \A hole \in Holes(b) : hole.number > Len(b.params) => hole.type = "float"
    /\ \A one, other \in Holes(b) : one.number = other.number => Fits(one.type, other.type)

(* Each hole has the parameter that belongs there.                         *)
Right(b) == \A hole \in Holes(b) : b.params[hole.number] = hole.means

(* A query that PostgreSQL refuses whatever facets are added to it: a      *)
(* coordinate is missing or is used as a text or an array, too ...         *)
Torn(b) ==
    \E hole \in Holes(b) :
        /\ hole.type = "float" /\ hole.number \in Nat
        /\ \/ hole.number > Len(b.params)
           \/ \E other \in Holes(b) :
                 other.number = hole.number /\ other.type \notin {"float", "int"}

(* ... or a parameter has no hole, and never gets one.                     *)
Spare(b) == \E m \in 1..Len(b.params) : \A hole \in Holes(b) : hole.number # m

(* PostgreSQL binds by number.                                             *)
LEMMA BindingsAre ==
    ASSUME NEW b, Dialect = "postgres"
    PROVE  /\ Bindings(b) = {<<hole.number, hole>> : hole \in Holes(b)}
           /\ {binding[1] : binding \in Bindings(b)} = {hole.number : hole \in Holes(b)}
<1>1. Bindings(b) = {<<hole.number, hole>> : hole \in Holes(b)}
  BY Zenon DEF Bindings
<1>2. \A binding \in Bindings(b) : \E hole \in Holes(b) : binding = <<hole.number, hole>>
  BY <1>1
<1>3. \A hole \in Holes(b) : <<hole.number, hole>> \in Bindings(b)
  BY <1>1
<1>4. {binding[1] : binding \in Bindings(b)} \subseteq {hole.number : hole \in Holes(b)}
  BY <1>2
<1>5. {hole.number : hole \in Holes(b)} \subseteq {binding[1] : binding \in Bindings(b)}
  <2>1. ASSUME NEW hole \in Holes(b)
        PROVE  \E binding \in Bindings(b) : binding[1] = hole.number
    <3>1. <<hole.number, hole>>[1] = hole.number
      OBVIOUS
    <3> QED
      BY <1>3, <3>1
  <2> QED
    BY <2>1
<1> QED
  BY <1>1, <1>4, <1>5

(* The holes of a clause, one by one.                                      *)
LEMMA NumberedFacts ==
    ASSUME NEW n, NEW type, NEW values
    PROVE  /\ \A hole \in Numbered(n, type, values) : \E i \in DOMAIN values :
                 hole.number = n + i /\ hole.type = type /\ hole.means = values[i]
           /\ \A i \in DOMAIN values :
                 [number |-> n + i, type |-> type, means |-> values[i]] \in Numbered(n, type, values)
<1>1. \A hole \in Numbered(n, type, values) : \E i \in DOMAIN values :
          hole = [number |-> n + i, type |-> type, means |-> values[i]]
  BY DEF Numbered
<1>2. \A i \in DOMAIN values :
          [number |-> n + i, type |-> type, means |-> values[i]] \in Numbered(n, type, values)
  BY DEF Numbered
<1> QED
  BY <1>1, <1>2

(* The holes of a query are those of its three lists of clauses.           *)
LEMMA HolesAreIn ==
    ASSUME NEW b, IsBuilder(b)
    PROVE  Holes(b) = HolesIn(b.where) \cup HolesIn(b.sort) \cup HolesIn(b.tail)
<1>1. ToSet(b.where \o b.sort) = ToSet(b.where) \cup ToSet(b.sort) /\ IsSeq(b.where \o b.sort)
  BY ConcatFacts DEF IsBuilder
<1>2. ToSet(Text(b)) = ToSet(b.where) \cup ToSet(b.sort) \cup ToSet(b.tail)
  BY <1>1, ConcatFacts DEF IsBuilder, Text
<1> QED
  BY <1>2 DEF Holes, HolesIn

(* What appending a clause adds to a list of clauses.                      *)
LEMMA ClauseAppended ==
    ASSUME NEW s, IsSeq(s), NEW clause
    PROVE  /\ HolesIn(Append(s, clause)) = HolesIn(s) \cup ToSet(clause.holes)
           /\ Names(Append(s, clause)) = Names(s) \cup {clause.name}
<1>1. ToSet(Append(s, clause)) = ToSet(s) \cup {clause}
  BY AppendFacts
<1> QED
  BY <1>1 DEF HolesIn, Names

(* The clause the builder makes.                                           *)
LEMMA ClauseFacts ==
    ASSUME NEW b, NEW name, NEW type, NEW means,
           NEW clause, clause = Clause(b, name, type, means)
    PROVE  /\ ToSet(clause.holes) = Numbered(Len(b.params), type, means)
           /\ DOMAIN clause.holes = DOMAIN means
           /\ \A i \in DOMAIN means : clause.holes[i].number = Len(b.params) + i
           /\ clause.name = name
<1> DEFINE holes == [i \in DOMAIN means |->
                        [number |-> Len(b.params) + i, type |-> type, means |-> means[i]]]
<1>1. clause = [name |-> name, holes |-> holes]
  BY DEF Clause
<1>2. ToSet(holes) = Numbered(Len(b.params), type, means)
  BY DEF ToSet, Numbered
<1>3. DOMAIN holes = DOMAIN means /\ \A i \in DOMAIN means : holes[i].number = Len(b.params) + i
  OBVIOUS
<1> HIDE DEF holes
<1> QED
  BY <1>1, <1>2, <1>3

(* What WithWhere adds.                                                    *)
LEMMA WithWhereFacts ==
    ASSUME NEW b, IsBuilder(b), NEW name, NEW type, NEW means,
           NEW values, IsSeq(values),
           NEW after, after = WithWhere(b, name, type, means, values)
    PROVE  /\ Adds(b, after, type, means, values)
           /\ AddsWhere(b, after, Clause(b, name, type, means))
<1>1. PICK clause : clause = Clause(b, name, type, means)
  OBVIOUS
<1>2. /\ after.where = Append(b.where, clause) /\ after.sort = b.sort /\ after.tail = b.tail
      /\ after.params = b.params \o values
      /\ after = [where |-> after.where, tail |-> after.tail, sort |-> after.sort,
                  params |-> after.params]
  <2>1. PICK first : first = [b EXCEPT !.where = Append(b.where, clause)]
    OBVIOUS
  <2>2. first = [where |-> Append(b.where, clause), tail |-> b.tail, sort |-> b.sort,
                 params |-> b.params]
    BY <2>1 DEF IsBuilder
  <2>3. after = [first EXCEPT !.params = b.params \o values]
    BY <1>1, <2>1, Zenon DEF WithWhere
  <2> QED
    BY <2>2, <2>3
<1>3. IsBuilder(after)
  BY <1>2, AppendFacts, ConcatFacts DEF IsBuilder
<1>4. HolesIn(after.where) = HolesIn(b.where) \cup Numbered(Len(b.params), type, means)
  <2>1. HolesIn(after.where) = HolesIn(b.where) \cup ToSet(clause.holes)
    BY <1>2, ClauseAppended DEF IsBuilder
  <2> QED
    BY <1>1, <2>1, ClauseFacts
<1>5. Holes(after) = Holes(b) \cup Numbered(Len(b.params), type, means)
  BY <1>2, <1>3, <1>4, HolesAreIn
<1> QED
  BY <1>1, <1>2, <1>3, <1>5 DEF Adds, AddsWhere

(* The sequence of one element.                                            *)
LEMMA OneFacts ==
    ASSUME NEW value
    PROVE  /\ IsSeq(<<value>>) /\ Len(<<value>>) = 1 /\ ToSet(<<value>>) = {value}
           /\ DOMAIN <<value>> = 1..1 /\ <<value>>[1] = value
<1>1. ToSet(<<value>>) = {value}
  BY DEF ToSet
<1> QED
  BY <1>1 DEF IsSeq

(* Append adds a sequence of one element.                                  *)
LEMMA AppendIsConcatOne ==
    ASSUME NEW s, IsSeq(s), NEW value
    PROVE  Append(s, value) = s \o <<value>>
<1> DEFINE T == ToSet(s) \cup {value}
<1>1. s \in Seq(T) /\ value \in T
  BY DEF IsSeq
<1> QED
  BY <1>1

(* What WithTail adds.                                                     *)
LEMMA WithTailFacts ==
    ASSUME NEW b, IsBuilder(b), NEW name, NEW value,
           NEW after, after = WithTail(b, name, value), NEW values, values = <<value>>
    PROVE  /\ Adds(b, after, "int", values, values)
           /\ AddsTail(b, after, Clause(b, <<name>>, "int", values))
<1>1. PICK clause : clause = Clause(b, <<name>>, "int", values)
  OBVIOUS
<1>2. /\ after.tail = Append(b.tail, clause) /\ after.sort = b.sort /\ after.where = b.where
      /\ after.params = Append(b.params, value)
      /\ after = [where |-> after.where, tail |-> after.tail, sort |-> after.sort,
                  params |-> after.params]
  <2>1. PICK first : first = [b EXCEPT !.tail = Append(b.tail, clause)]
    OBVIOUS
  <2>2. first = [where |-> b.where, tail |-> Append(b.tail, clause), sort |-> b.sort,
                 params |-> b.params]
    BY <2>1 DEF IsBuilder
  <2>3. after = [first EXCEPT !.params = Append(b.params, value)]
    BY <1>1, <2>1, Zenon DEF WithTail
  <2> QED
    BY <2>2, <2>3
<1>3. IsBuilder(after)
  BY <1>2, AppendFacts DEF IsBuilder
<1>4. HolesIn(after.tail) = HolesIn(b.tail) \cup Numbered(Len(b.params), "int", values)
  <2>1. HolesIn(after.tail) = HolesIn(b.tail) \cup ToSet(clause.holes)
    BY <1>2, ClauseAppended DEF IsBuilder
  <2> QED
    BY <1>1, <2>1, ClauseFacts
<1>5. Holes(after) = Holes(b) \cup Numbered(Len(b.params), "int", values)
  BY <1>2, <1>3, <1>4, HolesAreIn
<1> QED
  <2>1. after.params = b.params \o values
    BY <1>2, AppendIsConcatOne DEF IsBuilder
  <2> QED
    BY <1>1, <1>2, <1>3, <1>5, <2>1 DEF Adds, AddsTail

(* The parameters after something has been added.                          *)
Extended(b, after, values) ==
    /\ Len(b.params) \in Nat /\ DOMAIN b.params = 1..Len(b.params)
    /\ Len(values) \in Nat /\ DOMAIN values = 1..Len(values)
    /\ Len(after.params) = Len(b.params) + Len(values)
    /\ \A i \in 1..Len(b.params) : after.params[i] = b.params[i]
    /\ \A i \in 1..Len(values) : after.params[Len(b.params) + i] = values[i]
    /\ ToSet(after.params) = ToSet(b.params) \cup ToSet(values)

LEMMA ParamsAdded ==
    ASSUME NEW b, IsBuilder(b), NEW type, NEW means, NEW values, IsSeq(values),
           NEW after, Adds(b, after, type, means, values)
    PROVE  Extended(b, after, values)
<1>1. IsSeq(b.params) /\ after.params = b.params \o values
  BY DEF IsBuilder, Adds
<1>2. /\ Len(b.params) \in Nat /\ DOMAIN b.params = 1..Len(b.params)
      /\ Len(values) \in Nat /\ DOMAIN values = 1..Len(values)
  BY <1>1, SeqFacts
<1>3. /\ Len(b.params \o values) = Len(b.params) + Len(values)
      /\ \A i \in 1..Len(b.params) : (b.params \o values)[i] = b.params[i]
      /\ \A i \in 1..Len(values) : (b.params \o values)[Len(b.params) + i] = values[i]
      /\ ToSet(b.params \o values) = ToSet(b.params) \cup ToSet(values)
  BY <1>1, ConcatFacts
<1> QED
  BY <1>1, <1>2, <1>3 DEF Extended

(* A query that lacks nothing stays so when a hole comes with its          *)
(* parameter; and the holes stay right.                                    *)
LEMMA LacksNothingGrows ==
    ASSUME NEW b, IsBuilder(b), Lacks(b, 0), NEW type, NEW values, IsSeq(values),
           NEW after, Adds(b, after, type, values, values)
    PROVE  Lacks(after, 0) /\ (Right(b) => Right(after))
<1> DEFINE n == Len(b.params)
<1>0. Holes(after) = Holes(b) \cup Numbered(n, type, values)
  BY DEF Adds
<1>1. /\ n \in Nat /\ DOMAIN b.params = 1..n
      /\ Len(values) \in Nat /\ DOMAIN values = 1..Len(values)
      /\ Len(after.params) = n + Len(values)
      /\ \A i \in 1..n : after.params[i] = b.params[i]
      /\ \A i \in 1..Len(values) : after.params[n + i] = values[i]
  <2>1. Extended(b, after, values)
    BY ParamsAdded
  <2> QED
    BY <2>1 DEF Extended
<1>2. \A hole \in Holes(b) : hole.number \in 1..n
  BY <1>1 DEF Lacks
<1>3. \A hole \in Numbered(n, type, values) :
         \E i \in 1..Len(values) : hole.number = n + i /\ hole.type = type /\ hole.means = values[i]
  BY <1>1, NumberedFacts
<1>4. ASSUME NEW hole \in Holes(after)
      PROVE  /\ hole.number \in 1..Len(after.params) + 0
             /\ ~(hole.number > Len(after.params))
             /\ Right(b) => after.params[hole.number] = hole.means
  <2>1. CASE hole \in Holes(b)
    BY <2>1, <1>1, <1>2 DEF Right
  <2>2. CASE hole \in Numbered(n, type, values)
    BY <2>2, <1>1, <1>3
  <2> QED
    BY <1>0, <2>1, <2>2
<1>5. ASSUME NEW m \in 1..Len(after.params) + 0
      PROVE  \E hole \in Holes(after) : hole.number = m
  <2>1. CASE m \in 1..n
    BY <1>0, <2>1, <1>1 DEF Lacks
  <2>2. CASE m \notin 1..n
    <3>1. m - n \in 1..Len(values)
      BY <2>2, <1>1
    <3>2. [number |-> n + (m - n), type |-> type, means |-> values[m - n]]
              \in Numbered(n, type, values)
      BY <3>1, <1>1, NumberedFacts
    <3> QED
      BY <3>1, <3>2, <1>0, <1>1
  <2> QED
    BY <2>1, <2>2
<1>6. ASSUME NEW one \in Holes(after), NEW other \in Holes(after), one.number = other.number
      PROVE  Fits(one.type, other.type)
  <2>1. CASE one \in Holes(b) /\ other \in Holes(b)
    BY <2>1, <1>6 DEF Lacks
  <2>2. CASE one \in Numbered(n, type, values) /\ other \in Numbered(n, type, values)
    BY <2>2, <1>3 DEF Fits
  <2>3. CASE one \in Holes(b) /\ other \in Numbered(n, type, values)
    BY <2>3, <1>1, <1>2, <1>3, <1>6
  <2>4. CASE one \in Numbered(n, type, values) /\ other \in Holes(b)
    BY <2>4, <1>1, <1>2, <1>3, <1>6
  <2> QED
    BY <1>0, <2>1, <2>2, <2>3, <2>4
<1> QED
  BY <1>4, <1>5, <1>6 DEF Lacks, Right

(* The offset or the limit takes the place of a missing coordinate.        *)
LEMMA LackIsFilled ==
    ASSUME NEW b, IsBuilder(b), NEW k \in Nat, k > 0, Lacks(b, k),
           NEW values, IsSeq(values), Len(values) = 1,
           NEW after, Adds(b, after, "int", values, values)
    PROVE  Lacks(after, k - 1)
<1> DEFINE n == Len(b.params)
<1>0. Holes(after) = Holes(b) \cup Numbered(n, "int", values)
  BY DEF Adds
<1>1. n \in Nat /\ DOMAIN values = 1..1 /\ Len(after.params) = n + 1
  <2>1. Extended(b, after, values)
    BY ParamsAdded
  <2> QED
    BY <2>1 DEF Extended
<1>2. \A hole \in Numbered(n, "int", values) : hole.number = n + 1 /\ hole.type = "int"
  BY <1>1, NumberedFacts
<1>3. \A hole \in Holes(b) : hole.number \in 1..n + k /\ (hole.number > n => hole.type = "float")
  BY DEF Lacks
<1>4. \A hole \in Holes(after) : hole.number \in 1..(n + 1) + (k - 1)
  BY <1>0, <1>1, <1>2, <1>3
<1>5. \A m \in 1..(n + 1) + (k - 1) : \E hole \in Holes(after) : hole.number = m
  BY <1>0, <1>1 DEF Lacks
<1>6. \A hole \in Holes(after) : hole.number > n + 1 => hole.type = "float"
  BY <1>0, <1>1, <1>2, <1>3
<1>7. ASSUME NEW one \in Holes(after), NEW other \in Holes(after), one.number = other.number
      PROVE  Fits(one.type, other.type)
  <2>1. CASE one \in Holes(b) /\ other \in Holes(b)
    BY <2>1, <1>7 DEF Lacks
  <2>2. CASE one \in Numbered(n, "int", values) /\ other \in Numbered(n, "int", values)
    BY <2>2, <1>2 DEF Fits
  <2>3. CASE one \in Holes(b) /\ other \in Numbered(n, "int", values)
    BY <2>3, <1>1, <1>2, <1>3, <1>7 DEF Fits
  <2>4. CASE one \in Numbered(n, "int", values) /\ other \in Holes(b)
    BY <2>4, <1>1, <1>2, <1>3, <1>7 DEF Fits
  <2> QED
    BY <1>0, <2>1, <2>2, <2>3, <2>4
<1> QED
  BY <1>1, <1>4, <1>5, <1>6, <1>7 DEF Lacks

(* A facet never takes it: its parameter is an array.                      *)
LEMMA TornGrows ==
    ASSUME NEW b, IsBuilder(b), Torn(b), NEW values, IsSeq(values), Len(values) = 1,
           NEW after, Adds(b, after, "text[]", values, values)
    PROVE  Torn(after)
<1> DEFINE n == Len(b.params)
<1>1. n \in Nat /\ DOMAIN values = 1..1 /\ Len(after.params) = n + 1
  <2>1. Extended(b, after, values)
    BY ParamsAdded
  <2> QED
    BY <2>1 DEF Extended
<1>2. PICK new : new = [number |-> n + 1, type |-> "text[]", means |-> values[1]]
  OBVIOUS
<1>3. new \in Holes(after) /\ new.number = n + 1 /\ new.type = "text[]"
  <2>1. 1 \in DOMAIN values
    BY <1>1
  <2>3. [number |-> n + 1, type |-> "text[]", means |-> values[1]]
            \in Numbered(n, "text[]", values)
    BY <2>1 DEF Numbered
  <2>2. new \in Holes(after)
    BY <1>2, <2>3 DEF Adds
  <2> QED
    BY <1>2, <2>2
<1>4. \A hole \in Holes(b) : hole \in Holes(after)
  BY DEF Adds
<1>5. PICK hole \in Holes(b) :
        /\ hole.type = "float" /\ hole.number \in Nat
        /\ \/ hole.number > n
           \/ \E other \in Holes(b) :
                 other.number = hole.number /\ other.type \notin {"float", "int"}
  BY DEF Torn
<1>6. CASE hole.number = n + 1
  BY <1>3, <1>4, <1>5, <1>6 DEF Torn
<1>7. CASE hole.number # n + 1
  BY <1>1, <1>4, <1>5, <1>7 DEF Torn
<1> QED
  BY <1>6, <1>7

(* A parameter without a hole stays without one.                           *)
LEMMA SpareGrows ==
    ASSUME NEW b, IsBuilder(b), Spare(b), NEW type,
           NEW values, IsSeq(values), Len(values) = 1,
           NEW after, Adds(b, after, type, values, values)
    PROVE  Spare(after)
<1> DEFINE n == Len(b.params)
<1>1. n \in Nat /\ DOMAIN values = 1..1 /\ Len(after.params) = n + 1
  <2>1. Extended(b, after, values)
    BY ParamsAdded
  <2> QED
    BY <2>1 DEF Extended
<1>2. \A hole \in Holes(after) : hole \in Holes(b) \/ hole.number = n + 1
  BY <1>1, NumberedFacts DEF Adds
<1>3. PICK m \in 1..n : \A hole \in Holes(b) : hole.number # m
  BY DEF Spare
<1>4. m \in 1..Len(after.params) /\ \A hole \in Holes(after) : hole.number # m
  BY <1>1, <1>2, <1>3
<1> QED
  BY <1>4 DEF Spare

(* PostgreSQL accepts a query that lacks nothing ...                       *)
LEMMA CompleteIsAccepted ==
    ASSUME NEW b, IsBuilder(b), Lacks(b, 0), Dialect = "postgres"
    PROVE  Accepted(b)
<1>1. Len(b.params) \in Nat /\ DOMAIN b.params = 1..Len(b.params)
  BY SeqFacts DEF IsBuilder
<1>2. {hole.number : hole \in Holes(b)} = DOMAIN b.params
  BY <1>1 DEF Lacks
<1> QED
  BY <1>2, BindingsAre DEF Lacks, Accepted

(* ... and refuses one that is torn or has a parameter to spare.           *)
LEMMA TornIsRefused ==
    ASSUME NEW b, IsBuilder(b), Torn(b) \/ Spare(b), Dialect = "postgres"
    PROVE  ~Accepted(b)
<1>1. Len(b.params) \in Nat /\ DOMAIN b.params = 1..Len(b.params)
  BY SeqFacts DEF IsBuilder
<1>2. SUFFICES ASSUME {hole.number : hole \in Holes(b)} = DOMAIN b.params,
                      \A one, other \in Holes(b) :
                          one.number = other.number => Fits(one.type, other.type)
               PROVE  FALSE
  BY BindingsAre DEF Accepted
<1>3. \A hole \in Holes(b) : hole.number \in 1..Len(b.params)
  BY <1>1, <1>2
<1>4. \A m \in 1..Len(b.params) : \E hole \in Holes(b) : hole.number = m
  BY <1>1, <1>2
<1>5. \A type : Fits("float", type) => type \in {"float", "int"}
  BY DEF Fits
<1> QED
  BY <1>1, <1>2, <1>3, <1>4, <1>5 DEF Torn, Spare

(* A query that lacks a coordinate is torn.                                *)
LEMMA LackIsTorn ==
    ASSUME NEW b, IsBuilder(b), NEW k \in Nat, k > 0, Lacks(b, k)
    PROVE  Torn(b)
<1>1. Len(b.params) \in Nat
  BY SeqFacts DEF IsBuilder
<1>2. Len(b.params) + 1 \in 1..Len(b.params) + k
  BY <1>1
<1>3. PICK hole \in Holes(b) : hole.number = Len(b.params) + 1
  BY <1>2 DEF Lacks
<1> QED
  BY <1>1, <1>3 DEF Lacks, Torn

(* What a list of clauses says, in its order.                              *)
SaysList(s, b) == [i \in DOMAIN s |-> Reading(s[i], b)]

(* A clause goes on saying what it says when parameters are added ...      *)
LEMMA ReadingStays ==
    ASSUME NEW b, IsBuilder(b), Lacks(b, 0), NEW type, NEW means, NEW values, IsSeq(values),
           NEW after, Adds(b, after, type, means, values),
           NEW clause, \A hole \in ToSet(clause.holes) : hole \in Holes(b)
    PROVE  Reading(clause, after) = Reading(clause, b)
<1>1. \A i \in DOMAIN clause.holes : clause.holes[i].number \in 1..Len(b.params)
  <2>1. Len(b.params) \in Nat
    BY ParamsAdded DEF Extended
  <2> QED
    BY <2>1 DEF Lacks, ToSet
<1>2. \A i \in DOMAIN clause.holes : Bound(after, clause.holes[i]) = Bound(b, clause.holes[i])
  <2>1. Extended(b, after, values)
    BY ParamsAdded
  <2> QED
    BY <1>1, <2>1 DEF Bound, Extended
<1> QED
  BY <1>2 DEF Reading

(* ... and so do the lists.                                                *)
LEMMA ListsStay ==
    ASSUME NEW b, IsBuilder(b), Lacks(b, 0), NEW type, NEW means, NEW values, IsSeq(values),
           NEW after, Adds(b, after, type, means, values)
    PROVE  /\ \A clause \in ToSet(b.where) : Reading(clause, after) = Reading(clause, b)
           /\ SaysList(b.sort, after) = SaysList(b.sort, b)
           /\ SaysList(b.tail, after) = SaysList(b.tail, b)
<1>1. /\ \A hole \in HolesIn(b.where) : hole \in Holes(b)
      /\ \A hole \in HolesIn(b.sort) : hole \in Holes(b)
      /\ \A hole \in HolesIn(b.tail) : hole \in Holes(b)
  BY HolesAreIn
<1>2. \A clause \in ToSet(b.where) : Reading(clause, after) = Reading(clause, b)
  BY <1>1, ReadingStays DEF HolesIn
<1>3. \A clause \in ToSet(b.sort) : Reading(clause, after) = Reading(clause, b)
  BY <1>1, ReadingStays DEF HolesIn
<1>4. \A clause \in ToSet(b.tail) : Reading(clause, after) = Reading(clause, b)
  BY <1>1, ReadingStays DEF HolesIn
<1>5. SaysList(b.sort, after) = SaysList(b.sort, b)
  BY <1>3 DEF SaysList, ToSet
<1>6. SaysList(b.tail, after) = SaysList(b.tail, b)
  BY <1>4 DEF SaysList, ToSet
<1> QED
  BY <1>2, <1>5, <1>6

(* What a clause says whose values come with it.                           *)
LEMMA NewReading ==
    ASSUME NEW b, IsBuilder(b), NEW name, NEW type, NEW values, IsSeq(values),
           NEW after, Adds(b, after, type, values, values)
    PROVE  Reading(Clause(b, name, type, values), after) = <<name, values>>
<1>1. PICK clause : clause = Clause(b, name, type, values)
  OBVIOUS
<1>2. /\ DOMAIN clause.holes = DOMAIN values /\ clause.name = name
      /\ \A i \in DOMAIN values : clause.holes[i].number = Len(b.params) + i
  BY <1>1, ClauseFacts
<1>3. /\ DOMAIN values = 1..Len(values)
      /\ \A i \in 1..Len(values) : after.params[Len(b.params) + i] = values[i]
  <2>1. Extended(b, after, values)
    BY ParamsAdded
  <2> QED
    BY <2>1 DEF Extended
<1>4. \A i \in DOMAIN values : Bound(after, clause.holes[i]) = values[i]
  BY <1>2, <1>3 DEF Bound
<1>5. values = [i \in DOMAIN values |-> values[i]]
  BY SeqFacts
<1>6. [i \in DOMAIN clause.holes |-> Bound(after, clause.holes[i])] = values
  BY <1>2, <1>4, <1>5
<1> QED
  BY <1>1, <1>2, <1>6 DEF Reading

-----------------------------------------------------------------------------
(* The constructor.                                                        *)

(* The parameters PostgreSQL may fail to evaluate, and where they come     *)
(* from.                                                                   *)
IsRisky(param) == param[1] \in {"query", "distance"}
Risky(b) == {param \in ToSet(b.params) : IsRisky(param)}
RiskyIn(c) ==
    (IF c.query # <<>> THEN {PrefixQuery(c)} ELSE {})
    \cup (IF c.box = -1 /\ HasCenter(c) THEN {<<"distance", c.near[2]>>} ELSE {})

(* The parameters that are missing for a box when k have been added after  *)
(* the constructor, by OFFSET and LIMIT; and when the query passes for one *)
(* PostgreSQL accepts.                                                     *)
Missing(c, k) == IF c.box = -1 \/ c.box + k >= 4 THEN 0 ELSE 4 - c.box - k
Passes(c, k) == c.box \in {-1, 4} \/ c.box \in 4 - k..4

(* A builder for the request c, before Build, with k parameters of OFFSET  *)
(* and LIMIT.                                                              *)
Basis(c, k, b) ==
    /\ IsBuilder(b)
    /\ c.box \in {-1, 4} => Right(b)
    /\ c.box <= 4 => Lacks(b, Missing(c, k))
    /\ c.box > 4 => Spare(b)
    /\ Risky(b) = RiskyIn(c)

(* The empty list.                                                         *)
LEMMA EmptyLists == ToSet(<<>>) = {} /\ IsSeq(<<>>) /\ DOMAIN <<>> = {} /\ Len(<<>>) = 0
BY DEF ToSet, IsSeq

(* The builder starts empty, and so lacks nothing.                         *)
LEMMA NewBuilderFacts ==
    /\ IsBuilder(NewBuilder)
    /\ NewBuilder.params = <<>> /\ NewBuilder.sort = <<>> /\ NewBuilder.tail = <<>>
    /\ Names(NewBuilder.where) = {}
    /\ Lacks(NewBuilder, 0) /\ Right(NewBuilder)
<1>1. /\ NewBuilder.params = <<>> /\ NewBuilder.sort = <<>> /\ NewBuilder.tail = <<>>
      /\ NewBuilder.where = <<>>
      /\ NewBuilder = [where |-> NewBuilder.where, tail |-> NewBuilder.tail,
                       sort |-> NewBuilder.sort, params |-> NewBuilder.params]
  BY DEF NewBuilder
<1>2. IsBuilder(NewBuilder)
  BY <1>1, EmptyLists DEF IsBuilder
<1>3. HolesIn(<<>>) = {} /\ Names(<<>>) = {}
  BY EmptyLists DEF HolesIn, Names
<1>4. Holes(NewBuilder) = {}
  BY <1>1, <1>2, <1>3, HolesAreIn
<1>5. Len(NewBuilder.params) = 0
  BY <1>1, EmptyLists
<1>6. Lacks(NewBuilder, 0) /\ Right(NewBuilder)
  BY <1>4, <1>5 DEF Lacks, Right
<1> QED
  BY <1>1, <1>2, <1>3, <1>6

(* The coordinates of a box.                                               *)
LEMMA BoxFacts ==
    ASSUME NEW n \in Nat
    PROVE  /\ IsSeq(BoxParams(n)) /\ Len(BoxParams(n)) = n /\ DOMAIN BoxParams(n) = 1..n
           /\ \A i \in 1..n : BoxParams(n)[i] = <<"box", i>>
<1>1. BoxParams(n) = [i \in 1..n |-> <<"box", i>>]
  BY DEF BoxParams
<1>2. BoxParams(n) \in [1..n -> ToSet(BoxParams(n))]
  BY <1>1 DEF ToSet
<1>3. BoxParams(n) \in Seq(ToSet(BoxParams(n))) /\ Len(BoxParams(n)) = n
  <2> DEFINE s == BoxParams(n)
  <2> DEFINE T == ToSet(s)
  <2>1. s \in [1..n -> T]
    BY <1>2
  <2> HIDE DEF s, T
  <2>2. s \in Seq(T) /\ Len(s) = n
    BY <2>1
  <2> QED
    BY <2>2 DEF s, T
<1> QED
  BY <1>1, <1>3 DEF IsSeq

(* The parameters of a circle.                                             *)
LEMMA CircleFacts ==
    ASSUME NEW c
    PROVE  /\ IsSeq(CircleParams(c))
           /\ ToSet(CircleParams(c)) = {<<"lon">>, <<"lat">>, <<"distance", c.near[2]>>}
<1>1. PICK a : a = <<"distance", c.near[2]>>
  OBVIOUS
<1>2. PICK lon, lat : lon = <<"lon">> /\ lat = <<"lat">>
  OBVIOUS
<1>3. CircleParams(c) = <<lon, lat, a>>
  BY <1>1, <1>2 DEF CircleParams
<1>4. ToSet(<<lon, lat, a>>) = {lon, lat, a}
  BY DEF ToSet
<1>5. <<lon, lat, a>> \in Seq({lon, lat, a})
  OBVIOUS
<1> QED
  BY <1>1, <1>2, <1>3, <1>4, <1>5 DEF IsSeq

(* What the phrase adds to an empty builder.                               *)
PhraseParams(c) == IF c.query # <<>> THEN {PrefixQuery(c)} ELSE {}
FirstHole(c) == [number |-> 1, type |-> "text", means |-> PrefixQuery(c)]
PhraseAdded(c, b) ==
    /\ IsBuilder(b) /\ b.sort = <<>> /\ b.tail = <<>> /\ Lacks(b, 0) /\ Right(b)
    /\ \A name \in Names(b.where) : name = <<"phrase">>
    /\ ToSet(b.params) = PhraseParams(c)
    /\ c.query # <<>> => FirstHole(c) \in Holes(b)

(* The clause of the phrase; its hole has number 1, which the literal "$1" *)
(* of the ranking relies on.                                               *)
LEMMA PhraseFacts ==
    ASSUME NEW c
    PROVE  PhraseAdded(c, WithPhrase(NewBuilder, c))
<1>1. PICK q, b : q = PrefixQuery(c) /\ b = WithPhrase(NewBuilder, c)
  OBVIOUS
<1>2. CASE c.query = <<>>
  <2>1. b = NewBuilder
    BY <1>1, <1>2 DEF WithPhrase
  <2>2. ToSet(b.params) = {}
    BY <2>1, NewBuilderFacts, EmptyLists
  <2> QED
    BY <1>1, <1>2, <2>1, <2>2, NewBuilderFacts DEF PhraseAdded, PhraseParams
<1>3. CASE c.query # <<>>
  <2>1. b = WithWhere(NewBuilder, <<"phrase">>, "text", <<q>>, <<q>>)
    BY <1>1, <1>3 DEF WithPhrase
  <2>2. PICK start, name, values, clause :
            /\ start = NewBuilder /\ name = <<"phrase">> /\ values = <<q>>
            /\ clause = Clause(start, name, "text", values)
    OBVIOUS
  <2>3. IsSeq(values) /\ Len(values) = 1 /\ ToSet(values) = {q} /\ DOMAIN values = 1..1
        /\ values[1] = q
    BY <2>2, OneFacts
  <2>4. IsBuilder(start) /\ Lacks(start, 0) /\ Right(start) /\ start.params = <<>>
        /\ start.sort = <<>> /\ start.tail = <<>> /\ Names(start.where) = {}
    BY <2>2, NewBuilderFacts
  <2>5. Adds(start, b, "text", values, values) /\ AddsWhere(start, b, clause)
    BY <2>1, <2>2, <2>3, <2>4, WithWhereFacts
  <2>6. Lacks(b, 0) /\ Right(b)
    BY <2>3, <2>4, <2>5, LacksNothingGrows
  <2>7. Extended(start, b, values)
    BY <2>3, <2>4, <2>5, ParamsAdded
  <2>8. ToSet(b.params) = {q}
    BY <2>3, <2>4, <2>7, EmptyLists DEF Extended
  <2>9. FirstHole(c) \in Holes(b)
    <3>1. Len(start.params) + 1 = 1 /\ 1 \in DOMAIN values
      BY <2>3, <2>4, EmptyLists
    <3>2. FirstHole(c) \in Numbered(Len(start.params), "text", values)
      BY <1>1, <2>3, <3>1 DEF FirstHole, Numbered
    <3> QED
      BY <2>5, <3>2 DEF Adds
  <2>10. Names(b.where) = {name}
    <3>1. Names(Append(start.where, clause)) = Names(start.where) \cup {clause.name}
      BY <2>4, ClauseAppended DEF IsBuilder
    <3>2. clause.name = name
      BY <2>2, ClauseFacts
    <3> QED
      BY <2>4, <2>5, <3>1, <3>2 DEF AddsWhere
  <2>11. IsBuilder(b) /\ b.sort = <<>> /\ b.tail = <<>>
    BY <2>4, <2>5 DEF Adds, AddsWhere
  <2> QED
    BY <1>1, <1>3, <2>2, <2>6, <2>8, <2>9, <2>10, <2>11 DEF PhraseAdded, PhraseParams
<1> QED
  BY <1>1, <1>2, <1>3

(* What the constructor makes.                                             *)
ConstructedFor(c, b) ==
    /\ Basis(c, 0, b) /\ b.sort = <<>> /\ b.tail = <<>>
    /\ \A name \in Names(b.where) : name \in {<<"phrase">>, <<"within">>, <<"near">>}
    /\ c.query # <<>> => FirstHole(c) \in Holes(b)

(* What the area adds to it: holes of type "float", and values that        *)
(* PostgreSQL may not like.                                                *)
LEMMA AreaFacts ==
    ASSUME NEW c, NEW p, PhraseAdded(c, p), NEW name \in {<<"within">>, <<"near">>},
           NEW means, NEW values, IsSeq(values),
           NEW b, b = WithWhere(p, name, "float", means, values)
    PROVE  /\ Adds(p, b, "float", means, values)
           /\ b.sort = <<>> /\ b.tail = <<>>
           /\ \A n \in Names(b.where) : n \in {<<"phrase">>, <<"within">>, <<"near">>}
           /\ c.query # <<>> => FirstHole(c) \in Holes(b)
           /\ ToSet(b.params) = PhraseParams(c) \cup ToSet(values)
<1>1. PICK clause : clause = Clause(p, name, "float", means)
  OBVIOUS
<1>2. IsBuilder(p) /\ p.sort = <<>> /\ p.tail = <<>>
  BY DEF PhraseAdded
<1>3. Adds(p, b, "float", means, values) /\ AddsWhere(p, b, clause)
  BY <1>1, <1>2, WithWhereFacts
<1>4. Names(b.where) = Names(p.where) \cup {name}
  <2>1. Names(Append(p.where, clause)) = Names(p.where) \cup {clause.name}
    BY <1>2, ClauseAppended DEF IsBuilder
  <2>2. clause.name = name
    BY <1>1, ClauseFacts
  <2> QED
    BY <1>3, <2>1, <2>2 DEF AddsWhere
<1>5. \A hole \in Holes(p) : hole \in Holes(b)
  BY <1>3 DEF Adds
<1>6. Extended(p, b, values)
  BY <1>2, <1>3, ParamsAdded
<1>7. \A n \in Names(b.where) : n \in {<<"phrase">>, <<"within">>, <<"near">>}
  BY <1>4 DEF PhraseAdded
<1>8. ToSet(b.params) = PhraseParams(c) \cup ToSet(values)
  BY <1>6 DEF Extended, PhraseAdded
<1> QED
  BY <1>2, <1>3, <1>5, <1>7, <1>8 DEF AddsWhere, PhraseAdded

(* A phrase is a risk.                                                     *)
LEMMA PhraseIsRisky ==
    ASSUME NEW c, NEW b, NEW rest, ToSet(b.params) = PhraseParams(c) \cup rest
    PROVE  Risky(b) = PhraseParams(c) \cup {param \in rest : IsRisky(param)}
<1>1. IsRisky(PrefixQuery(c))
  BY DEF PrefixQuery, IsRisky
<1> QED
  BY <1>1 DEF Risky, PhraseParams

(* A box of too few coordinates leaves some missing, one of too many has   *)
(* some to spare.                                                          *)
LEMMA BoxBasis ==
    ASSUME NEW c, c.box \in Nat, NEW p, PhraseAdded(c, p), NEW values, values = BoxParams(c.box),
           NEW means, means = BoxParams(4),
           NEW b, Adds(p, b, "float", means, values)
    PROVE  /\ c.box = 4 => Right(b)
           /\ c.box <= 4 => Lacks(b, 4 - c.box)
           /\ c.box > 4 => Spare(b)
<1> DEFINE n == Len(p.params)
<1>1. IsSeq(values) /\ Len(values) = c.box /\ DOMAIN means = 1..4
  BY BoxFacts
<1>2. IsBuilder(p) /\ Lacks(p, 0) /\ Right(p)
  BY DEF PhraseAdded
<1>3. n \in Nat /\ Len(b.params) = n + c.box
  <2>1. Extended(p, b, values)
    BY <1>1, <1>2, ParamsAdded
  <2> QED
    BY <1>1, <2>1 DEF Extended
<1>4. CASE c.box = 4
  <2>1. means = values
    BY <1>4
  <2>2. Lacks(b, 0) /\ Right(b)
    BY <1>1, <1>2, <2>1, LacksNothingGrows
  <2> QED
    BY <1>4, <2>2
<1>5. \A hole \in Holes(p) : hole.number \in 1..n
  BY <1>2, <1>3 DEF Lacks
<1>6. \A hole \in Numbered(n, "float", means) :
         \E i \in 1..4 : hole.number = n + i /\ hole.type = "float"
  BY <1>1, NumberedFacts
<1>7. Holes(b) = Holes(p) \cup Numbered(n, "float", means)
  BY DEF Adds
<1>8. CASE c.box < 4
  <2>1. \A hole \in Holes(b) : hole.number \in 1..n + 4
    BY <1>3, <1>5, <1>6, <1>7
  <2>2. ASSUME NEW m \in 1..n + 4
        PROVE  \E hole \in Holes(b) : hole.number = m
    <3>1. CASE m <= n
      BY <1>2, <1>3, <1>7, <3>1 DEF Lacks
    <3>2. CASE m > n
      <4>1. PICK i \in 1..4 : m = n + i
        <5>1. m - n \in 1..4 /\ m = n + (m - n)
          BY <1>3, <3>2
        <5> QED
          BY <5>1
      <4>2. [number |-> n + i, type |-> "float", means |-> means[i]] \in Numbered(n, "float", means)
        BY <1>1, NumberedFacts
      <4> QED
        BY <1>7, <4>1, <4>2
    <3> QED
      BY <1>3, <3>1, <3>2
  <2>3. \A hole \in Holes(b) : hole.number > n + c.box => hole.type = "float"
    BY <1>3, <1>5, <1>6, <1>7
  <2>4. ASSUME NEW one \in Holes(b), NEW other \in Holes(b), one.number = other.number
        PROVE  Fits(one.type, other.type)
    <3>1. CASE one \in Holes(p) /\ other \in Holes(p)
      BY <1>2, <2>4, <3>1 DEF Lacks
    <3>2. CASE one \in Numbered(n, "float", means) /\ other \in Numbered(n, "float", means)
      BY <1>6, <3>2 DEF Fits
    <3>3. CASE one \in Holes(p) /\ other \in Numbered(n, "float", means)
      BY <1>3, <1>5, <1>6, <2>4, <3>3
    <3>4. CASE one \in Numbered(n, "float", means) /\ other \in Holes(p)
      BY <1>3, <1>5, <1>6, <2>4, <3>4
    <3> QED
      BY <1>7, <3>1, <3>2, <3>3, <3>4
  <2>5. Len(b.params) + (4 - c.box) = n + 4
    BY <1>3
  <2>6. Lacks(b, 4 - c.box)
    BY <1>3, <2>1, <2>2, <2>3, <2>4, <2>5 DEF Lacks
  <2> QED
    BY <1>8, <2>6
<1>9. CASE c.box > 4
  <2>1. \A hole \in Holes(b) : hole.number # n + 5
    BY <1>3, <1>5, <1>6, <1>7
  <2>2. n + 5 \in 1..Len(b.params)
    BY <1>3, <1>9
  <2>3. Spare(b)
    BY <2>1, <2>2 DEF Spare
  <2> QED
    BY <1>9, <2>3
<1> QED
  BY <1>4, <1>8, <1>9

(* The constructor makes a query that lacks nothing unless the box is of   *)
(* the wrong length.                                                       *)
LEMMA ConstructedFacts ==
    ASSUME NEW c, c.box \in Nat \cup {-1}
    PROVE  ConstructedFor(c, Constructed(c))
<1>1. PICK p, b : p = WithPhrase(NewBuilder, c) /\ b = Constructed(c)
  OBVIOUS
<1>2. PhraseAdded(c, p)
  BY <1>1, PhraseFacts
<1>3. b = WithArea(p, c)
  BY <1>1 DEF Constructed
<1>4. IsBuilder(p) /\ Lacks(p, 0) /\ Right(p)
  BY <1>2 DEF PhraseAdded
<1>5. CASE c.box = -1 /\ ~HasCenter(c)
  <2>1. b = p
    BY <1>3, <1>5 DEF WithArea
  <2>2. Risky(b) = RiskyIn(c)
    <3>1. PICK rest : rest = {}
      OBVIOUS
    <3>2. ToSet(b.params) = PhraseParams(c) \cup rest
      BY <1>2, <2>1, <3>1 DEF PhraseAdded
    <3>3. Risky(b) = PhraseParams(c) \cup {param \in rest : IsRisky(param)}
      BY <3>2, PhraseIsRisky
    <3> QED
      BY <1>5, <3>1, <3>3 DEF RiskyIn, PhraseParams
  <2>3. Missing(c, 0) = 0
    BY <1>5 DEF Missing
  <2>4. Basis(c, 0, b)
    BY <1>4, <1>5, <2>1, <2>2, <2>3 DEF Basis
  <2> QED
    BY <1>1, <1>2, <2>1, <2>4 DEF ConstructedFor, PhraseAdded
<1>6. CASE c.box = -1 /\ HasCenter(c)
  <2>1. PICK name, values : name = <<"near">> /\ values = CircleParams(c) /\ IsSeq(values)
    BY CircleFacts
  <2>2. b = WithWhere(p, name, "float", values, values)
    BY <1>3, <1>6, <2>1 DEF WithArea
  <2>3. /\ Adds(p, b, "float", values, values)
        /\ b.sort = <<>> /\ b.tail = <<>>
        /\ \A n \in Names(b.where) : n \in {<<"phrase">>, <<"within">>, <<"near">>}
        /\ c.query # <<>> => FirstHole(c) \in Holes(b)
        /\ ToSet(b.params) = PhraseParams(c) \cup ToSet(values)
    BY <1>2, <2>1, <2>2, AreaFacts
  <2>4. Lacks(b, 0) /\ Right(b)
    BY <1>4, <2>1, <2>3, LacksNothingGrows
  <2>5. Risky(b) = RiskyIn(c)
    <3>1. {param \in ToSet(values) : IsRisky(param)} = {<<"distance", c.near[2]>>}
      <4>1. ToSet(values) = {<<"lon">>, <<"lat">>, <<"distance", c.near[2]>>}
        BY <2>1, CircleFacts
      <4>2. ~IsRisky(<<"lon">>) /\ ~IsRisky(<<"lat">>) /\ IsRisky(<<"distance", c.near[2]>>)
        BY DEF IsRisky
      <4> QED
        BY <4>1, <4>2
    <3>2. Risky(b) = PhraseParams(c) \cup {param \in ToSet(values) : IsRisky(param)}
      BY <2>3, PhraseIsRisky
    <3> QED
      BY <1>6, <3>1, <3>2 DEF RiskyIn, PhraseParams
  <2>6. Missing(c, 0) = 0
    BY <1>6 DEF Missing
  <2>7. Basis(c, 0, b)
    BY <1>6, <2>3, <2>4, <2>5, <2>6 DEF Basis, Adds
  <2> QED
    BY <1>1, <2>3, <2>7 DEF ConstructedFor
<1>7. CASE c.box # -1
  <2>1. PICK name, means, values :
            /\ name = <<"within">> /\ means = BoxParams(4) /\ values = BoxParams(c.box)
            /\ IsSeq(values)
    BY <1>7, BoxFacts
  <2>2. b = WithWhere(p, name, "float", means, values)
    BY <1>3, <1>7, <2>1 DEF WithArea
  <2>3. /\ Adds(p, b, "float", means, values)
        /\ b.sort = <<>> /\ b.tail = <<>>
        /\ \A n \in Names(b.where) : n \in {<<"phrase">>, <<"within">>, <<"near">>}
        /\ c.query # <<>> => FirstHole(c) \in Holes(b)
        /\ ToSet(b.params) = PhraseParams(c) \cup ToSet(values)
    BY <1>2, <2>1, <2>2, AreaFacts
  <2>4. /\ c.box = 4 => Right(b)
        /\ c.box <= 4 => Lacks(b, 4 - c.box)
        /\ c.box > 4 => Spare(b)
    BY <1>2, <1>7, <2>1, <2>3, BoxBasis
  <2>5. Risky(b) = RiskyIn(c)
    <3>1. {param \in ToSet(values) : IsRisky(param)} = {}
      <4>1. \A param \in ToSet(values) : param[1] = "box"
        BY <1>7, <2>1, BoxFacts DEF ToSet
      <4> QED
        BY <4>1 DEF IsRisky
    <3>2. Risky(b) = PhraseParams(c) \cup {param \in ToSet(values) : IsRisky(param)}
      BY <2>3, PhraseIsRisky
    <3> QED
      BY <1>7, <3>1, <3>2 DEF RiskyIn, PhraseParams
  <2>6. c.box <= 4 => Missing(c, 0) = 4 - c.box
    BY <1>7 DEF Missing
  <2>7. Basis(c, 0, b)
    <3>1. IsBuilder(b) /\ c.box \in Nat
      BY <1>7, <2>3 DEF Adds
    <3> QED
      BY <2>4, <2>5, <2>6, <3>1 DEF Basis
  <2> QED
    BY <1>1, <2>3, <2>7 DEF ConstructedFor
<1> QED
  BY <1>5, <1>6, <1>7

-----------------------------------------------------------------------------
(* Build.                                                                  *)

(* What the clause of a facet says.                                        *)
FacetName(f, arrays) == <<IF f \in arrays THEN "overlap" ELSE "any", f>>
Choice(f, arrays) == <<FacetName(f, arrays), <<<<"facet", f>>>>>>

(* The clauses of the facets in "done" have been added to a query that     *)
(* lacks nothing, and the rest says what it said.                          *)
SaysMore(b, arrays, done, after) ==
    /\ Lacks(after, 0) /\ (Right(b) => Right(after))
    /\ Selects(after) = Selects(b) \cup {Choice(f, arrays) : f \in done}
    /\ SaysList(b.sort, after) = SaysList(b.sort, b)
    /\ SaysList(b.tail, after) = SaysList(b.tail, b)

(* Where the loop of Build is when it has gone through some facets and     *)
(* added the clauses of "done".                                            *)
LoopState(b, arrays, done, after) ==
    /\ IsBuilder(after) /\ after.sort = b.sort /\ after.tail = b.tail
    /\ Lacks(b, 0) => SaysMore(b, arrays, done, after)
    /\ Torn(b) => Torn(after)
    /\ Spare(b) => Spare(after)
    /\ Names(after.where) = Names(b.where) \cup {FacetName(f, arrays) : f \in done}
    /\ Risky(after) = Risky(b)

(* The loop starts with nothing added ...                                  *)
LEMMA LoopStarts ==
    ASSUME NEW b, IsBuilder(b), NEW arrays
    PROVE  LoopState(b, arrays, {}, b)
BY DEF LoopState, SaysMore

(* ... adds a clause that says what it should to what is said already ...  *)
LEMMA ClauseIsSaid ==
    ASSUME NEW b, NEW arrays, NEW done, NEW before, IsBuilder(before),
           SaysMore(b, arrays, done, before), before.sort = b.sort, before.tail = b.tail,
           NEW f, NEW values, values = <<<<"facet", f>>>>, NEW clause,
           clause = Clause(before, FacetName(f, arrays), "text[]", values),
           NEW after, Adds(before, after, "text[]", values, values),
           AddsWhere(before, after, clause)
    PROVE  SaysMore(b, arrays, done \cup {f}, after)
<1>1. IsSeq(values)
  BY OneFacts
<1>2. Lacks(before, 0)
  BY DEF SaysMore
<1>3. Lacks(after, 0) /\ (Right(before) => Right(after))
  BY <1>1, <1>2, LacksNothingGrows
<1>4. /\ \A other \in ToSet(before.where) : Reading(other, after) = Reading(other, before)
      /\ SaysList(before.sort, after) = SaysList(before.sort, before)
      /\ SaysList(before.tail, after) = SaysList(before.tail, before)
  BY <1>1, <1>2, ListsStay
<1>5. Reading(clause, after) = Choice(f, arrays)
  <2>1. Reading(clause, after) = <<FacetName(f, arrays), values>>
    BY <1>1, NewReading
  <2> QED
    BY <2>1 DEF Choice
<1>6. ToSet(after.where) = ToSet(before.where) \cup {clause}
  BY AppendFacts DEF AddsWhere, IsBuilder
<1>7. Selects(after) = Selects(before) \cup {Choice(f, arrays)}
  BY <1>4, <1>5, <1>6 DEF Selects
<1>8. Selects(after) = Selects(b) \cup {Choice(g, arrays) : g \in done \cup {f}}
  BY <1>7 DEF SaysMore
<1> QED
  BY <1>3, <1>4, <1>8 DEF SaysMore

(* ... and so one facet after the other.                                   *)
LEMMA LoopStep ==
    ASSUME NEW b, NEW arrays, NEW done, NEW before, LoopState(b, arrays, done, before),
           NEW f, NEW after, after = WithFacet(before, f, arrays)
    PROVE  LoopState(b, arrays, done \cup {f}, after)
<1>0. IsBuilder(before) /\ before.sort = b.sort /\ before.tail = b.tail
  BY DEF LoopState
<1>1. PICK v : v = <<"facet", f>>
  OBVIOUS
<1>2. PICK name, values : name = FacetName(f, arrays) /\ values = <<v>>
  OBVIOUS
<1>3. IsSeq(values) /\ Len(values) = 1 /\ ToSet(values) = {v}
  BY <1>2, OneFacts
<1>4. after = WithWhere(before, name, "text[]", values, values)
  BY <1>1, <1>2 DEF WithFacet, FacetName
<1>5. PICK clause : clause = Clause(before, name, "text[]", values)
  OBVIOUS
<1>6. Adds(before, after, "text[]", values, values) /\ AddsWhere(before, after, clause)
  BY <1>0, <1>3, <1>4, <1>5, WithWhereFacts
<1>7. Lacks(b, 0) => SaysMore(b, arrays, done \cup {f}, after)
  <2> SUFFICES ASSUME Lacks(b, 0) PROVE SaysMore(b, arrays, done \cup {f}, after)
    OBVIOUS
  <2>1. SaysMore(b, arrays, done, before)
    BY DEF LoopState
  <2> QED
    BY <1>0, <1>1, <1>2, <1>5, <1>6, <2>1, ClauseIsSaid
<1>8. Torn(b) => Torn(after)
  BY <1>0, <1>3, <1>6, TornGrows DEF LoopState
<1>9. Spare(b) => Spare(after)
  BY <1>0, <1>3, <1>6, SpareGrows DEF LoopState
<1>10. Names(after.where) = Names(b.where) \cup {FacetName(g, arrays) : g \in done \cup {f}}
  <2>1. Names(Append(before.where, clause)) = Names(before.where) \cup {clause.name}
    BY <1>0, ClauseAppended DEF IsBuilder
  <2>2. clause.name = name
    BY <1>5, ClauseFacts
  <2>3. Names(before.where) = Names(b.where) \cup {FacetName(g, arrays) : g \in done}
    BY DEF LoopState
  <2> QED
    BY <1>2, <1>6, <2>1, <2>2, <2>3 DEF AddsWhere
<1>11. Risky(after) = Risky(b)
  <2>1. Extended(before, after, values)
    BY <1>0, <1>3, <1>6, ParamsAdded
  <2>2. ~IsRisky(v)
    BY <1>1 DEF IsRisky
  <2>3. ToSet(after.params) = ToSet(before.params) \cup {v}
    BY <1>3, <2>1 DEF Extended
  <2> QED
    BY <2>2, <2>3 DEF Risky, LoopState
<1>12. IsBuilder(after) /\ after.sort = b.sort /\ after.tail = b.tail
  BY <1>0, <1>6 DEF Adds, AddsWhere
<1> QED
  BY <1>7, <1>8, <1>9, <1>10, <1>11, <1>12 DEF LoopState

(* The loop of Build, by induction over the order of the facets: first that*)
(* the recursive function is there, then what it is.                       *)
LEMMA BuiltFacts ==
    ASSUME NEW b, IsBuilder(b), NEW c, NEW excluded, NEW arrays, NEW order, IsSeq(order)
    PROVE  LoopState(b, arrays, {f \in ToSet(order) : Used(c, excluded, f)},
                     Built(b, c, excluded, arrays, order))
<1> DEFINE Body(F, i) ==
        IF i = 0 THEN b
        ELSE IF Used(c, excluded, order[i]) THEN WithFacet(F[i - 1], order[i], arrays)
        ELSE F[i - 1]
<1> DEFINE n == Len(order)
<1>1. n \in Nat /\ DOMAIN order = 1..n
  BY SeqFacts
<1>2. \A m \in Nat : \E F : F = [i \in 0..m |-> Body(F, i)]
  <2> DEFINE S == {m \in Nat : \E F : F = [i \in 0..m |-> Body(F, i)]}
  <2>1. 0 \in S
    <3>1. PICK F : F = [i \in 0..0 |-> b]
      OBVIOUS
    <3>2. F = [i \in 0..0 |-> Body(F, i)]
      BY <3>1
    <3> QED
      BY <3>2
  <2>2. ASSUME NEW m \in Nat, m \in S
        PROVE  m + 1 \in S
    <3>1. PICK F : F = [i \in 0..m |-> Body(F, i)]
      BY <2>2
    <3>2. PICK G : G = [i \in 0..m + 1 |-> Body(F, i)]
      OBVIOUS
    <3>3. \A i \in 0..m : G[i] = F[i]
      <4>1. \A i \in 0..m : F[i] = Body(F, i)
        BY <3>1
      <4>2. \A i \in 0..m : G[i] = Body(F, i)
        BY <3>2
      <4> QED
        BY <4>1, <4>2
    <3>4. \A i \in 0..m + 1 : Body(G, i) = Body(F, i)
      <4> TAKE i \in 0..m + 1
      <4>1. CASE i = 0
        BY <4>1
      <4>2. CASE i # 0
        <5>1. G[i - 1] = F[i - 1]
          BY <4>2, <3>3
        <5> QED
          BY <4>2, <5>1
      <4> QED
        BY <4>1, <4>2
    <3> HIDE DEF Body
    <3>5. G = [i \in 0..m + 1 |-> Body(G, i)]
      BY <3>2, <3>4
    <3> QED
      BY <3>5
  <2> HIDE DEF S
  <2>3. \A m \in Nat : m \in S
    BY <2>1, <2>2, SetInduction
  <2> QED
    BY <2>3 DEF S
<1>3. PICK F : F = [i \in 0..n |-> Body(F, i)] /\ Built(b, c, excluded, arrays, order) = F[n]
  <2> DEFINE G == CHOOSE G : G = [i \in 0..n |-> Body(G, i)]
  <2>1. Built(b, c, excluded, arrays, order) = G[n]
    BY DEF Built
  <2>2. \E H : H = [i \in 0..n |-> Body(H, i)]
    BY <1>1, <1>2
  <2>3. G = [i \in 0..n |-> Body(G, i)]
    BY <2>2
  <2> QED
    BY <2>1, <2>3
<1> DEFINE Done(k) == {f \in {order[i] : i \in 1..k} : Used(c, excluded, f)}
<1>4. \A k \in Nat : k <= n => LoopState(b, arrays, Done(k), F[k])
  <2> DEFINE S == {k \in Nat : k <= n => LoopState(b, arrays, Done(k), F[k])}
  <2>1. 0 \in S
    <3>1. F[0] = b /\ Done(0) = {}
      BY <1>1, <1>3
    <3> QED
      BY <3>1, LoopStarts
  <2>2. ASSUME NEW k \in Nat, k \in S
        PROVE  k + 1 \in S
    <3>1. SUFFICES ASSUME k + 1 <= n
                   PROVE  LoopState(b, arrays, Done(k + 1), F[k + 1])
      OBVIOUS
    <3>2. LoopState(b, arrays, Done(k), F[k])
      BY <1>1, <2>2, <3>1
    <3>3. F[k + 1] = Body(F, k + 1)
      BY <1>1, <1>3, <3>1
    <3>4. PICK f : f = order[k + 1]
      OBVIOUS
    <3>5. F[k + 1] = IF Used(c, excluded, f) THEN WithFacet(F[k], f, arrays) ELSE F[k]
      <4>1. k + 1 # 0 /\ (k + 1) - 1 = k
        OBVIOUS
      <4> QED
        BY <3>3, <3>4, <4>1
    <3>6. CASE Used(c, excluded, f)
      <4>1. Done(k + 1) = Done(k) \cup {f}
        BY <3>4, <3>6
      <4>2. F[k + 1] = WithFacet(F[k], f, arrays)
        BY <3>5, <3>6
      <4> HIDE DEF Done, Body
      <4>3. LoopState(b, arrays, Done(k) \cup {f}, F[k + 1])
        BY <3>2, <4>2, LoopStep
      <4> QED
        BY <4>1, <4>3
    <3>7. CASE ~Used(c, excluded, f)
      <4>1. Done(k + 1) = Done(k)
        BY <3>4, <3>7
      <4>2. F[k + 1] = F[k]
        BY <3>5, <3>7
      <4> QED
        BY <3>2, <4>1, <4>2
    <3> QED
      BY <3>6, <3>7
  <2> HIDE DEF S
  <2>3. \A k \in Nat : k \in S
    BY <2>1, <2>2, SetInduction
  <2> QED
    BY <2>3 DEF S
<1>5. Done(n) = {f \in ToSet(order) : Used(c, excluded, f)}
  BY <1>1 DEF ToSet
<1>6. LoopState(b, arrays, Done(n), F[n])
  <2>1. n \in Nat /\ n <= n
    BY <1>1
  <2> HIDE DEF Done, n
  <2> QED
    BY <1>4, <2>1
<1> QED
  BY <1>3, <1>5, <1>6

-----------------------------------------------------------------------------
(* The queries of the calls.                                               *)

(* The choices that narrow a query.                                        *)
Chosen(c, excluded) == {f \in Fields : Used(c, excluded, f)}

(* What Build makes of a builder for the request c with k parameters of    *)
(* OFFSET and LIMIT, in any order of the facets.                           *)
QueryFor(c, k, excluded, b, q) ==
    /\ IsBuilder(q) /\ Risky(q) = RiskyIn(c)
    /\ Names(q.where) = Names(b.where) \cup {FacetName(f, ArrayFields) : f \in Chosen(c, excluded)}
    /\ Passes(c, k) =>
          /\ Lacks(q, 0)
          /\ Selects(q) = Selects(b) \cup {Choice(f, ArrayFields) : f \in Chosen(c, excluded)}
          /\ SaysList(q.sort, q) = SaysList(b.sort, b)
          /\ SaysList(q.tail, q) = SaysList(b.tail, b)
    /\ c.box \in {-1, 4} => Right(q)
    /\ ~Passes(c, k) => Torn(q) \/ Spare(q)

(* How many are missing, and when none is.                                 *)
LEMMA MissingFacts ==
    ASSUME NEW c, c.box \in Nat \cup {-1}, NEW k \in Nat
    PROVE  /\ Missing(c, k) \in Nat
           /\ Missing(c, k + 1) = IF Missing(c, k) = 0 THEN 0 ELSE Missing(c, k) - 1
           /\ Passes(c, k) <=> (c.box <= 4 /\ Missing(c, k) = 0)
BY DEF Missing, Passes

(* WithTail gives a builder one parameter more.                            *)
LEMMA TailBasis ==
    ASSUME NEW c, c.box \in Nat \cup {-1}, NEW k \in Nat, NEW b, Basis(c, k, b),
           NEW name, NEW value, ~IsRisky(value), NEW after, after = WithTail(b, name, value)
    PROVE  Basis(c, k + 1, after)
<1>1. PICK values, clause : values = <<value>> /\ clause = Clause(b, <<name>>, "int", values)
  OBVIOUS
<1>2. IsBuilder(b) /\ IsSeq(values) /\ Len(values) = 1 /\ ToSet(values) = {value}
  BY <1>1, OneFacts DEF Basis
<1>3. Adds(b, after, "int", values, values)
  BY <1>1, <1>2, WithTailFacts
<1>4. ASSUME c.box <= 4
      PROVE  Lacks(after, Missing(c, k + 1)) /\ (c.box \in {-1, 4} => Right(after))
  <2>1. Lacks(b, Missing(c, k))
    BY <1>4 DEF Basis
  <2>2. CASE Missing(c, k) = 0
    <3>1. Lacks(after, 0) /\ (Right(b) => Right(after))
      BY <1>2, <1>3, <2>1, <2>2, LacksNothingGrows
    <3>2. Missing(c, k + 1) = 0
      BY <2>2, MissingFacts
    <3> QED
      BY <3>1, <3>2 DEF Basis
  <2>3. CASE Missing(c, k) # 0
    <3>1. PICK m \in Nat : m = Missing(c, k) /\ m > 0
      BY <2>3, MissingFacts
    <3>2. Lacks(after, m - 1)
      BY <1>2, <1>3, <2>1, <3>1, LackIsFilled
    <3>3. Missing(c, k + 1) = m - 1
      BY <3>1, MissingFacts
    <3>4. c.box \notin {-1, 4}
      BY <2>3 DEF Missing
    <3> QED
      BY <3>2, <3>3, <3>4
  <2> QED
    BY <2>2, <2>3
<1>5. c.box > 4 => Spare(after)
  BY <1>2, <1>3, SpareGrows DEF Basis
<1>6. Risky(after) = Risky(b)
  <2>1. Extended(b, after, values)
    BY <1>2, <1>3, ParamsAdded
  <2> QED
    BY <1>2, <2>1 DEF Extended, Risky
<1> QED
  BY <1>3, <1>4, <1>5, <1>6 DEF Basis, Adds

(* WithLimit, too, unless there is no limit.                               *)
LEMMA LimitBasis ==
    ASSUME NEW c, c.box \in Nat \cup {-1}, NEW k \in Nat, NEW b, Basis(c, k, b), NEW limit,
           NEW after, after = WithLimit(b, limit)
    PROVE  Basis(c, IF limit < 0 THEN k ELSE k + 1, after)
<1>1. CASE limit < 0
  BY <1>1 DEF WithLimit
<1>2. CASE ~(limit < 0)
  <2>1. PICK value : value = <<"limit", limit>>
    OBVIOUS
  <2>2. ~IsRisky(value)
    BY <2>1 DEF IsRisky
  <2>3. after = WithTail(b, "limit", value)
    BY <1>2, <2>1 DEF WithLimit
  <2> QED
    BY <1>2, <2>2, <2>3, TailBasis
<1> QED
  BY <1>1, <1>2

(* Build makes a builder for a request the query for it.                   *)
LEMMA BuiltQuery ==
    ASSUME NEW c, c.box \in Nat \cup {-1}, NEW k \in Nat, NEW b, Basis(c, k, b),
           NEW excluded, NEW order \in SetToSeqs(Fields),
           NEW q, q = Built(b, c, excluded, ArrayFields, order)
    PROVE  QueryFor(c, k, excluded, b, q)
<1>1. IsSeq(order) /\ ToSet(order) = Fields
  BY OrderFacts, FieldsAssumption
<1>2. PICK done : done = {f \in ToSet(order) : Used(c, excluded, f)}
  OBVIOUS
<1>3. LoopState(b, ArrayFields, done, q)
  BY <1>1, <1>2, BuiltFacts DEF Basis
<1>4. done = Chosen(c, excluded)
  BY <1>1, <1>2 DEF Chosen
<1>5. ASSUME Passes(c, k)
      PROVE  SaysMore(b, ArrayFields, done, q)
  <2>1. Lacks(b, 0)
    BY <1>5, MissingFacts DEF Basis
  <2> QED
    BY <1>3, <2>1 DEF LoopState
<1>6. c.box \in {-1, 4} => Passes(c, k) /\ Right(b)
  BY DEF Passes, Basis
<1>7. ASSUME ~Passes(c, k)
      PROVE  Torn(b) \/ Spare(b)
  <2>1. CASE c.box <= 4
    <3>1. PICK m \in Nat : m = Missing(c, k) /\ m > 0
      BY <1>7, <2>1, MissingFacts
    <3>2. Lacks(b, m) /\ IsBuilder(b)
      BY <2>1, <3>1 DEF Basis
    <3> QED
      BY <3>1, <3>2, LackIsTorn
  <2>2. CASE c.box > 4
    BY <2>2 DEF Basis
  <2> QED
    BY <2>1, <2>2
<1>8. IsBuilder(q) /\ q.sort = b.sort /\ q.tail = b.tail
  BY <1>3 DEF LoopState
<1>9. Risky(q) = RiskyIn(c)
  BY <1>3 DEF LoopState, Basis
<1>10. Names(q.where) = Names(b.where) \cup {FacetName(f, ArrayFields) : f \in Chosen(c, excluded)}
  BY <1>3, <1>4 DEF LoopState
<1>11. Passes(c, k) =>
          /\ Lacks(q, 0)
          /\ Selects(q) = Selects(b) \cup {Choice(f, ArrayFields) : f \in Chosen(c, excluded)}
          /\ SaysList(q.sort, q) = SaysList(b.sort, b)
          /\ SaysList(q.tail, q) = SaysList(b.tail, b)
  BY <1>4, <1>5, <1>8 DEF SaysMore
<1>12. c.box \in {-1, 4} => Right(q)
  BY <1>5, <1>6 DEF SaysMore
<1>13. ~Passes(c, k) => Torn(q) \/ Spare(q)
  BY <1>3, <1>7 DEF LoopState
<1> QED
  BY <1>8, <1>9, <1>10, <1>11, <1>12, <1>13 DEF QueryFor

(* A builder with other clauses but the same holes is as good a basis.     *)
LEMMA BasisStays ==
    ASSUME NEW c, NEW k, NEW b, Basis(c, k, b), NEW after, IsBuilder(after),
           Holes(after) = Holes(b), after.params = b.params
    PROVE  Basis(c, k, after)
<1>1. \A m : Lacks(b, m) => Lacks(after, m)
  BY DEF Lacks
<1>2. Right(b) => Right(after)
  BY DEF Right
<1>3. Spare(b) => Spare(after)
  BY DEF Spare
<1> QED
  BY <1>1, <1>2, <1>3 DEF Basis, Risky

-----------------------------------------------------------------------------
(* The calls.                                                              *)

(* The builders of Facets and RefData, and of Hits, before Build.          *)
FacetCore(c, f, limit) ==
    WithLimit([Constructed(c) EXCEPT
                  !.where = Append(@, [name |-> <<"notNull", f>>, holes |-> <<>>])], limit)
HitsSort(c) ==
    LET hole == [number |-> 1, type |-> "text", means |-> PrefixQuery(c)]
        rank == [name |-> <<"rank">>,
                 holes |-> IF Dialect = "postgres" THEN <<hole>> ELSE <<>>]
    IN  CASE HasCenter(c) -> <<[name |-> <<"distance">>, holes |-> <<>>]>>
          [] c.query # <<>> /\ ~HasCenter(c) -> <<rank>>
          [] OTHER -> <<[name |-> <<"created">>, holes |-> <<>>]>>
HitsCore(c) ==
    WithLimit(WithTail([Constructed(c) EXCEPT !.sort = HitsSort(c)],
                       "offset", <<"offset", c.offset>>), c.limit)

(* The query of Total ...                                                  *)
LEMMA TotalFor ==
    ASSUME NEW c, c.box \in Nat \cup {-1}, NEW order \in SetToSeqs(Fields)
    PROVE  QueryFor(c, 0, {}, Constructed(c), TotalQuery(c, order))
<1>1. PICK b, q : b = Constructed(c) /\ q = TotalQuery(c, order)
  OBVIOUS
<1>2. Basis(c, 0, b)
  BY <1>1, ConstructedFacts DEF ConstructedFor
<1>3. q = Built(b, c, {}, ArrayFields, order)
  BY <1>1 DEF TotalQuery
<1> QED
  BY <1>1, <1>2, <1>3, BuiltQuery

(* ... of Facets and RefData: the clause added to theirs has no hole ...   *)
LEMMA FacetFor ==
    ASSUME NEW c, c.box \in Nat \cup {-1}, NEW f, NEW limit, NEW excluded,
           NEW order \in SetToSeqs(Fields)
    PROVE  /\ QueryFor(c, IF limit < 0 THEN 0 ELSE 1, excluded, FacetCore(c, f, limit),
                       FacetQuery(c, f, limit, excluded, order))
           /\ Names(FacetCore(c, f, limit).where)
                  = Names(Constructed(c).where) \cup {<<"notNull", f>>}
<1>1. PICK b, clause, selected, core, q :
          /\ b = Constructed(c)
          /\ clause = [name |-> <<"notNull", f>>, holes |-> <<>>]
          /\ selected = [b EXCEPT !.where = Append(b.where, clause)]
          /\ core = WithLimit(selected, limit)
          /\ q = FacetQuery(c, f, limit, excluded, order)
  OBVIOUS
<1>2. core = FacetCore(c, f, limit) /\ q = Built(core, c, excluded, ArrayFields, order)
  BY <1>1 DEF FacetCore, FacetQuery
<1>3. Basis(c, 0, b) /\ IsBuilder(b)
  BY <1>1, ConstructedFacts DEF ConstructedFor, Basis
<1>4. selected = [where |-> Append(b.where, clause), tail |-> b.tail, sort |-> b.sort,
                  params |-> b.params]
  BY <1>1, <1>3 DEF IsBuilder
<1>5. /\ selected.where = Append(b.where, clause) /\ selected.tail = b.tail
      /\ selected.sort = b.sort /\ selected.params = b.params
      /\ IsBuilder(selected)
  BY <1>3, <1>4, AppendFacts DEF IsBuilder
<1>6. /\ HolesIn(selected.where) = HolesIn(b.where)
      /\ Names(selected.where) = Names(b.where) \cup {<<"notNull", f>>}
  <2>1. clause.holes = <<>> /\ clause.name = <<"notNull", f>>
    BY <1>1
  <2>2. ToSet(clause.holes) = {}
    BY <2>1, EmptyLists
  <2>3. IsSeq(b.where)
    BY <1>3 DEF IsBuilder
  <2>4. /\ HolesIn(selected.where) = HolesIn(b.where) \cup ToSet(clause.holes)
        /\ Names(selected.where) = Names(b.where) \cup {clause.name}
    BY <1>5, <2>3, ClauseAppended
  <2> QED
    BY <2>1, <2>2, <2>4
<1>7. Holes(selected) = Holes(b)
  BY <1>3, <1>5, <1>6, HolesAreIn
<1>8. Basis(c, 0, selected)
  BY <1>3, <1>5, <1>7, BasisStays
<1>9. Basis(c, IF limit < 0 THEN 0 ELSE 1, core)
  BY <1>1, <1>8, LimitBasis
<1>10. core.where = selected.where
  <2>1. CASE limit < 0
    BY <1>1, <2>1 DEF WithLimit
  <2>2. CASE ~(limit < 0)
    <3>1. PICK value, values : value = <<"limit", limit>> /\ values = <<value>>
      OBVIOUS
    <3>2. core = WithTail(selected, "limit", value)
      BY <1>1, <2>2, <3>1 DEF WithLimit
    <3>3. AddsTail(selected, core, Clause(selected, <<"limit">>, "int", values))
      BY <1>5, <3>1, <3>2, WithTailFacts
    <3> QED
      BY <3>3 DEF AddsTail
  <2> QED
    BY <2>1, <2>2
<1>11. PICK k \in Nat : k = IF limit < 0 THEN 0 ELSE 1
  OBVIOUS
<1>12. QueryFor(c, k, excluded, core, q)
  BY <1>2, <1>9, <1>11, BuiltQuery
<1> QED
  BY <1>1, <1>2, <1>6, <1>10, <1>11, <1>12

(* OFFSET and LIMIT change nothing of what WHERE says.                     *)
LEMMA TailSelects ==
    ASSUME NEW b, IsBuilder(b), Lacks(b, 0), NEW name, NEW value,
           NEW after, after = WithTail(b, name, value)
    PROVE  IsBuilder(after) /\ Lacks(after, 0) /\ Selects(after) = Selects(b)
<1>1. PICK values : values = <<value>> /\ IsSeq(values)
  BY OneFacts
<1>2. Adds(b, after, "int", values, values) /\ after.where = b.where
  <2>1. /\ Adds(b, after, "int", values, values)
        /\ AddsTail(b, after, Clause(b, <<name>>, "int", values))
    BY <1>1, WithTailFacts
  <2> QED
    BY <2>1 DEF AddsTail
<1>3. Lacks(after, 0)
  BY <1>1, <1>2, LacksNothingGrows
<1>4. \A clause \in ToSet(b.where) : Reading(clause, after) = Reading(clause, b)
  BY <1>1, <1>2, ListsStay
<1> QED
  BY <1>2, <1>3, <1>4 DEF Adds, Selects

(* ... and of Hits: the hole of the ranking is that of the phrase.         *)
LEMMA HitsSorted ==
    ASSUME NEW c, c.box \in Nat \cup {-1}, NEW b, b = Constructed(c),
           NEW sorted, sorted = [b EXCEPT !.sort = HitsSort(c)]
    PROVE  /\ Basis(c, 0, sorted) /\ IsBuilder(sorted)
           /\ sorted.where = b.where /\ sorted.params = b.params
<1>1. ConstructedFor(c, b)
  BY ConstructedFacts
<1>2. Basis(c, 0, b) /\ IsBuilder(b) /\ b.sort = <<>>
  BY <1>1 DEF ConstructedFor, Basis
<1>3. PICK sort : sort = HitsSort(c)
  OBVIOUS
<1>4. IsSeq(sort) /\ HolesIn(sort) \subseteq Holes(b)
  <2>1. ASSUME NEW clause, sort = <<clause>>
        PROVE  IsSeq(sort) /\ HolesIn(sort) = ToSet(clause.holes)
    <3>1. IsSeq(sort) /\ ToSet(sort) = {clause}
      BY <2>1, OneFacts
    <3> QED
      BY <3>1 DEF HolesIn
  <2>2. CASE HasCenter(c)
    <3>1. PICK clause : clause = [name |-> <<"distance">>, holes |-> <<>>]
      OBVIOUS
    <3>2. sort = <<clause>> /\ clause.holes = <<>>
      BY <1>3, <2>2, <3>1 DEF HitsSort
    <3> QED
      BY <2>1, <3>2, EmptyLists
  <2>3. CASE ~HasCenter(c) /\ c.query = <<>>
    <3>1. PICK clause : clause = [name |-> <<"created">>, holes |-> <<>>]
      OBVIOUS
    <3>2. sort = <<clause>> /\ clause.holes = <<>>
      BY <1>3, <2>3, <3>1 DEF HitsSort
    <3> QED
      BY <2>1, <3>2, EmptyLists
  <2>4. CASE ~HasCenter(c) /\ c.query # <<>>
    <3>1. PICK hole, holes, clause :
              /\ hole = FirstHole(c)
              /\ holes = (IF Dialect = "postgres" THEN <<hole>> ELSE <<>>)
              /\ clause = [name |-> <<"rank">>, holes |-> holes]
      OBVIOUS
    <3>2. sort = <<clause>>
      BY <1>3, <2>4, <3>1 DEF HitsSort, FirstHole
    <3>3. ToSet(holes) \subseteq {hole}
      BY <3>1, OneFacts, EmptyLists
    <3>4. hole \in Holes(b)
      BY <1>1, <2>4, <3>1 DEF ConstructedFor
    <3>5. IsSeq(sort) /\ HolesIn(sort) = ToSet(holes)
      BY <2>1, <3>1, <3>2
    <3> QED
      BY <3>3, <3>4, <3>5
  <2> QED
    BY <2>2, <2>3, <2>4
<1>5. sorted = [where |-> b.where, tail |-> b.tail, sort |-> sort, params |-> b.params]
  BY <1>2, <1>3 DEF IsBuilder
<1>6. /\ sorted.where = b.where /\ sorted.tail = b.tail
      /\ sorted.sort = sort /\ sorted.params = b.params
      /\ IsBuilder(sorted)
  BY <1>2, <1>4, <1>5 DEF IsBuilder
<1>7. Holes(sorted) = Holes(b)
  <2>1. Holes(b) = HolesIn(b.where) \cup HolesIn(b.sort) \cup HolesIn(b.tail)
    BY <1>2, HolesAreIn
  <2>2. Holes(sorted) = HolesIn(b.where) \cup HolesIn(sort) \cup HolesIn(b.tail)
    BY <1>6, HolesAreIn
  <2>3. HolesIn(b.sort) = {}
    BY <1>2, EmptyLists DEF HolesIn
  <2> QED
    BY <1>4, <2>1, <2>2, <2>3
<1> QED
  BY <1>2, <1>6, <1>7, BasisStays

LEMMA HitsFor ==
    ASSUME NEW c, c.box \in Nat \cup {-1}, c.limit \in Nat, NEW order \in SetToSeqs(Fields)
    PROVE  /\ QueryFor(c, 2, {}, HitsCore(c), HitsQuery(c, order))
           /\ c.box \in {-1, 4} => Selects(HitsCore(c)) = Selects(Constructed(c))
<1>1. PICK b, sort, sorted, offset, shifted, limit, core, q :
          /\ b = Constructed(c) /\ sort = HitsSort(c) /\ sorted = [b EXCEPT !.sort = sort]
          /\ offset = <<"offset", c.offset>> /\ shifted = WithTail(sorted, "offset", offset)
          /\ limit = <<"limit", c.limit>> /\ core = WithLimit(shifted, c.limit)
          /\ q = HitsQuery(c, order)
  OBVIOUS
<1>2. core = HitsCore(c) /\ q = Built(core, c, {}, ArrayFields, order)
  BY <1>1 DEF HitsCore, HitsQuery, HitsSort
<1>3. /\ Basis(c, 0, sorted) /\ IsBuilder(sorted)
      /\ sorted.where = b.where /\ sorted.params = b.params
  BY <1>1, HitsSorted
<1>4. Basis(c, 1, shifted)
  <2>1. ~IsRisky(offset)
    BY <1>1 DEF IsRisky
  <2>2. Basis(c, 0 + 1, shifted)
    BY <1>1, <1>3, <2>1, TailBasis
  <2> QED
    BY <2>2
<1>5. ~(c.limit < 0)
  OBVIOUS
<1>6. Basis(c, 2, core)
  <2>1. Basis(c, IF c.limit < 0 THEN 1 ELSE 1 + 1, core)
    BY <1>1, <1>4, LimitBasis
  <2> QED
    BY <1>5, <2>1
<1>7. QueryFor(c, 2, {}, core, q)
  BY <1>2, <1>6, BuiltQuery
<1>8. ASSUME c.box \in {-1, 4}
      PROVE  Selects(core) = Selects(b)
  <2>1. Lacks(sorted, 0)
    <3>1. Missing(c, 0) = 0
      BY <1>8 DEF Missing
    <3> QED
      BY <1>3, <1>8, <3>1 DEF Basis
  <2>2. Selects(sorted) = Selects(b)
    <3>1. \A clause : Reading(clause, sorted) = Reading(clause, b)
      BY <1>3 DEF Reading, Bound
    <3> QED
      BY <1>3, <3>1 DEF Selects
  <2>3. IsBuilder(shifted) /\ Lacks(shifted, 0) /\ Selects(shifted) = Selects(sorted)
    BY <1>1, <1>3, <2>1, TailSelects
  <2>4. core = WithTail(shifted, "limit", limit)
    BY <1>1, <1>5 DEF WithLimit
  <2>5. Selects(core) = Selects(shifted)
    BY <2>3, <2>4, TailSelects
  <2> QED
    BY <2>2, <2>3, <2>5
<1> QED
  BY <1>1, <1>2, <1>7, <1>8

(* The request that asks for nothing, of RefData and FindByObjectID.       *)
LEMMA EmptyFacts ==
    /\ Empty.box = -1 /\ ~HasCenter(Empty) /\ Empty.query = <<>> /\ Empty.limit = 0
    /\ Empty.near = <<"none", 0>>
    /\ \A f \in Fields : Empty.facets[f] = "absent"
    /\ RiskyIn(Empty) = {}
<1>1. /\ Empty.box = -1 /\ Empty.query = <<>> /\ Empty.limit = 0
      /\ Empty.near = <<"none", 0>>
      /\ \A f \in Fields : Empty.facets[f] = "absent"
  BY DEF Empty
<1>2. ~HasCenter(Empty)
  BY <1>1 DEF HasCenter
<1> QED
  BY <1>1, <1>2 DEF RiskyIn

(* The nearby routes: "$1" is the first parameter, the id.                 *)
LEMMA RelatedFor ==
    ASSUME NEW id, NEW q, q = RelatedQuery(id)
    PROVE  IsBuilder(q) /\ Lacks(q, 0) /\ Right(q) /\ Risky(q) = {}
<1>1. PICK b, value, values, hole, clause, start :
          /\ b = NewBuilder /\ value = <<"objectID", id>> /\ values = <<value>>
          /\ hole = [number |-> 1, type |-> "text", means |-> value]
          /\ clause = [name |-> <<"of">>, holes |-> <<hole>>]
          /\ start = [b EXCEPT !.where = Append(b.where, clause), !.params = Append(b.params, value)]
  OBVIOUS
<1>2. Constructed(Empty) = b
  BY <1>1, EmptyFacts DEF Constructed, WithPhrase, WithArea
<1>3. q = Built(start, Empty, {}, {}, <<>>)
  BY <1>1, <1>2 DEF RelatedQuery
<1>4. IsBuilder(b) /\ Lacks(b, 0) /\ Right(b) /\ b.params = <<>>
  BY <1>1, NewBuilderFacts
<1>5. IsSeq(values) /\ ToSet(values) = {value} /\ DOMAIN values = 1..1 /\ values[1] = value
  BY <1>1, OneFacts
<1>6. clause = Clause(b, <<"of">>, "text", values)
  <2>1. [i \in DOMAIN values |-> [number |-> Len(b.params) + i, type |-> "text", means |-> values[i]]]
            = <<hole>>
    <3>1. Len(b.params) + 1 = 1
      BY <1>4, EmptyLists
    <3> QED
      BY <1>1, <1>5, <3>1
  <2> QED
    BY <1>1, <2>1 DEF Clause
<1>7. start = WithWhere(b, <<"of">>, "text", values, values)
  <2>1. Append(b.params, value) = b.params \o values
    BY <1>1, <1>4, AppendIsConcatOne, EmptyLists
  <2> QED
    BY <1>1, <1>6, <2>1, Zenon DEF WithWhere
<1>8. PICK name : name = <<"of">>
  OBVIOUS
<1>9. Adds(b, start, "text", values, values)
  BY <1>4, <1>5, <1>7, <1>8, WithWhereFacts
<1>10. Lacks(start, 0) /\ Right(start) /\ IsBuilder(start)
  BY <1>4, <1>5, <1>9, LacksNothingGrows DEF Adds
<1>11. LoopState(start, {}, {}, q)
  <2>1. {f \in ToSet(<<>>) : Used(Empty, {}, f)} = {}
    BY EmptyLists
  <2> QED
    BY <1>3, <1>10, <2>1, BuiltFacts, EmptyLists
<1>12. Risky(q) = {}
  <2>1. Extended(b, start, values)
    BY <1>4, <1>5, <1>9, ParamsAdded
  <2>2. ToSet(start.params) = {value}
    BY <1>4, <1>5, <2>1, EmptyLists DEF Extended
  <2>3. ~IsRisky(value)
    BY <1>1 DEF IsRisky
  <2>4. Risky(start) = {}
    BY <2>2, <2>3 DEF Risky
  <2> QED
    BY <1>11, <2>4 DEF LoopState
<1> QED
  BY <1>10, <1>11, <1>12 DEF LoopState, SaysMore

(* What each call of a search or of RefData asks: on whose behalf, without *)
(* which facets, with how many parameters of OFFSET and LIMIT, and what    *)
(* Build starts from.                                                      *)
Searches == {call \in Calls : call[1] # "related"}
SubjectOf(call, c) == IF call[1] = "refData" THEN Empty ELSE c
ExcludedOf(call) == IF call[1] = "facet" THEN Excluded(call[2]) ELSE {}
TailsOf(call) == IF call[1] = "hits" THEN 2 ELSE IF call[1] = "facet" THEN 1 ELSE 0
CoreOf(call, c) ==
    IF call[1] = "total" THEN Constructed(c)
    ELSE IF call[1] = "hits" THEN HitsCore(c)
    ELSE IF call[1] = "facet" THEN FacetCore(c, call[2], FacetLimit[call[2]])
    ELSE FacetCore(Empty, call[2], -1)

AsksFor(call, c, q) ==
    QueryFor(SubjectOf(call, c), TailsOf(call), ExcludedOf(call), CoreOf(call, c), q)

(* What the handler's checks leave of requests.                            *)
Legal(c) ==
    /\ c.box \in Nat \cup {-1}
    /\ c.box # -1 => ~HasCenter(c)
    /\ c.limit \in 0..100

(* The calls, one by one.                                                  *)
LEMMA CallKinds ==
    ASSUME NEW call \in Calls
    PROVE  \/ call = <<"total">> /\ call[1] = "total"
           \/ call = <<"hits">> /\ call[1] = "hits"
           \/ call[1] = "related" /\ call = <<"related", call[2]>>
           \/ /\ call[1] \in {"facet", "refData"} /\ call[2] \in Fields \cap DOMAIN FacetLimit
              /\ call = <<call[1], call[2]>>
BY DEF Calls

(* Each facet of the table has a limit, so RefData's -1 is not one.        *)
LEMMA LimitsAreGiven == \A f \in DOMAIN FacetLimit : FacetLimit[f] \in Nat
BY DEF FacetLimit

(* Every call sends the query it is meant to, in any order of facets.      *)
LEMMA QueryOfFacts ==
    ASSUME NEW call \in Searches, NEW c, Legal(c), NEW order \in SetToSeqs(Fields),
           NEW q, q = QueryOf(call, c, order)
    PROVE  AsksFor(call, c, q)
<1>0. c.box \in Nat \cup {-1} /\ c.limit \in Nat
  BY DEF Legal
<1>1. CASE call[1] = "total"
  <2>1. q = TotalQuery(c, order)
    BY <1>1 DEF QueryOf
  <2> QED
    BY <1>0, <1>1, <2>1, TotalFor DEF AsksFor, SubjectOf, ExcludedOf, TailsOf, CoreOf
<1>2. CASE call[1] = "hits"
  <2>1. q = HitsQuery(c, order)
    BY <1>2 DEF QueryOf
  <2> QED
    BY <1>0, <1>2, <2>1, HitsFor DEF AsksFor, SubjectOf, ExcludedOf, TailsOf, CoreOf
<1>3. CASE call[1] = "facet"
  <2>1. PICK f, limit, excluded : f = call[2] /\ limit = FacetLimit[f] /\ excluded = Excluded(f)
    OBVIOUS
  <2>2. q = FacetQuery(c, f, limit, excluded, order)
    BY <1>3, <2>1 DEF QueryOf
  <2>3. QueryFor(c, IF limit < 0 THEN 0 ELSE 1, excluded, FacetCore(c, f, limit), q)
    BY <1>0, <2>2, FacetFor
  <2>4. ~(limit < 0)
    BY <1>3, <2>1, CallKinds, LimitsAreGiven DEF Searches
  <2> QED
    BY <1>3, <2>1, <2>3, <2>4 DEF AsksFor, SubjectOf, ExcludedOf, TailsOf, CoreOf
<1>4. CASE call[1] = "refData"
  <2>1. PICK f, e, limit : f = call[2] /\ e = Empty /\ limit = -1
    OBVIOUS
  <2>2. q = FacetQuery(e, f, limit, {}, order)
    BY <1>4, <2>1 DEF QueryOf
  <2>3. QueryFor(e, IF limit < 0 THEN 0 ELSE 1, {}, FacetCore(e, f, limit), q)
    BY <2>1, <2>2, EmptyFacts, FacetFor
  <2>4. limit < 0
    BY <2>1
  <2> QED
    BY <1>4, <2>1, <2>3, <2>4 DEF AsksFor, SubjectOf, ExcludedOf, TailsOf, CoreOf
<1> QED
  BY CallKinds, <1>1, <1>2, <1>3, <1>4 DEF Searches

-----------------------------------------------------------------------------
(* What the database makes of them.                                        *)

(* What the query of a call says: what Build started from, and the choices.*)
SaysOf(call, c) ==
    <<Selects(CoreOf(call, c))
          \cup {Choice(f, ArrayFields) : f \in Chosen(SubjectOf(call, c), ExcludedOf(call))},
      SaysList(CoreOf(call, c).sort, CoreOf(call, c)),
      SaysList(CoreOf(call, c).tail, CoreOf(call, c))>>

(* In a query that is right, nothing is misread.                           *)
LEMMA RightIsNotMisread ==
    ASSUME NEW b, Right(b), Dialect = "postgres"
    PROVE  ~Misread(b)
<1>1. \A binding \in Bindings(b) : \E hole \in Holes(b) : binding = <<hole.number, hole>>
  BY BindingsAre
<1>2. \A binding \in Bindings(b) : b.params[binding[1]] = binding[2].means
  BY <1>1 DEF Right
<1> QED
  BY <1>2 DEF Misread

(* PostgreSQL accepts a query exactly when OFFSET and LIMIT make up for the*)
(* coordinates that lack, and it then says what it is meant to or, of a    *)
(* box, what these parameters make of it; it is right when none lacks.     *)
LEMMA QueryIs ==
    ASSUME Dialect = "postgres", NEW call \in Searches, NEW c, NEW q, AsksFor(call, c, q)
    PROVE  /\ Accepted(q) <=> Passes(SubjectOf(call, c), TailsOf(call))
           /\ SubjectOf(call, c).box \in {-1, 4} => ~Misread(q)
           /\ Accepted(q) => Selects(q) = SaysOf(call, c)[1] /\ Says(q) = SaysOf(call, c)
<1>1. PICK d, k, excluded, core :
          /\ d = SubjectOf(call, c) /\ k = TailsOf(call)
          /\ excluded = ExcludedOf(call) /\ core = CoreOf(call, c)
  OBVIOUS
<1>2. QueryFor(d, k, excluded, core, q)
  BY <1>1 DEF AsksFor
<1>3. Passes(d, k) => Accepted(q)
  BY <1>2, CompleteIsAccepted DEF QueryFor
<1>4. ~Passes(d, k) => ~Accepted(q)
  BY <1>2, TornIsRefused DEF QueryFor
<1>5. d.box \in {-1, 4} => ~Misread(q)
  BY <1>2, RightIsNotMisread DEF QueryFor
<1>6. ASSUME Passes(d, k)
      PROVE  Selects(q) = SaysOf(call, c)[1] /\ Says(q) = SaysOf(call, c)
  <2>1. /\ Selects(q) = Selects(core) \cup {Choice(f, ArrayFields) : f \in Chosen(d, excluded)}
        /\ SaysList(q.sort, q) = SaysList(core.sort, core)
        /\ SaysList(q.tail, q) = SaysList(core.tail, core)
    BY <1>2, <1>6 DEF QueryFor
  <2>2. PICK selects, sort, tail :
            /\ selects = Selects(core) \cup {Choice(f, ArrayFields) : f \in Chosen(d, excluded)}
            /\ sort = SaysList(core.sort, core) /\ tail = SaysList(core.tail, core)
    OBVIOUS
  <2>3. SaysOf(call, c) = <<selects, sort, tail>>
    BY <1>1, <2>2 DEF SaysOf
  <2>4. Says(q) = <<Selects(q), SaysList(q.sort, q), SaysList(q.tail, q)>>
    BY DEF Says, SaysList
  <2> QED
    BY <2>1, <2>2, <2>3, <2>4
<1> QED
  BY <1>1, <1>3, <1>4, <1>5, <1>6

(* What PostgreSQL does not fail to evaluate.                              *)
Fine(param) ==
    /\ param[1] = "query" => Parses(param[2])
    /\ param[1] = "distance" => Metres(param[2]) >= 0
FineRequest(c) == \A param \in RiskyIn(c) : Fine(param)

(* A query runs when it is accepted and its phrase and distance are fine.  *)
LEMMA RunsIs ==
    ASSUME NEW q, NEW c, Risky(q) = RiskyIn(c)
    PROVE  Runs(q) <=> Accepted(q) /\ FineRequest(c)
<1>1. Runs(q) <=> Accepted(q) /\ \A param \in ToSet(q.params) : Fine(param)
  BY DEF Runs, Fine
<1>2. \A param : ~IsRisky(param) => Fine(param)
  BY DEF IsRisky, Fine
<1>3. (\A param \in ToSet(q.params) : Fine(param)) <=> \A param \in RiskyIn(c) : Fine(param)
  BY <1>2 DEF Risky
<1> QED
  BY <1>1, <1>3 DEF FineRequest

(* A plain phrase parses: text and weights, joined by &.                   *)
LEMMA PlainParses ==
    ASSUME NEW c, Plain(c.query)
    PROVE  Fine(PrefixQuery(c))
<1>1. PICK words, param : /\ words = [i \in DOMAIN c.query |-> Append(c.query[i], ":*")]
                          /\ param = <<"query", words>>
  OBVIOUS
<1>2. PICK text, word : text = <<"text">> /\ word = Append(text, ":*")
  OBVIOUS
<1>3. DOMAIN word = 1..2 /\ word[1] = "text" /\ word[2] = ":*"
  <2>1. IsSeq(text) /\ Len(text) = 1 /\ text[1] = "text"
    BY <1>2, OneFacts
  <2>2. /\ IsSeq(word) /\ Len(word) = Len(text) + 1
        /\ \A i \in 1..Len(text) : word[i] = text[i]
        /\ word[Len(text) + 1] = ":*"
    BY <1>2, <2>1, AppendFacts
  <2>3. DOMAIN word = 1..Len(word)
    BY <2>2, SeqFacts
  <2> QED
    BY <2>1, <2>2, <2>3
<1>4. ASSUME NEW i \in DOMAIN words
      PROVE  words[i] = word
  <2>1. words[i] = Append(c.query[i], ":*") /\ c.query[i] = <<"text">>
    BY <1>1, <1>4 DEF Plain
  <2> QED
    BY <1>2, <2>1
<1>5. ASSUME NEW i \in DOMAIN words, NEW k \in DOMAIN words[i]
      PROVE  words[i][k] \in Follows(IF k = 1 THEN "&" ELSE words[i][k - 1])
  <2>1. words[i] = word
    BY <1>4
  <2>2. k = 1 \/ k = 2
    BY <1>3, <2>1
  <2>3. "text" \in Follows("&") /\ ":*" \in Follows("text")
    BY DEF Follows
  <2> QED
    BY <1>3, <2>1, <2>2, <2>3
<1>6. ASSUME NEW token \in {"(", ")"}
      PROVE  Places(words, token) = {}
  <2>1. \A i \in DOMAIN words : {j \in DOMAIN words[i] : words[i][j] = token} = {}
    BY <1>3, <1>4
  <2> QED
    BY <2>1 DEF Places
<1>7. Balanced(words)
  <2>1. Places(words, "(") = {} /\ Places(words, ")") = {}
    BY <1>6
  <2> QED
    BY <2>1 DEF Balanced
<1>8. Parses(words)
  BY <1>5, <1>7 DEF Parses
<1>9. param[1] = "query" /\ param[2] = words
  BY <1>1
<1> QED
  BY <1>1, <1>8, <1>9 DEF Fine, PrefixQuery

(* A proper request is fine.                                               *)
LEMMA ProperIsFine ==
    ASSUME NEW c, Proper(c)
    PROVE  FineRequest(c)
<1>1. Fine(PrefixQuery(c))
  BY PlainParses DEF Proper
<1>2. HasCenter(c) => Fine(<<"distance", c.near[2]>>)
  <2>1. PICK param : param = <<"distance", c.near[2]>>
    OBVIOUS
  <2>2. param[1] = "distance" /\ param[2] = c.near[2]
    BY <2>1
  <2> QED
    BY <2>1, <2>2 DEF Proper, Fine
<1> QED
  BY <1>1, <1>2 DEF FineRequest, RiskyIn

-----------------------------------------------------------------------------
(* Facets and keys.                                                        *)

(* The facets FACET_FIELDS excludes are the facet itself and the areas     *)
(* below it in the ladder.                                                 *)
LEMMA ExcludedIsTheLadderBelow ==
    ASSUME NEW f, NEW g
    PROVE  g \in Excluded(f) <=> (f = g \/ Above(f, g))
<1>1. /\ DOMAIN Ladder = 1..5
      /\ Ladder[1] = "country" /\ Ladder[2] = "state" /\ Ladder[3] = "region"
      /\ Ladder[4] = "county" /\ Ladder[5] = "district"
  BY DEF Ladder
<1>2. Above(f, g) <=>
          \/ f = "country" /\ g \in {"country", "state", "region", "county", "district"}
          \/ f = "state" /\ g \in {"state", "region", "county", "district"}
          \/ f = "region" /\ g \in {"region", "county", "district"}
          \/ f = "county" /\ g \in {"county", "district"}
          \/ f = "district" /\ g = "district"
  <2>1. Above(f, g) <=> \E i, j \in 1..5 : i <= j /\ Ladder[i] = f /\ Ladder[j] = g
    BY <1>1 DEF Above
  <2>2. Above(f, g) <=>
            \/ \E j \in 1..5 : f = "country" /\ Ladder[j] = g
            \/ \E j \in 2..5 : f = "state" /\ Ladder[j] = g
            \/ \E j \in 3..5 : f = "region" /\ Ladder[j] = g
            \/ \E j \in 4..5 : f = "county" /\ Ladder[j] = g
            \/ \E j \in 5..5 : f = "district" /\ Ladder[j] = g
    BY <1>1, <2>1
  <2> QED
    BY <1>1, <2>2
<1> QED
  BY <1>2 DEF Excluded

(* A choice of g narrows the query.                                        *)
(* A choice of g narrows the query.                                        *)
Narrows(q, g) ==
    \E clause \in ToSet(q.where) : clause.name \in {<<"overlap", g>>, <<"any", g>>}

(* A query is narrowed by the choices that are made and not excluded.      *)
LEMMA NarrowedIs ==
    ASSUME NEW c, c.box \in Nat \cup {-1}, NEW f, NEW g \in Fields, NEW excluded, NEW q,
           Names(q.where) = Names(Constructed(c).where) \cup {<<"notNull", f>>}
               \cup {FacetName(h, ArrayFields) : h \in Chosen(c, excluded)}
    PROVE  Narrows(q, g) <=> (c.facets[g] = "chosen" /\ g \notin excluded)
<1>1. PICK names : names = Names(Constructed(c).where)
  OBVIOUS
<1>2. \A name \in names : name \in {<<"phrase">>, <<"within">>, <<"near">>}
  BY <1>1, ConstructedFacts DEF ConstructedFor
<1>3. Narrows(q, g) <=> \E name \in Names(q.where) : name \in {<<"overlap", g>>, <<"any", g>>}
  BY DEF Narrows, Names
<1>4. \A name \in {<<"overlap", g>>, <<"any", g>>} : name[1] \in {"overlap", "any"} /\ name[2] = g
  OBVIOUS
<1>5. \A h : /\ FacetName(h, ArrayFields)[2] = h
             /\ FacetName(h, ArrayFields) \in {<<"overlap", h>>, <<"any", h>>}
  BY DEF FacetName
<1>6. ASSUME NEW name \in Names(q.where), name \in {<<"overlap", g>>, <<"any", g>>}
      PROVE  c.facets[g] = "chosen" /\ g \notin excluded
  <2>1. name[1] \in {"overlap", "any"} /\ name[2] = g
    BY <1>4, <1>6
  <2>2. name \notin {<<"phrase">>, <<"within">>, <<"near">>} /\ name # <<"notNull", f>>
    BY <2>1
  <2>3. PICK h \in Chosen(c, excluded) : name = FacetName(h, ArrayFields)
    BY <1>1, <1>2, <2>2
  <2>4. h = g
    BY <1>5, <2>1, <2>3
  <2> QED
    BY <2>3, <2>4 DEF Chosen, Used
<1>7. ASSUME c.facets[g] = "chosen", g \notin excluded
      PROVE  Narrows(q, g)
  <2>1. g \in Chosen(c, excluded)
    BY <1>7 DEF Chosen, Used
  <2>2. FacetName(g, ArrayFields) \in Names(q.where)
    BY <2>1
  <2> QED
    BY <1>3, <1>5, <2>2
<1> QED
  BY <1>3, <1>6, <1>7

(* The parts of a search's key.                                            *)
KindOfKey(call) ==
    IF call[1] = "total" THEN "criteria" ELSE IF call[1] = "hits" THEN "hits" ELSE "facet"
KeyParts(call, c, k) ==
    /\ k[1] = KindOfKey(call)
    /\ call[1] \in {"total", "facet"} =>
          k[2] = c.query /\ k[3] = c.box /\ k[4] = c.facets /\ k[5] = c.near
    /\ call[1] = "hits" =>
          /\ k[2] = c.query /\ k[3] = (IF c.box = 0 THEN -1 ELSE c.box)
          /\ k[4] = c.facets /\ k[5] = c.near /\ k[6] = c.offset /\ k[7] = c.limit
    /\ call[1] \in {"facet", "refData"} =>
          k[6] = call[2] /\ k[7] = (IF call[1] = "facet" THEN FacetLimit[call[2]] ELSE -1)

(* A key determines its parts.                                             *)
LEMMA KeyIsItsParts ==
    ASSUME NEW call \in Searches, NEW c
    PROVE  KeyParts(call, c, Key(call, c))
<1>1. PICK k, q, box, f, n, g, m :
          /\ k = Key(call, c) /\ q = c.query /\ box = (IF c.box = 0 THEN -1 ELSE c.box)
          /\ f = c.facets /\ n = c.near /\ g = call[2] /\ m = FacetLimit[g]
  OBVIOUS
<1>2. CASE call[1] = "total"
  <2>1. k = <<"criteria", q, c.box, f, n>>
    BY <1>1, <1>2 DEF Key
  <2> QED
    BY <1>1, <1>2, <2>1 DEF KeyParts, KindOfKey
<1>3. CASE call[1] = "hits"
  <2>1. k = <<"hits", q, box, f, n, c.offset, c.limit>>
    BY <1>1, <1>3 DEF Key
  <2> QED
    BY <1>1, <1>3, <2>1 DEF KeyParts, KindOfKey
<1>4. CASE call[1] = "facet"
  <2>1. k = <<"facet", q, c.box, f, n, g, m>>
    BY <1>1, <1>4 DEF Key
  <2> QED
    BY <1>1, <1>4, <2>1 DEF KeyParts, KindOfKey
<1>5. CASE call[1] = "refData"
  <2>1. PICK a, d, e : a = <<>> /\ d = Empty.facets /\ e = Empty.near
    OBVIOUS
  <2>2. k = <<"facet", a, -1, d, e, g, -1>>
    BY <1>1, <1>5, <2>1 DEF Key
  <2> QED
    BY <1>1, <1>5, <2>2 DEF KeyParts, KindOfKey
<1> QED
  BY CallKinds, <1>2, <1>3, <1>4, <1>5 DEF Searches

(* Requests that agree on what is hashed make the same of the builder.     *)
LEMMA SameConstructed ==
    ASSUME NEW c, NEW d, c.query = d.query, c.box = d.box, c.facets = d.facets, c.near = d.near
    PROVE  /\ Constructed(c) = Constructed(d) /\ HitsSort(c) = HitsSort(d)
           /\ \A excluded : Chosen(c, excluded) = Chosen(d, excluded)
<1>1. PrefixQuery(c) = PrefixQuery(d) /\ (HasCenter(c) <=> HasCenter(d))
      /\ CircleParams(c) = CircleParams(d)
  BY DEF PrefixQuery, HasCenter, CircleParams
<1>2. \A excluded : Chosen(c, excluded) = Chosen(d, excluded)
  BY DEF Chosen, Used
<1>3. \A b : WithPhrase(b, c) = WithPhrase(b, d)
  BY <1>1 DEF WithPhrase
<1>4. \A b : WithArea(b, c) = WithArea(b, d)
  BY <1>1 DEF WithArea
<1>5. Constructed(c) = Constructed(d)
  BY <1>3, <1>4 DEF Constructed
<1>6. HitsSort(c) = HitsSort(d)
  BY <1>1 DEF HitsSort
<1> QED
  BY <1>2, <1>5, <1>6

(* Two calls with one key ask the same, if PostgreSQL accepts their        *)
(* queries. For SearchHits it matters that it refuses an empty box, which  *)
(* the key has not; RefData's limit sets it apart from Facets.             *)
LEMMA SameKeySameSaying ==
    ASSUME NEW one \in Searches, NEW other \in Searches, NEW c, NEW d,
           Passes(SubjectOf(one, c), TailsOf(one)), Passes(SubjectOf(other, d), TailsOf(other)),
           Key(one, c) = Key(other, d)
    PROVE  SaysOf(one, c) = SaysOf(other, d)
<1> DEFINE Kinds == {"total", "hits", "facet", "refData"}
<1>1. one[1] \in Kinds /\ other[1] \in Kinds
  BY CallKinds DEF Searches
<1>2. PICK k : k = Key(one, c)
  OBVIOUS
<1>3. KeyParts(one, c, k) /\ KeyParts(other, d, k)
  BY <1>2, KeyIsItsParts
<1>4. KindOfKey(one) = KindOfKey(other)
  BY <1>3 DEF KeyParts
<1>5. ASSUME CoreOf(one, c) = CoreOf(other, d), ExcludedOf(one) = ExcludedOf(other),
             \A excluded :
                 Chosen(SubjectOf(one, c), excluded) = Chosen(SubjectOf(other, d), excluded)
      PROVE  SaysOf(one, c) = SaysOf(other, d)
  BY <1>5 DEF SaysOf
<1>6. CASE one[1] = "total"
  <2>1. other[1] = "total"
    BY <1>1, <1>4, <1>6 DEF KindOfKey
  <2>2. c.query = d.query /\ c.box = d.box /\ c.facets = d.facets /\ c.near = d.near
    BY <1>3, <1>6, <2>1 DEF KeyParts
  <2>3. Constructed(c) = Constructed(d) /\ \A excluded : Chosen(c, excluded) = Chosen(d, excluded)
    BY <2>2, SameConstructed
  <2> QED
    BY <1>5, <1>6, <2>1, <2>3 DEF SubjectOf, ExcludedOf, CoreOf
<1>7. CASE one[1] = "hits"
  <2>1. other[1] = "hits"
    BY <1>1, <1>4, <1>7 DEF KindOfKey
  <2>2. c.box # 0 /\ d.box # 0
    BY <1>7, <2>1 DEF SubjectOf, TailsOf, Passes
  <2>3. /\ c.query = d.query /\ c.facets = d.facets /\ c.near = d.near
        /\ (IF c.box = 0 THEN -1 ELSE c.box) = (IF d.box = 0 THEN -1 ELSE d.box)
        /\ c.offset = d.offset /\ c.limit = d.limit
    BY <1>3, <1>7, <2>1 DEF KeyParts
  <2>4. c.box = d.box
    BY <2>2, <2>3
  <2>5. /\ Constructed(c) = Constructed(d) /\ HitsSort(c) = HitsSort(d)
        /\ \A excluded : Chosen(c, excluded) = Chosen(d, excluded)
    BY <2>3, <2>4, SameConstructed
  <2>6. HitsCore(c) = HitsCore(d)
    BY <2>3, <2>5 DEF HitsCore
  <2> QED
    BY <1>5, <1>7, <2>1, <2>5, <2>6 DEF SubjectOf, ExcludedOf, CoreOf
<1>8. CASE one[1] \in {"facet", "refData"}
  <2>1. other[1] \in {"facet", "refData"}
    BY <1>1, <1>4, <1>8 DEF KindOfKey
  <2>2. one[2] \in DOMAIN FacetLimit /\ other[2] \in DOMAIN FacetLimit
    BY <1>8, <2>1, CallKinds DEF Searches
  <2>3. k[6] = one[2] /\ k[6] = other[2]
        /\ k[7] = (IF one[1] = "facet" THEN FacetLimit[one[2]] ELSE -1)
        /\ k[7] = (IF other[1] = "facet" THEN FacetLimit[other[2]] ELSE -1)
    BY <1>3, <1>8, <2>1 DEF KeyParts
  <2>4. one[2] = other[2] /\ one[1] = other[1]
    <3>1. FacetLimit[one[2]] \in Nat /\ FacetLimit[other[2]] \in Nat
      BY <2>2, LimitsAreGiven
    <3> QED
      BY <1>8, <2>1, <2>3, <3>1
  <2>5. CASE one[1] = "facet"
    <3>1. c.query = d.query /\ c.box = d.box /\ c.facets = d.facets /\ c.near = d.near
      BY <1>3, <2>4, <2>5 DEF KeyParts
    <3>2. Constructed(c) = Constructed(d) /\ \A excluded : Chosen(c, excluded) = Chosen(d, excluded)
      BY <3>1, SameConstructed
    <3>3. \A f, limit : FacetCore(c, f, limit) = FacetCore(d, f, limit)
      BY <3>2 DEF FacetCore
    <3> QED
      BY <1>5, <2>4, <2>5, <3>2, <3>3 DEF SubjectOf, ExcludedOf, CoreOf
  <2>6. CASE one[1] = "refData"
    BY <1>5, <2>4, <2>6 DEF SubjectOf, ExcludedOf, CoreOf
  <2> QED
    BY <1>8, <2>5, <2>6
<1> QED
  BY <1>1, <1>6, <1>7, <1>8

(* The library's choice of an order is one.                                *)
LEMMA SetToSeqIsAnOrder == SetToSeq(Fields) \in SetToSeqs(Fields)
<1> DEFINE n == Cardinality(Fields)
<1>1. ExistsBijection(1..n, Fields)
  BY FieldsAssumption, FS_CardinalityType
<1>2. \E f \in [1..n -> Fields] : IsInjective(f)
  BY <1>1 DEF ExistsBijection, Bijection, Injection
<1>3. SetToSeq(Fields) \in [1..n -> Fields] /\ IsInjective(SetToSeq(Fields))
  BY <1>2 DEF SetToSeq
<1> QED
  BY <1>3 DEF SetToSeqs, IsInjective

(* What the handler accepts.                                               *)
LEMMA AcceptingIsLegal ==
    ASSUME NEW c \in Accepting
    PROVE  Legal(c) /\ c.near[1] \in {"none", "place", "center", "both"}
<1>1. PICK p \in Payloads : Valid(WithDefaults(p)) /\ c = WithDefaults(p)
  BY DEF Accepting
<1>2. /\ c.box = p.box /\ c.near = p.near
  <2>1. PICK Q, B, N, F, O, L : Payloads = [query : Q, box : B, near : N, facets : F,
                                            offset : O, limit : L]
    BY DEF Payloads
  <2>2. PICK limit : c = [p EXCEPT !.limit = limit]
    BY <1>1 DEF WithDefaults
  <2> QED
    BY <1>1, <2>1, <2>2
<1>3. p.box \in Nat \cup {-1}
  BY <1>1, BoxesAssumption DEF Payloads
<1>4. c.limit \in 0..100 /\ ~(c.box # -1 /\ c.near[1] # "none")
  <2>1. Valid(c)
    BY <1>1
  <2>2. c.limit \in 0..100
    BY <2>1 DEF Valid
  <2>3. ~(c.box # -1 /\ c.near[1] # "none")
    BY <2>1, Zenon DEF Valid
  <2> QED
    BY <2>2, <2>3
<1>5. p.near[1] \in {"none", "place", "center", "both"}
  BY <1>1 DEF Payloads
<1> QED
  BY <1>2, <1>3, <1>4, <1>5 DEF Legal, HasCenter

(* An entry of the table of keys.                                          *)
LEMMA EntryParts ==
    ASSUME NEW call, NEW c, NEW q, NEW entry, entry = Entry(call, c, q)
    PROVE  entry[1] = Kind(call) /\ entry[2] = Key(call, c)
<1>1. PICK kind, key, says : kind = Kind(call) /\ key = Key(call, c) /\ says = Says(q)
  OBVIOUS
<1>2. entry = <<kind, key, says>>
  BY <1>1 DEF Entry
<1> QED
  BY <1>1, <1>2

(* Any query of a search for an accepted request, in these terms.          *)
LEMMA AnySearch ==
    ASSUME Dialect = "postgres", NEW call \in Searches, NEW c \in Accepting,
           NEW order \in SetToSeqs(Fields), NEW q, q = QueryOf(call, c, order)
    PROVE  /\ Accepted(q) <=> Passes(SubjectOf(call, c), TailsOf(call))
           /\ Accepted(q) => Entry(call, c, q) = <<"search", Key(call, c), SaysOf(call, c)>>
<1>1. Legal(c)
  BY AcceptingIsLegal
<1>2. AsksFor(call, c, q)
  BY <1>1, QueryOfFacts
<1>3. Kind(call) = "search"
  BY DEF Kind, Searches
<1> QED
  BY <1>2, <1>3, QueryIs DEF Entry

(* The query of a find depends on its id only.                             *)
LEMMA AnyFind ==
    ASSUME NEW call \in Calls, call[1] = "related", NEW c, NEW order
    PROVE  QueryOf(call, c, order) = RelatedQuery(call[2]) /\ Key(call, c) = call[2]
           /\ Kind(call) = "find"
BY DEF QueryOf, Key, Kind

(* No two calls of a kind share a key and ask differently.                 *)
LEMMA EachKeyHasOneReading ==
    ASSUME Dialect = "postgres"
    PROVE  OneReadingPerKey
<1> SUFFICES ASSUME NEW one \in Keyed, NEW other \in Keyed, one[1] = other[1], one[2] = other[2]
             PROVE  one = other
  BY DEF OneReadingPerKey
<1>1. PICK a \in Calls \X Accepting : Accepted(AnyQuery(a)) /\ one = Entry(a[1], a[2], AnyQuery(a))
  BY DEF Keyed
<1>2. PICK b \in Calls \X Accepting : Accepted(AnyQuery(b)) /\ other = Entry(b[1], b[2], AnyQuery(b))
  BY DEF Keyed
<1>3. PICK p, c, r, d : p = a[1] /\ c = a[2] /\ r = b[1] /\ d = b[2]
  OBVIOUS
<1>4. p \in Calls /\ c \in Accepting /\ r \in Calls /\ d \in Accepting
  BY <1>3
<1>5. PICK order \in SetToSeqs(Fields) : order = SetToSeq(Fields)
  BY SetToSeqIsAnOrder
<1>6. AnyQuery(a) = QueryOf(p, c, order) /\ AnyQuery(b) = QueryOf(r, d, order)
  BY <1>3, <1>5 DEF AnyQuery
<1>7. one[1] = Kind(p) /\ one[2] = Key(p, c) /\ other[1] = Kind(r) /\ other[2] = Key(r, d)
  BY <1>1, <1>2, <1>3, EntryParts
<1>8. Kind(p) = Kind(r) /\ Key(p, c) = Key(r, d)
  BY <1>7
<1>9. p[1] = "related" <=> r[1] = "related"
  BY <1>8 DEF Kind
<1>10. CASE p[1] = "related"
  <2>1. AnyQuery(a) = RelatedQuery(p[2]) /\ Key(p, c) = p[2]
    BY <1>4, <1>6, <1>10, AnyFind
  <2>2. AnyQuery(b) = RelatedQuery(r[2]) /\ Key(r, d) = r[2]
    BY <1>4, <1>6, <1>9, <1>10, AnyFind
  <2>3. AnyQuery(a) = AnyQuery(b)
    BY <1>8, <2>1, <2>2
  <2> QED
    BY <1>1, <1>2, <1>3, <1>8, <2>3 DEF Entry
<1>11. CASE p[1] # "related"
  <2>1. p \in Searches /\ r \in Searches
    BY <1>4, <1>9, <1>11 DEF Searches
  <2>2. /\ Passes(SubjectOf(p, c), TailsOf(p))
        /\ one = <<"search", Key(p, c), SaysOf(p, c)>>
    BY <1>1, <1>3, <1>4, <1>6, <2>1, AnySearch
  <2>3. /\ Passes(SubjectOf(r, d), TailsOf(r))
        /\ other = <<"search", Key(r, d), SaysOf(r, d)>>
    BY <1>2, <1>3, <1>4, <1>6, <2>1, AnySearch
  <2>4. SaysOf(p, c) = SaysOf(r, d)
    BY <1>8, <2>1, <2>2, <2>3, SameKeySameSaying
  <2> QED
    BY <1>8, <2>2, <2>3, <2>4
<1> QED
  BY <1>10, <1>11

-----------------------------------------------------------------------------
(* The specification.                                                      *)

(* The request the repository sees is one that passed the checks, and what *)
(* has been asked are the queries of the calls for it, each goroutine with *)
(* its own order of the facets (a map's).                                  *)
CriteriaAreAccepted == stage \in {"accepted", "asked"} => criteria \in Accepting

AskedInSomeOrder ==
    stage = "asked" => \E one, other \in SetToSeqs(Fields) :
        asked = [call \in Calls |->
                    QueryOf(call, criteria, IF call[1] = "total" THEN one ELSE other)]

IInv == TypeOK /\ CriteriaAreAccepted /\ AskedInSomeOrder

(* A request whose place has got a centre is one that could have come with *)
(* both, and passes the same checks.                                       *)
LEMMA PlaceIsResolved ==
    ASSUME NEW p \in Payloads, Valid(WithDefaults(p)),
           NEW near \in IF p.near[1] = "place" THEN {"place", "both"} ELSE {p.near[1]},
           NEW c, c = [WithDefaults(p) EXCEPT !.near[1] = near]
    PROVE  c \in Accepting
<1>1. PICK Q, B, F, O, L :
          Payloads = [query : Q, box : B,
                      near : {"none"} \X {0} \cup {"place", "center", "both"} \X Distances,
                      facets : F, offset : O, limit : L]
  BY DEF Payloads
<1>2. PICK kind, km : p.near = <<kind, km>>
  BY <1>1
<1>3. PICK place : place = <<near, km>>
  OBVIOUS
<1>4. PICK r : r = [p EXCEPT !.near = place]
  OBVIOUS
<1>5. r \in Payloads
  <2>1. place \in {"none"} \X {0} \cup {"place", "center", "both"} \X Distances
    <3>1. \/ kind = "none" /\ km = 0 /\ near = kind
          \/ kind \in {"place", "center", "both"} /\ km \in Distances /\ near \in {kind, "both"}
      BY <1>1, <1>2
    <3> QED
      BY <1>3, <3>1
  <2> QED
    BY <1>1, <1>4, <2>1
<1>6. PICK limit : /\ WithDefaults(p) = [p EXCEPT !.limit = limit]
                   /\ limit = IF p.limit = 0 THEN 10 ELSE p.limit
  BY DEF WithDefaults
<1>7. PICK q : q = WithDefaults(p)
  OBVIOUS
<1>8. /\ q = [query |-> p.query, box |-> p.box, near |-> p.near, facets |-> p.facets,
              offset |-> p.offset, limit |-> limit]
  BY <1>1, <1>6, <1>7
<1>9. c = [query |-> p.query, box |-> p.box, near |-> place, facets |-> p.facets,
           offset |-> p.offset, limit |-> limit]
  <2>1. c = [q EXCEPT !.near = [q.near EXCEPT ![1] = near]]
    BY <1>7
  <2>2. [q.near EXCEPT ![1] = near] = place
    BY <1>2, <1>3, <1>8
  <2> QED
    BY <1>8, <2>1, <2>2
<1>10. c = WithDefaults(r)
  <2>1. r = [query |-> p.query, box |-> p.box, near |-> place, facets |-> p.facets,
             offset |-> p.offset, limit |-> p.limit]
    BY <1>1, <1>4
  <2>2. WithDefaults(r) = [r EXCEPT !.limit = IF r.limit = 0 THEN 10 ELSE r.limit]
    BY DEF WithDefaults
  <2>3. WithDefaults(r) = [r EXCEPT !.limit = limit]
    BY <1>6, <2>1, <2>2
  <2> QED
    BY <1>9, <2>1, <2>3
<1>11. Valid(c)
  <2>1. Valid(q)
    BY <1>7
  <2>2. c.limit = q.limit /\ c.offset = q.offset /\ c.box = q.box /\ c.facets = q.facets
    BY <1>8, <1>9
  <2>3. c.near[1] # "none" => q.near[1] # "none"
    BY <1>2, <1>3, <1>8, <1>9
  <2> QED
    BY <2>1, <2>2, <2>3, Zenon DEF Valid
<1> QED
  BY <1>5, <1>10, <1>11 DEF Accepting

(* The invariant holds at the start ...                                    *)
LEMMA InitInv == Init => IInv
<1> SUFFICES ASSUME Init PROVE IInv
  OBVIOUS
<1>1. payload \in Payloads /\ stage = "received" /\ criteria = Empty /\ asked = <<>>
  BY DEF Init
<1>2. criteria.limit \in 0..100 /\ criteria.near[1] \in {"none", "place", "center", "both"}
  BY <1>1, EmptyFacts
<1>3. DOMAIN asked # Calls
  <2>1. DOMAIN <<>> = {}
    OBVIOUS
  <2>2. <<"total">> \in Calls
    BY DEF Calls
  <2> QED
    BY <1>1, <2>1, <2>2
<1> QED
  BY <1>1, <1>2, <1>3 DEF IInv, TypeOK, CriteriaAreAccepted, AskedInSomeOrder

(* ... and every step preserves it.                                        *)
LEMMA NextInv == IInv /\ [Next]_vars => IInv'
<1> SUFFICES ASSUME IInv, [Next]_vars PROVE IInv'
  OBVIOUS
<1>0. /\ payload \in Payloads
      /\ criteria.limit \in 0..100 /\ criteria.near[1] \in {"none", "place", "center", "both"}
      /\ stage = "asked" <=> DOMAIN asked = Calls
  BY DEF IInv, TypeOK
<1>1. CASE Reject
  <2>1. /\ stage = "received" /\ stage' = "rejected"
        /\ payload' = payload /\ criteria' = criteria /\ asked' = asked
    BY <1>1 DEF Reject
  <2> QED
    BY <1>0, <2>1 DEF IInv, TypeOK, CriteriaAreAccepted, AskedInSomeOrder
<1>2. CASE Accept
  <2>1. /\ stage = "received" /\ stage' = "accepted" /\ payload' = payload /\ asked' = asked
        /\ Valid(WithDefaults(payload))
    BY <1>2 DEF Accept
  <2>2. criteria' \in Accepting
    <3>1. PICK near \in IF payload.near[1] = "place" THEN {"place", "both"} ELSE {payload.near[1]} :
              criteria' = [WithDefaults(payload) EXCEPT !.near[1] = near]
      BY <1>2 DEF Accept
    <3> QED
      BY <1>0, <2>1, <3>1, PlaceIsResolved
  <2>3. criteria'.limit \in 0..100 /\ criteria'.near[1] \in {"none", "place", "center", "both"}
    BY <2>2, AcceptingIsLegal DEF Legal
  <2> QED
    BY <1>0, <2>1, <2>2, <2>3 DEF IInv, TypeOK, CriteriaAreAccepted, AskedInSomeOrder
<1>3. CASE AskDatabase
  <2>1. stage = "accepted" /\ stage' = "asked" /\ payload' = payload /\ criteria' = criteria
    BY <1>3 DEF AskDatabase
  <2>2. PICK one, other \in SetToSeqs(Fields) :
            asked' = [call \in Calls |->
                QueryOf(call, criteria, IF call[1] = "total" THEN one ELSE other)]
    BY <1>3 DEF AskDatabase
  <2>3. AskedInSomeOrder'
    BY <2>1, <2>2 DEF AskedInSomeOrder
  <2>4. DOMAIN asked' = Calls
    BY <2>2
  <2> QED
    BY <1>0, <2>1, <2>3, <2>4 DEF IInv, TypeOK, CriteriaAreAccepted
<1>4. CASE UNCHANGED vars
  BY <1>4 DEF vars, IInv, TypeOK, CriteriaAreAccepted, AskedInSomeOrder
<1> QED
  BY <1>1, <1>2, <1>3, <1>4 DEF Next

(* The inductive invariant: the handler (api_routes.go) lets only checked  *)
(* requests through to the repository, and the goroutines of a search ask  *)
(* for that request.                                                       *)
THEOREM Invariance == Spec => []IInv
<1>1. Init => IInv
  BY InitInv
<1>2. IInv /\ [Next]_vars => IInv'
  BY NextInv
<1> QED
  BY <1>1, <1>2, PTL DEF Spec

(* The variables keep their types: the handler's checks bound the limit the*)
(* repository sees, and every call of a search sends a query.              *)
THEOREM TypeCorrect == Spec => []TypeOK
<1>1. IInv => TypeOK
  BY DEF IInv
<1> QED
  BY <1>1, Invariance, PTL

(* What has been asked.                                                    *)
LEMMA AskedFacts ==
    ASSUME IInv, stage = "asked", NEW call \in Calls
    PROVE  /\ Legal(criteria) /\ criteria \in Accepting
           /\ \E order \in SetToSeqs(Fields) : asked[call] = QueryOf(call, criteria, order)
<1>1. criteria \in Accepting /\ Legal(criteria)
  BY AcceptingIsLegal DEF IInv, CriteriaAreAccepted
<1>2. PICK one, other \in SetToSeqs(Fields) :
          asked = [k \in Calls |-> QueryOf(k, criteria, IF k[1] = "total" THEN one ELSE other)]
  BY DEF IInv, AskedInSomeOrder
<1>3. PICK order : order = IF call[1] = "total" THEN one ELSE other
  OBVIOUS
<1>4. asked[call] = QueryOf(call, criteria, order) /\ order \in SetToSeqs(Fields)
  BY <1>2, <1>3
<1> QED
  BY <1>1, <1>4

(* The queries of a search, in terms of the request ...                    *)
LEMMA SearchFacts ==
    ASSUME IInv, stage = "asked", NEW call \in Searches
    PROVE  AsksFor(call, criteria, asked[call])
BY AskedFacts, QueryOfFacts DEF Searches

(* ... and of the database.                                                *)
LEMMA SearchIs ==
    ASSUME Dialect = "postgres", IInv, stage = "asked", NEW call \in Searches
    PROVE  /\ Accepted(asked[call]) <=> Passes(SubjectOf(call, criteria), TailsOf(call))
           /\ SubjectOf(call, criteria).box \in {-1, 4} => ~Misread(asked[call])
           /\ Accepted(asked[call]) => Selects(asked[call]) = SaysOf(call, criteria)[1]
           /\ Runs(asked[call]) <=> /\ Passes(SubjectOf(call, criteria), TailsOf(call))
                                    /\ FineRequest(SubjectOf(call, criteria))
<1>1. PICK q : q = asked[call]
  OBVIOUS
<1>2. AsksFor(call, criteria, q)
  BY <1>1, SearchFacts
<1>3. Risky(q) = RiskyIn(SubjectOf(call, criteria))
  BY <1>2 DEF AsksFor, QueryFor
<1> QED
  BY <1>1, <1>2, <1>3, QueryIs, RunsIs

(* The query of FindByObjectID is always right and runs.                   *)
LEMMA FindIs ==
    ASSUME Dialect = "postgres", IInv, stage = "asked", NEW call \in Calls, call[1] = "related"
    PROVE  ~Misread(asked[call]) /\ Runs(asked[call])
<1>1. PICK q : q = asked[call]
  OBVIOUS
<1>2. q = RelatedQuery(call[2])
  BY <1>1, AskedFacts, AnyFind
<1>3. IsBuilder(q) /\ Lacks(q, 0) /\ Right(q) /\ Risky(q) = {}
  BY <1>2, RelatedFor
<1>4. Accepted(q) /\ ~Misread(q)
  BY <1>3, CompleteIsAccepted, RightIsNotMisread
<1>5. Runs(q)
  <2>1. Risky(q) = RiskyIn(Empty) /\ FineRequest(Empty)
    BY <1>3, EmptyFacts DEF FineRequest
  <2> QED
    BY <1>4, <2>1, RunsIs
<1> QED
  BY <1>1, <1>4, <1>5

(* The total is asked for, and accepted only if no coordinate lacks.       *)
LEMMA TotalIs ==
    /\ <<"total">> \in Searches
    /\ \A c : SubjectOf(<<"total">>, c) = c /\ TailsOf(<<"total">>) = 0
    /\ \A c : Passes(c, 0) <=> c.box \in {-1, 4}
<1>1. PICK call : call = <<"total">>
  OBVIOUS
<1>2. call \in Searches /\ call[1] = "total"
  BY <1>1 DEF Searches, Calls
<1> QED
  BY <1>1, <1>2 DEF SubjectOf, TailsOf, Passes

(* query_builder.go appends the clauses and their parameters to lists of   *)
(* their own, in the order of a map. Whatever is asked for: a query that   *)
(* PostgreSQL accepts has in every hole the value that belongs there, the  *)
(* literal "$1"s of SearchHits and FindByObjectID included; but for the    *)
(* hits and counts of a box of two or three coordinates, whose total is    *)
(* refused.                                                                *)
THEOREM ParametersAreBound ==
    ASSUME Dialect = "postgres"
    PROVE  Spec => []ParametersBind
<1>1. IInv => ParametersBind
  <2> SUFFICES ASSUME IInv, stage = "asked", NEW call \in Calls,
                      Accepted(asked[call]), Misread(asked[call])
               PROVE  /\ call[1] \in {"hits", "facet"} /\ criteria.box \in {2, 3}
                      /\ ~Accepted(asked[<<"total">>])
    BY DEF ParametersBind
  <2>1. call \in Searches
    BY FindIs DEF Searches
  <2>2. /\ Passes(SubjectOf(call, criteria), TailsOf(call))
        /\ SubjectOf(call, criteria).box \notin {-1, 4}
    BY <2>1, SearchIs
  <2>3. call[1] # "refData" /\ SubjectOf(call, criteria) = criteria
    BY <2>2, EmptyFacts DEF SubjectOf
  <2>4. TailsOf(call) \in {1, 2} /\ call[1] \in {"hits", "facet"}
    BY <2>2, <2>3 DEF Passes, TailsOf
  <2>5. criteria.box \in {2, 3}
    BY <2>2, <2>3, <2>4 DEF Passes
  <2>6. ~Accepted(asked[<<"total">>])
    BY <2>5, TotalIs, SearchIs
  <2> QED
    BY <2>4, <2>5, <2>6
<1> QED
  BY <1>1, Invariance, PTL

(* Of the requests the handler accepts, PostgreSQL runs every part when the*)
(* box has four coordinates or there is none, the phrase has neither       *)
(* operators nor empty words, and the metres of a distance around a centre *)
(* do not wrap to less than 0. Of any other, it runs all parts or fails the*)
(* total. RefData and FindByObjectID do not fail.                          *)
THEOREM ProperRequestsAreRun ==
    ASSUME Dialect = "postgres"
    PROVE  Spec => []ProperRequestsRun
<1>1. IInv => ProperRequestsRun
  <2> SUFFICES ASSUME IInv, stage = "asked", NEW call \in Calls, call[1] # "related",
                      Proper(criteria) \/ Runs(asked[<<"total">>]) \/ call[1] = "refData"
               PROVE  Runs(asked[call])
    BY FindIs DEF ProperRequestsRun
  <2>1. call \in Searches
    BY DEF Searches
  <2>2. CASE call[1] = "refData"
    <3>1. SubjectOf(call, criteria) = Empty /\ FineRequest(Empty)
      BY <2>2, EmptyFacts DEF SubjectOf, FineRequest
    <3>2. Passes(Empty, TailsOf(call))
      BY EmptyFacts DEF Passes
    <3> QED
      BY <2>1, <3>1, <3>2, SearchIs
  <2>3. CASE call[1] # "refData"
    <3>1. criteria.box \in {-1, 4} /\ FineRequest(criteria)
      <4>1. CASE Proper(criteria)
        BY <4>1, ProperIsFine DEF Proper
      <4>2. CASE Runs(asked[<<"total">>])
        BY <4>2, TotalIs, SearchIs
      <4> QED
        BY <2>3, <4>1, <4>2
    <3>2. SubjectOf(call, criteria) = criteria /\ Passes(criteria, TailsOf(call))
      BY <2>3, <3>1 DEF SubjectOf, Passes
    <3> QED
      BY <2>1, <3>1, <3>2, SearchIs
  <2> QED
    BY <2>2, <2>3
<1> QED
  BY <1>1, Invariance, PTL

(* CountAll and SearchHits (postgres.go) build their queries apart from    *)
(* each other; the total counts the rows the hits are a page of.           *)
THEOREM TotalIsOfTheHits ==
    ASSUME Dialect = "postgres"
    PROVE  Spec => []TotalCountsTheHits
<1>1. IInv => TotalCountsTheHits
  <2> SUFFICES ASSUME IInv, stage = "asked",
                      Accepted(asked[<<"total">>]), Accepted(asked[<<"hits">>])
               PROVE  Selects(asked[<<"total">>]) = Selects(asked[<<"hits">>])
    BY DEF TotalCountsTheHits
  <2>1. PICK total, hits, chosen :
            /\ total = <<"total">> /\ hits = <<"hits">>
            /\ chosen = {Choice(f, ArrayFields) : f \in Chosen(criteria, {})}
    OBVIOUS
  <2>2. total \in Searches /\ hits \in Searches /\ total[1] = "total" /\ hits[1] = "hits"
    BY <2>1 DEF Calls, Searches
  <2>3. /\ SubjectOf(total, criteria) = criteria /\ ExcludedOf(total) = {}
        /\ CoreOf(total, criteria) = Constructed(criteria)
        /\ SubjectOf(hits, criteria) = criteria /\ ExcludedOf(hits) = {}
        /\ CoreOf(hits, criteria) = HitsCore(criteria)
    BY <2>2 DEF SubjectOf, ExcludedOf, CoreOf
  <2>4. /\ Selects(asked[total]) = Selects(Constructed(criteria)) \cup chosen
        /\ Selects(asked[hits]) = Selects(HitsCore(criteria)) \cup chosen
    <3>1. \A call \in Searches : SaysOf(call, criteria)[1]
              = Selects(CoreOf(call, criteria)) \cup
                {Choice(f, ArrayFields) : f \in Chosen(SubjectOf(call, criteria), ExcludedOf(call))}
      BY DEF SaysOf
    <3>2. /\ Selects(asked[total]) = SaysOf(total, criteria)[1]
          /\ Selects(asked[hits]) = SaysOf(hits, criteria)[1]
      BY <2>1, <2>2, SearchIs
    <3> QED
      BY <2>1, <2>2, <2>3, <3>1, <3>2
  <2>5. criteria.box \in {-1, 4}
    BY TotalIs, SearchIs
  <2>6. Selects(HitsCore(criteria)) = Selects(Constructed(criteria))
    <3>1. criteria.box \in Nat \cup {-1} /\ criteria.limit \in Nat
      BY <2>2, AskedFacts DEF Searches, Legal
    <3>2. PICK order \in SetToSeqs(Fields) : TRUE
      BY SetToSeqIsAnOrder
    <3> QED
      BY <2>5, <3>1, <3>2, HitsFor
  <2> QED
    BY <2>1, <2>4, <2>6
<1> QED
  BY <1>1, Invariance, PTL

(* FACET_FIELDS: a choice of a facet narrows the counts of all facets but  *)
(* its own and those of the larger areas above it; in both dialects.       *)
THEOREM ChoicesKeepTheirFacet == Spec => []ChoicesLeaveTheirFacet
<1>1. IInv => ChoicesLeaveTheirFacet
  <2> SUFFICES ASSUME IInv, stage = "asked", NEW f \in Fields \cap DOMAIN FacetLimit,
                      NEW g \in Fields \cap DOMAIN FacetLimit
               PROVE  Narrows(asked[<<"facet", f>>], g)
                      <=> (criteria.facets[g] = "chosen" /\ f # g /\ ~Above(f, g))
    BY DEF ChoicesLeaveTheirFacet, Narrows
  <2>1. PICK call, limit, q : call = <<"facet", f>> /\ limit = FacetLimit[f] /\ q = asked[call]
    OBVIOUS
  <2>2. call[1] = "facet" /\ call[2] = f
    BY <2>1
  <2>3. call \in Calls
    BY <2>1 DEF Calls
  <2>4. PICK order \in SetToSeqs(Fields) : q = QueryOf(call, criteria, order)
    BY <2>1, <2>3, AskedFacts
  <2>5. q = FacetQuery(criteria, f, limit, Excluded(f), order)
    BY <2>1, <2>2, <2>4 DEF QueryOf
  <2>6. criteria.box \in Nat \cup {-1}
    BY <2>3, AskedFacts DEF Legal
  <2>7. /\ QueryFor(criteria, IF limit < 0 THEN 0 ELSE 1, Excluded(f),
                    FacetCore(criteria, f, limit), q)
        /\ Names(FacetCore(criteria, f, limit).where)
               = Names(Constructed(criteria).where) \cup {<<"notNull", f>>}
    BY <2>5, <2>6, FacetFor
  <2>8. Names(q.where) = Names(Constructed(criteria).where) \cup {<<"notNull", f>>}
               \cup {FacetName(h, ArrayFields) : h \in Chosen(criteria, Excluded(f))}
    BY <2>7 DEF QueryFor
  <2>9. Narrows(q, g) <=> (criteria.facets[g] = "chosen" /\ g \notin Excluded(f))
    BY <2>6, <2>8, NarrowedIs
  <2> QED
    BY <2>1, <2>9, ExcludedIsTheLadderBelow
<1> QED
  BY <1>1, Invariance, PTL

(* What cache.go keeps under a key answers every call that has this key: no*)
(* two accepted requests share a key of a search and say different things, *)
(* if PostgreSQL accepts both; and no two finds, whatever the ids.         *)
THEOREM KeysStandForOneReading ==
    ASSUME Dialect = "postgres"
    PROVE  Spec => []KeysDetermineQueries
<1>1. IInv => KeysDetermineQueries
  <2> SUFFICES ASSUME IInv, stage = "asked", NEW call \in Calls, Accepted(asked[call])
               PROVE  Entry(call, criteria, asked[call]) \in Keyed
    BY EachKeyHasOneReading DEF KeysDetermineQueries
  <2>1. PICK a, any : a = <<call, criteria>> /\ any = AnyQuery(a)
    OBVIOUS
  <2>2. a \in Calls \X Accepting /\ a[1] = call /\ a[2] = criteria
    BY <2>1, AskedFacts
  <2>3. PICK order \in SetToSeqs(Fields) : asked[call] = QueryOf(call, criteria, order)
    BY AskedFacts
  <2>4. PICK same \in SetToSeqs(Fields) : any = QueryOf(call, criteria, same)
    BY <2>1, <2>2, SetToSeqIsAnOrder DEF AnyQuery
  <2>5. Accepted(any) /\ Entry(call, criteria, asked[call]) = Entry(call, criteria, any)
    <3>1. CASE call[1] = "related"
      <4>1. asked[call] = any
        BY <2>3, <2>4, <3>1, AnyFind
      <4> QED
        BY <4>1
    <3>2. CASE call[1] # "related"
      <4>1. call \in Searches /\ criteria \in Accepting
        BY <2>2, <3>2 DEF Searches
      <4>2. /\ Passes(SubjectOf(call, criteria), TailsOf(call))
            /\ Entry(call, criteria, asked[call])
                   = <<"search", Key(call, criteria), SaysOf(call, criteria)>>
        BY <2>3, <4>1, AnySearch
      <4>3. /\ Accepted(any)
            /\ Entry(call, criteria, any)
                   = <<"search", Key(call, criteria), SaysOf(call, criteria)>>
        BY <2>4, <4>1, <4>2, AnySearch
      <4> QED
        BY <4>2, <4>3
    <3> QED
      BY <3>1, <3>2
  <2> QED
    BY <2>1, <2>2, <2>5 DEF Keyed
<1> QED
  BY <1>1, Invariance, PTL

-----------------------------------------------------------------------------
(* The distance.                                                           *)

(* A number in two halves.                                                 *)
Split(x, low, high) ==
    /\ low \in Int /\ high \in Int
    /\ low = x % 65536 /\ high = x \div 65536
    /\ 0 <= low /\ low < 65536 /\ x = 65536 * high + low

(* Every number is its two halves.                                         *)
LEMMA Halves ==
    ASSUME NEW x \in Int
    PROVE  Split(x, x % 65536, x \div 65536)
BY SMT DEF Split

(* Metres is the int32 product: the number of the int32 range that differs *)
(* from the 1000 * km by a multiple of 2^32.                               *)
THEOREM MetresAreTheProduct ==
    ASSUME NEW km \in Int
    PROVE  /\ -32768 * 65536 <= Metres(km) /\ Metres(km) < 32768 * 65536
           /\ \E k \in Int : Metres(km) = 1000 * km + k * (65536 * 65536)
<1>1. PICK a, b : Split(km, a, b)
  BY Halves, SMT
<1>2. PICK low : low = 1000 * a
  OBVIOUS
<1>3. PICK l, h : Split(low, l, h)
  BY <1>1, <1>2, Halves, SMT DEF Split
<1>4. PICK sum : sum = 1000 * b + h
  OBVIOUS
<1>5. PICK high, over : Split(sum, high, over)
  BY <1>1, <1>3, <1>4, Halves, SMT DEF Split
<1>6. Metres(km) = (IF high < 32768 THEN high ELSE high - 65536) * 65536 + l
  BY <1>1, <1>2, <1>3, <1>4, <1>5, SMT DEF Metres, Split
<1>7. 1000 * km = over * (65536 * 65536) + high * 65536 + l
  BY <1>1, <1>2, <1>3, <1>4, <1>5, SMT DEF Split
<1>8. CASE high < 32768
  <2>1. Metres(km) = 1000 * km + (-over) * (65536 * 65536) /\ -over \in Int
    BY <1>3, <1>5, <1>6, <1>7, <1>8, SMT DEF Split
  <2>2. 0 <= Metres(km) /\ Metres(km) < 32768 * 65536
    BY <1>3, <1>5, <1>6, <1>8, SMT DEF Split
  <2> QED
    BY <2>1, <2>2, SMT
<1>9. CASE ~(high < 32768)
  <2>1. Metres(km) = 1000 * km + (-over - 1) * (65536 * 65536) /\ -over - 1 \in Int
    BY <1>3, <1>5, <1>6, <1>7, <1>9, SMT DEF Split
  <2>2. -32768 * 65536 <= Metres(km) /\ Metres(km) < 0
    BY <1>3, <1>5, <1>6, <1>9, SMT DEF Split
  <2> QED
    BY <2>1, <2>2, SMT
<1> QED
  BY <1>8, <1>9

=============================================================================
