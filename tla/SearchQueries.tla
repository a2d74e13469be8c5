---------------------------- MODULE SearchQueries ---------------------------
(***************************************************************************)
(* From a search request to SQL: the checks of the handler                 *)
(* (src/routes/api_routes.go), the place made into coordinates, and the    *)
(* query builder (src/db/query_builder.go) as the three methods behind a   *)
(* search use it (src/repositories/postgres.go), each in a goroutine of    *)
(* its own.  A query is a list of clauses with numbered holes and a list   *)
(* of parameters; nothing in Go ties one to the other.  cache.go answers a *)
(* call with the result of another one that has the same key.              *)
(*                                                                         *)
(* Coordinates do not matter here, only which part of the request a        *)
(* parameter comes from; of texts, what PostgreSQL reads as an operator.   *)
(* A key is the list of what goes into its hash: two different lists are   *)
(* taken to have different hashes.                                         *)
(* XFault is X with a plausible mistake of the code in it.                 *)
(***************************************************************************)
EXTENDS Integers, Sequences, FiniteSets, SequencesExt

CONSTANTS
    Fields,     \* the facets requests use
    Dialect,    \* "postgres" or "sqlite"
    Boxes,      \* numbers of coordinates a bounding box may come with
    Limits,     \* limits requests ask for
    Phrases,    \* phrases to look for, each split at its single spaces
    Distances,  \* distanceKm of a place or centre
    Offsets,    \* offsets requests ask for
    ObjectIDs   \* ids clients ask FindByObjectID for: any, also another call's key

(* What there is in a word: ordinary text, a colon with weights, and what  *)
(* PostgreSQL takes for operators ("&" is & or |).  Two texts in a row have*)
(* a tab between them.  Quotes, backslashes and <-> are left out.          *)
Tokens == {"text", ":*", "&", "!", "(", ")"}

ASSUME FieldsAssumption == IsFiniteSet(Fields)
ASSUME BoxesAssumption == Boxes \subseteq Nat
ASSUME PhrasesAssumption ==
    \A phrase \in Phrases : phrase \in Seq(Seq(Tokens)) /\ phrase # <<<<>>>>

VARIABLES
    payload,   \* the request as it came
    stage,     \* "received", "rejected", "accepted", "asked"
    criteria,  \* the request as the repository sees it
    asked      \* the queries sent to the database, by the call they serve

vars == <<payload, stage, criteria, asked>>

-----------------------------------------------------------------------------
(* FACET_FIELDS: most values shown, and whose choices do not narrow them.  *)
FacetLimit == [country |-> 10, state |-> 20, region |-> 20, county |-> 100,
    district |-> 20, activities |-> 50, facilities |-> 50, points_of_interest |-> 50,
    route_type |-> 10, difficulty |-> 10, terrain |-> 50, estimated_duration |-> 10]

ExcludedFault(f) ==
    CASE f = "country" -> {"country", "state", "region", "county"}
      [] f = "state" -> {"state", "region", "county", "district"}
      [] f = "region" -> {"region", "county", "district"}
      [] f = "county" -> {"county", "district"}
      [] OTHER -> {f}
Excluded(f) ==
    CASE f = "country" -> {"country", "state", "region", "county", "district"}
      [] f = "state" -> {"state", "region", "county", "district"}
      [] f = "region" -> {"region", "county", "district"}
      [] f = "county" -> {"county", "district"}
      [] OTHER -> {f}

ArrayFields == {"activities", "terrain", "facilities", "points_of_interest"}

(* A request: the words of a phrase; the coordinates of the box (-1: none);*)
(* a place or centre and the distance from it; the values chosen of each   *)
(* facet (nil, [], or some).                                               *)
Payloads == [query : Phrases, box : Boxes \cup {-1},
             near : {"none"} \X {0} \cup {"place", "center", "both"} \X Distances,
             facets : [Fields -> {"absent", "empty", "chosen"}],
             offset : Offsets, limit : Limits]

Empty == [query |-> <<>>, box |-> -1, near |-> <<"none", 0>>,
          facets |-> [f \in Fields |-> "absent"], offset |-> 0, limit |-> 0]

HasCenter(c) == c.near[1] \in {"center", "both"}

-----------------------------------------------------------------------------
(* The builder.  A clause has holes, each with the number of its parameter *)
(* and the type SQL gives it there; "means" is what belongs in the hole.   *)
NewBuilder == [where |-> <<>>, tail |-> <<>>, sort |-> <<>>, params |-> <<>>]

Clause(b, name, type, means) ==
    [name |-> name,
     holes |-> [i \in DOMAIN means |->
                   [number |-> Len(b.params) + i, type |-> type, means |-> means[i]]]]

WithWhereFault(b, name, type, means, values) ==
    [b EXCEPT !.where = Append(@, Clause(b, name, type, means)), !.params = values \o @]
WithWhere(b, name, type, means, values) ==
    [b EXCEPT !.where = Append(@, Clause(b, name, type, means)), !.params = @ \o values]
WithTail(b, name, value) ==
    [b EXCEPT !.tail = Append(@, Clause(b, <<name>>, "int", <<value>>)), !.params = Append(@, value)]

(* The constructor of the builder: phrase, then box or else circle.        *)
BoxParams(n) == [i \in 1..n |-> <<"box", i>>]
CircleParams(c) == <<<<"lon">>, <<"lat">>, <<"distance", c.near[2]>>>>

(* BuildPrefixQuery: word:* & word:* ... in PostgreSQL, the words as they  *)
(* came.                                                                   *)
PrefixQuery(c) == <<"query", [i \in DOMAIN c.query |-> Append(c.query[i], ":*")]>>

WithPhrase(b, c) ==
    IF c.query # <<>>
    THEN WithWhere(b, <<"phrase">>, "text", <<PrefixQuery(c)>>, <<PrefixQuery(c)>>)
    ELSE b
WithArea(b, c) ==
    IF c.box # -1 THEN WithWhere(b, <<"within">>, "float", BoxParams(4), BoxParams(c.box))
    ELSE IF HasCenter(c) THEN WithWhere(b, <<"near">>, "float", CircleParams(c), CircleParams(c))
    ELSE b
ConstructedFault(c) == WithPhrase(WithArea(NewBuilder, c), c)
Constructed(c) == WithArea(WithPhrase(NewBuilder, c), c)

(* Build goes through the facets in the order of a map, any: one that is   *)
(* excluded or has no values is passed over, the others add a clause each. *)
WithFacet(b, f, arrays) ==
    WithWhere(b, <<IF f \in arrays THEN "overlap" ELSE "any", f>>, "text[]",
              <<<<"facet", f>>>>, <<<<"facet", f>>>>)
Used(c, excluded, f) == f \notin excluded /\ c.facets[f] = "chosen"
Built(b, c, excluded, arrays, order) ==
    LET after[i \in 0..Len(order)] ==
            IF i = 0 THEN b
            ELSE IF Used(c, excluded, order[i]) THEN WithFacet(after[i - 1], order[i], arrays)
            ELSE after[i - 1]
    IN  after[Len(order)]

WithLimit(b, limit) == IF limit < 0 THEN b ELSE WithTail(b, "limit", <<"limit", limit>>)

-----------------------------------------------------------------------------
(* The calls of the repository and the query each sends.                   *)
TotalQueryFault(c, order) == Built(Constructed(c), c, {}, {}, order)
TotalQuery(c, order) == Built(Constructed(c), c, {}, ArrayFields, order)

FacetQuery(c, f, limit, excluded, order) ==
    LET selected == [Constructed(c) EXCEPT
                        !.where = Append(@, [name |-> <<"notNull", f>>, holes |-> <<>>])]
    IN  Built(WithLimit(selected, limit), c, excluded, ArrayFields, order)

(* With a phrase and no centre, hits are ranked, in PostgreSQL by          *)
(* ts_rank_cd on "$1".                                                     *)
HitsQuery(c, order) ==
    LET hole == [number |-> 1, type |-> "text", means |-> PrefixQuery(c)]
        rank == [name |-> <<"rank">>,
                 holes |-> IF Dialect = "postgres" THEN <<hole>> ELSE <<>>]
        sorted == [Constructed(c) EXCEPT !.sort =
                      CASE HasCenter(c) -> <<[name |-> <<"distance">>, holes |-> <<>>]>>
                        [] c.query # <<>> /\ ~HasCenter(c) -> <<rank>>
                        [] OTHER -> <<[name |-> <<"created">>, holes |-> <<>>]>>]
    IN  Built(WithLimit(WithTail(sorted, "offset", <<"offset", c.offset>>), c.limit),
              c, {}, ArrayFields, order)

(* The nearby routes of FindByObjectID: a literal "$1" and WithParam.      *)
RelatedQuery(id) ==
    LET hole == [number |-> 1, type |-> "text", means |-> <<"objectID", id>>]
    IN  Built([Constructed(Empty) EXCEPT
                  !.where = Append(@, [name |-> <<"of">>, holes |-> <<hole>>]),
                  !.params = Append(@, <<"objectID", id>>)], Empty, {}, {}, <<>>)

Calls == {<<"total">>, <<"hits">>} \cup {"related"} \X ObjectIDs
             \cup {"facet", "refData"} \X (Fields \cap DOMAIN FacetLimit)

QueryOf(call, c, order) ==
    CASE call[1] = "total" -> TotalQuery(c, order)
      [] call[1] = "hits" -> HitsQuery(c, order)
      [] call[1] = "facet" -> FacetQuery(c, call[2], FacetLimit[call[2]], Excluded(call[2]), order)
      [] call[1] = "refData" -> FacetQuery(Empty, call[2], -1, {}, order)
      [] OTHER -> RelatedQuery(call[2])

(* The keys of cache.go.  SearchHits hashes the whole request, in which    *)
(* encoding/json leaves out an empty box like a missing one; FindByObjectID*)
(* hashes nothing: its key is the id as the client gave it.                *)
KeyFault(call, c) ==
    CASE call[1] = "total" -> <<"criteria", c.query, c.box, c.facets, c.near>>
      [] call[1] = "facet" -> <<"facet", c.query, c.box, c.facets, c.near, call[2]>>
      [] call[1] = "refData" -> <<"facet", <<>>, -1, Empty.facets, Empty.near, call[2]>>
      [] call[1] = "hits" -> <<"hits", c.query, IF c.box = 0 THEN -1 ELSE c.box,
                               c.facets, c.near, c.offset, c.limit>>
      [] OTHER -> call[2]
Key(call, c) ==
    CASE call[1] = "total" -> <<"criteria", c.query, c.box, c.facets, c.near>>
      [] call[1] = "facet" -> <<"facet", c.query, c.box, c.facets, c.near, call[2], FacetLimit[call[2]]>>
      [] call[1] = "refData" -> <<"facet", <<>>, -1, Empty.facets, Empty.near, call[2], -1>>
      [] call[1] = "hits" -> <<"hits", c.query, IF c.box = 0 THEN -1 ELSE c.box,
                               c.facets, c.near, c.offset, c.limit>>
      [] OTHER -> call[2]

-----------------------------------------------------------------------------
(* What the database makes of a query: which parameter each hole in its    *)
(* text is bound to, whether it can be run and what it says.  PostgreSQL   *)
(* goes by the number in the hole, SQLite gives every "?" the next one.    *)
Text(b) == b.where \o b.sort \o b.tail
Holes(b) == UNION {ToSet(clause.holes) : clause \in ToSet(Text(b))}

Bindings(b) ==
    IF Dialect = "postgres" THEN {<<hole.number, hole>> : hole \in Holes(b)}
    ELSE LET holes == FlattenSeq([i \in DOMAIN Text(b) |-> Text(b)[i].holes])
         IN  {<<i, holes[i]>> : i \in DOMAIN holes}

(* PostgreSQL wants each parameter given and used, with a type every hole  *)
(* takes.  WHERE comes first and decides; OFFSET and LIMIT then cast, as an*)
(* assignment does, and so take a float, but no text and no array.         *)
Fits(type, other) == type = other \/ {type, other} = {"float", "int"}
Accepted(b) ==
    /\ {binding[1] : binding \in Bindings(b)} = DOMAIN b.params
    /\ Dialect = "postgres" => \A one, other \in Holes(b) :
           one.number = other.number => Fits(one.type, other.type)

(* to_tsquery, of words joined by "&": what may follow what, an operator   *)
(* wanting an operand after it; and each parenthesis closes an open one.   *)
(* An empty word leaves ":*" where an operand is wanted.                   *)
Follows(token) ==
    CASE token \in {"&", "!", "("} -> {"text", "!", "("}
      [] token = "text" -> {":*", "&", ")"}
      [] OTHER -> {"&", ")"}
Places(words, token) ==
    UNION {{<<i, k>> : k \in {j \in DOMAIN words[i] : words[i][j] = token}} : i \in DOMAIN words}
UpTo(places, p) == {q \in places : q[1] < p[1] \/ (q[1] = p[1] /\ q[2] <= p[2])}
Balanced(words) ==
    /\ Cardinality(Places(words, "(")) = Cardinality(Places(words, ")"))
    /\ \A p \in Places(words, ")") :
           Cardinality(UpTo(Places(words, ")"), p)) <= Cardinality(UpTo(Places(words, "("), p))
Parses(words) ==
    /\ \A i \in DOMAIN words : \A k \in DOMAIN words[i] :
           words[i][k] \in Follows(IF k = 1 THEN "&" ELSE words[i][k - 1])
    /\ Balanced(words)

(* DistanceKm * 1000, an int32.  The halves keep the product in the range  *)
(* of the model's own integers.                                            *)
Metres(km) ==
    LET low == 1000 * (km % 65536)
        high == (1000 * (km \div 65536) + low \div 65536) % 65536
    IN  (IF high < 32768 THEN high ELSE high - 65536) * 65536 + (low % 65536)

(* Of what it accepts, PostgreSQL fails to evaluate a text query that does *)
(* not parse, and ST_DWithin with a negative distance.                     *)
Runs(b) ==
    /\ Accepted(b)
    /\ \A param \in ToSet(b.params) :
           /\ param[1] = "query" => Parses(param[2])
           /\ param[1] = "distance" => Metres(param[2]) >= 0

Bound(b, hole) == b.params[hole.number]
Reading(clause, b) == <<clause.name, [i \in DOMAIN clause.holes |-> Bound(b, clause.holes[i])]>>
Selects(b) == {Reading(clause, b) : clause \in ToSet(b.where)}
Says(b) == <<Selects(b), [i \in DOMAIN b.sort |-> Reading(b.sort[i], b)],
             [i \in DOMAIN b.tail |-> Reading(b.tail[i], b)]>>

-----------------------------------------------------------------------------
Init ==
    /\ payload \in Payloads
    /\ stage = "received"
    /\ criteria = Empty
    /\ asked = <<>>

(* The handler: a limit of 0 is 10; requests it does not understand are    *)
(* answered with 400.                                                      *)
MaxOffset == 100000
WithDefaults(p) == [p EXCEPT !.limit = IF @ = 0 THEN 10 ELSE @]
ValidFault(p) ==
    /\ p.limit \in 0..101
    /\ p.offset \in 0..MaxOffset
    /\ ~(p.box # -1 /\ p.near[1] # "none")
    /\ \A f \in Fields : p.facets[f] # "absent" => f \in DOMAIN FacetLimit
Valid(p) ==
    /\ p.limit \in 0..100
    /\ p.offset \in 0..MaxOffset
    /\ ~(p.box # -1 /\ p.near[1] # "none")
    /\ \A f \in Fields : p.facets[f] # "absent" => f \in DOMAIN FacetLimit

Reject ==
    /\ stage = "received"
    /\ ~Valid(WithDefaults(payload))
    /\ stage' = "rejected"
    /\ UNCHANGED <<payload, criteria, asked>>

(* A place without a centre is looked up; it may be unknown, and the       *)
(* search then has no centre.                                              *)
Accept ==
    /\ stage = "received"
    /\ Valid(WithDefaults(payload))
    /\ stage' = "accepted"
    /\ \E near \in IF payload.near[1] = "place" THEN {"place", "both"} ELSE {payload.near[1]} :
           criteria' = [WithDefaults(payload) EXCEPT !.near[1] = near]
    /\ UNCHANGED <<payload, asked>>

(* The goroutines build their queries, each in its own order of facets.    *)
AskDatabase ==
    /\ stage = "accepted"
    /\ stage' = "asked"
    /\ \E one, other \in SetToSeqs(Fields) :
           asked' = [call \in Calls |->
               QueryOf(call, criteria, IF call[1] = "total" THEN one ELSE other)]
    /\ UNCHANGED <<payload, criteria>>

Next == Reject \/ Accept \/ AskDatabase

Spec == Init /\ [][Next]_vars

-----------------------------------------------------------------------------
TypeOK ==
    /\ payload \in Payloads
    /\ stage \in {"received", "rejected", "accepted", "asked"}
    /\ criteria.limit \in 0..100 /\ criteria.near[1] \in {"none", "place", "center", "both"}
    /\ stage = "asked" <=> DOMAIN asked = Calls

(* A query the database accepts has in every hole the value that belongs  *)
(* there, whatever was asked for and in whatever order the facets come, the*)
(* literal "$1"s included; with one exception.  A box of two or three      *)
(* coordinates makes numbers and parameters slide, so that the hits (or the*)
(* counts of a facet) are taken from a box with an offset or a limit for a *)
(* corner.  Then the total of that search is refused, and with it the      *)
(* answer: no misread part is shown.                                       *)
Misread(b) == \E binding \in Bindings(b) : b.params[binding[1]] # binding[2].means
ParametersBind ==
    stage = "asked" => \A call \in Calls :
        (Accepted(asked[call]) /\ Misread(asked[call])) =>
            /\ call[1] \in {"hits", "facet"} /\ criteria.box \in {2, 3}
            /\ ~Accepted(asked[<<"total">>])

(* The handler lets pass what the database cannot run: a box that has not  *)
(* four coordinates, a phrase with operators in it or two spaces together, *)
(* and, around a centre, a distance whose metres wrap to less than 0 (those*)
(* of a larger one may wrap further, to a small circle).  Nothing else     *)
(* makes a part of a search fail.  The total decides: where it runs, every *)
(* part does.  RefData and FindByObjectID never fail.                      *)
Plain(phrase) == \A i \in DOMAIN phrase : phrase[i] = <<"text">>
Proper(c) ==
    /\ c.box \in {-1, 4}
    /\ Plain(c.query)
    /\ HasCenter(c) => Metres(c.near[2]) >= 0
ProperRequestsRun ==
    stage = "asked" => \A call \in Calls :
        (Proper(criteria) \/ Runs(asked[<<"total">>]) \/ call[1] \in {"refData", "related"}) =>
            Runs(asked[call])

(* The total is of the routes the hits are a page of: the two goroutines   *)
(* select the same rows.                                                   *)
TotalCountsTheHits ==
    (stage = "asked" /\ Accepted(asked[<<"total">>]) /\ Accepted(asked[<<"hits">>])) =>
        Selects(asked[<<"total">>]) = Selects(asked[<<"hits">>])

(* Choosing a value of a facet leaves the counts of the facet itself, and  *)
(* of the larger areas above it, as they were, so that the user can choose *)
(* again; every other choice narrows them.                                 *)
Ladder == <<"country", "state", "region", "county", "district">>
Above(f, g) ==
    \E i, j \in DOMAIN Ladder : i <= j /\ Ladder[i] = f /\ Ladder[j] = g
ChoicesLeaveTheirFacet ==
    (stage = "asked" /\ criteria.box \in {-1, 4}) => \A f, g \in Fields \cap DOMAIN FacetLimit :
        LET narrowed == \E clause \in ToSet(asked[<<"facet", f>>].where) :
                            clause.name \in {<<"overlap", g>>, <<"any", g>>}
        IN  narrowed <=> (criteria.facets[g] = "chosen" /\ f # g /\ ~Above(f, g))

(* Two calls with one cache key would have sent queries that say the same, *)
(* so that either's result answers both: a key stands for one reading over *)
(* all requests, and what a request asks is that reading in any order of   *)
(* its facets.  A client may have FindByObjectID use the key of a search:  *)
(* finds are compared with finds, searches with searches.                  *)
Kind(call) == IF call[1] = "related" THEN "find" ELSE "search"
Accepting == {WithDefaults(p) : p \in {q \in Payloads : Valid(WithDefaults(q))}}
AnyQuery(asking) == QueryOf(asking[1], asking[2], SetToSeq(Fields))
Entry(call, c, query) == <<Kind(call), Key(call, c), Says(query)>>
Keyed == {Entry(asking[1], asking[2], AnyQuery(asking)) :
              asking \in {a \in Calls \X Accepting : Accepted(AnyQuery(a))}}
OneReadingPerKey ==
    \A one, other \in Keyed : (one[1] = other[1] /\ one[2] = other[2]) => one = other
KeysDetermineQueries ==
    stage = "asked" =>
        /\ OneReadingPerKey
        /\ \A call \in Calls : Accepted(asked[call]) =>
               Entry(call, criteria, asked[call]) \in Keyed

=============================================================================
