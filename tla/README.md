# A verification project for gps-routes-api

gps-routes-api serves walking routes over HTTP. A search looks up the routes near a place, in a box or
with a phrase, and returns a page of hits, their total number and, for twelve facets, how many routes
have each value. The routes are in PostgreSQL; a batch job imports them from files, and a tool copies
them to SQLite. This directory has TLA+ models of the parts in which something can go wrong between two
steps, the TLC runs that check them on small instances, and proofs, checked by TLAPS, for all instances.

Paths below are relative to `src/`. `PROJECT.json` maps every definition of a model to the lines it
stands for, and lists the runs, the hazards and the theorems.

## 1. The system

| Part | Source | State | Operations | Model |
|---|---|---|---|---|
| HTTP handlers | `routes/api_routes.go` | none | `FetchRecord`, `Search`, `RefData` | `SearchQueries` has the checks and defaults of `Search` |
| Scatter-gather service | `services/service_impl.go` | per request: context, channels, goroutines | `Search`, `RefData`, `GetRouteByID` | `RoutesService` |
| Facet table | `services/facets.go` | constant | limits and exclusions of facets | `SearchQueries` |
| Place lookup | `services/osdatahub/` | a cache of answers (8 h), running fetches | `Find` | `CachedSearch`; a step of `RoutesService` and of `SearchQueries` |
| Read-through cache | `repositories/cache.go` | entries (90 s), running calls | the five methods of `DbRepository` | `CachedRepository`, against `StaleReads` |
| Route storage | `repositories/postgres.go` | four tables | `Store`, `FindByObjectID`, `CountAll`, `FacetCounts`, `SearchHits` | `RouteStore` (the first two), against `AtomicStore`; `SearchQueries` (the queries of the others) |
| Query builder | `db/query_builder.go`, `db/dialect.go` | clauses and parameters of one query | `With...`, `Build` | `SearchQueries` |
| Connection pool | `db/postgres_connect.go` | 25 connections | acquire, release | `RouteStore` |
| import-data | `cmds/import_data.go` | the file it is at | one run | `RouteStore`, against `AtomicStore` |
| PostgreSQL to SQLite | `cmds/migrate_postgres_to_sqlite.go` | the SQLite file | one run | `SqliteMigration` |
| Schema migrations | `cmds/run_migrations.go`, `db/migrations/` | the tables, version and dirty flag, a lock | up, down | `SchemaMigration` |
| Deployment | `docker-compose.yml`, `main.go` | which containers run | up, restarts | `Deployment` |
| Server, middleware | `cmds/http_api_server.go`, `middlewares/` | whether it serves | start, exit; order of handlers, errors to 500 or 404, API key | start and exit in `Deployment` |
| Others | `main.go`, `cmds/sitemap.go`, `cmds/ping_database.go`, `archive/`, `models/`, `poc/` | none | flags, one query, data types, scripts | not modelled |

How they interact. A request runs on a goroutine of its own (net/http). `Search` starts one goroutine per
part of the answer, fourteen in all; each calls the one `CachedDbRepository` of the process, which either
answers from memory, waits for a query somebody else has started for the same key, or calls the
repository; that takes a connection of the pool. All calls of a search carry the search's context, which
ends after ten seconds (three for `GetRouteByID`) or when the search returns. import-data is another
process, and may be started again while the API serves; the cache learns nothing of what it commits. A
search by place asks the names service first, through a cache of the same kind that is kept for eight
hours. docker-compose runs the migration, the import and the server one after the other; each of them is
a command that can be given by hand as well.

What is hard here is in `PROJECT.json` under `hazards`, each at its line. In short:

- *Sharing.* Requests that know nothing of each other meet in cache entries and in running queries. The
  context of one decides over the query of another; an early return cancels.
- *Silence.* `rows.Err()` is not asked after the loops over rows: a connection lost half way gives a short
  list and no error, and the list is cached.
- *Staleness.* Entries expire, they are never invalidated.
- *Buffers.* A goroutine whose collector is gone can end only if its channel has room.
- *Many statements, many readers.* A route lives in four tables. `Store` writes them in one batch,
  `FindByObjectID` reads them with four queries.
- *Positions.* Placeholders get their numbers when a clause is made, parameters are appended in other
  places, facets come in the random order of a map, and two pieces of SQL say `$1` and mean it.
- *Keys.* What goes into a cache key is listed by hand, apart from the query.
- *Reruns.* The migration, the import and the SQLite tool are started again after they have died in the
  middle, when the session of the dead one may still be at work.
- *Order.* The server looks at neither schema nor data; only the order of containers makes them ready.

## 2. The modules

A definition `XFault`, written before `X`, is `X` with a mistake one could make in that code. No behaviour
uses it. Put in the place of `X` it makes a property of a run fail (`mutants` in `PROJECT.json`): this is
how we know that the properties watch what they are meant to watch.

**`CachedRepository`**: `repositories/cache.go` with what `memoize.Call` does inside: look in go-cache,
else enter a singleflight group, lead or wait, query, store the entry, leave the group, return. One action
for each of these; between any two of them other callers, commits (`Store`), cancellations (`Cancel`),
go-cache's janitor (`Purge`) and the clock (`Tick`) may step in. The data of the database are a number, how
many commits it has seen; a result has the number its query saw, and `cutAt` when its rows ended early
(`CutRows`). `ListKeys` are the keys of methods with a loop over rows; `CountAll` uses `QueryRow`, which
reports what went wrong. go-cache and singleflight are libraries and are modelled as `cache.go` uses
them: an entry is a hit until its expiration has passed; followers get the leader's result or error; the
call leaves the group only after the entry is stored.

**`StaleReads`**: what callers may count on, with no cache in it: ask, be answered at one instant, return.
An answer was still current `MaxStaleness` before the question was asked and is no older than what had
been returned, for the same key, by then.

**`RoutesService`**: `services/service_impl.go`. `main` is the request's goroutine, `task` has one for each
part. A channel is the set of the parts whose message is in it; `Send` waits when it is full, the
capacities are the code's. `Search` with and without `SkipFacets`, `RefData` and `GetRouteByID` are the
four values of `kind`. A call of the repository is `Enter` and `Exit`, and `Exit` may give a value, an
error, or a value when the context is long done.

**`CachedSearch`**: both together, as `http_api_server.go` wires them, with a second instance of
`CachedRepository` for the cache of places (`Names`): `names_api.go` goes through the same `memoize.Call`.
The goroutine of part p of request r is the caller `<<r, p>>` of the repository's cache; the request
itself is a caller of the cache of places, with the one key all searches ask for. What the names service
says is an *edition*: 0 knows no such place, each later one has the place somewhere else. The centre a
search got (`centre`) is part of the keys its goroutines ask for, so searches around different centres do
not meet. A service step and the cache steps it causes are one action: `Search` returns and its deferred
cancel reaches the queries its goroutines lead. An import may commit at any moment (`ImportStores`, at
most `MaxVersion` times), so the parts of one answer may be of different states of the data.

**`RouteStore`**: `Store` and `FindByObjectID`. A document (run and file) stands for all its rows. `Store`
sends a batch, one transaction of four statements (the upsert, and a DELETE with its INSERTs for each
of three tables), each of which sees what was committed before it; the upsert of a route waits for
transactions that hold its row. `import-data` stores file after file, stops at the first error, or dies,
and what it sent may be committed all the same. A reader takes a connection for each of its queries,
and each may be cut short. The foreign keys between the tables add no waiting to this order of
statements and are left out, as is the join that turns rows of `nearby` into summaries of other routes.

**`AtomicStore`**: what imports and readers may believe of all this: a route is one register. A run of
import-data puts its files in order, each at one instant and at most once, and completes when it has put
them all; a reader samples the register once for each part of its answer. There are no statements,
transactions or connections. `RouteStore` implements it (`StoreIsARegister`) with `routes` as the register,
the documents in the logs as what has been put, and the queries answered so far as the samples.

**`SearchQueries`**: a request, the handler's checks, the place that becomes a centre or does not, and the
queries of `CountAll`, `SearchHits`, `FacetCounts` and the nearby routes of `FindByObjectID`, as the
builder makes them: a list of clauses with numbered holes and a list of parameters. What belongs in a
hole is recorded where the code writes the clause; what is bound to it (`Bindings`) follows from the
numbers (with PostgreSQL) or the positions (with SQLite). `Built` is the loop of `Build` over an order of the
facets, any, as a recursive function. Cache keys are the list of what is hashed; that of `FindByObjectID` is
the id as the client gave it, which may be any text, also another call's key (`ObjectIDs`). `Accepted` says
which queries PostgreSQL prepares: WHERE gives a parameter its type, and OFFSET and LIMIT cast a float as an
assignment does. `Runs` says which of these it can evaluate. A phrase is the list of its words between single
spaces, a word a list of tokens: ordinary text, `:*`, and what `to_tsquery` takes for operators and parentheses;
`Parses` is the grammar it wants. `Metres` multiplies in 32 bits, as the code does. The text of SQL, quotes
and backslashes in a phrase, truncation of texts and the coordinates are left out.

**`SqliteMigration`**: one run of the tool after or beside another, on one file: count the routes,
create the schema, copy four tables row by row, compare two counts. Two facts of the code decide most of
it: statements are prepared on the `sql.DB` and not on the transaction, so each row is committed at once;
and a failure is fatal for `routes` and only logged for the other tables.

**`SchemaMigration`**: the command `migration` and golang-migrate under it. A run connects, takes the
advisory lock, reads the version, and, if there is something to do, marks the target version dirty, runs
the script and marks the version clean: three statements between which the process may die. Its session
lives on until it notices, and may still carry out the statement it has been sent (`SessionEnds`); the lock
goes with the session. The script for going down is rejected by PostgreSQL (`DROP TABLE ... CASCADE ALL`),
so only the failure of a run that goes down is possible. `migrate.ErrNoChange` counts as success.

**`Deployment`**: `docker-compose.yml` over `SchemaMigration` and `RouteStore`, whose steps it takes under
the conditions of the containers. `Up` gives a new migration and a new import to the containers of these
names; each starts when its `depends_on` is fulfilled, the server when all are. A job that has failed is
not started again, except by another `Up`; the server and the database are restarted always. Migrations
and imports given by hand run beside. An `api-server` given by hand waits for neither job and is left out:
what is promised here is promised of the container. A crash of the database ends all sessions and open
transactions.

## 3. The runs

Each `MC` module has values for constants; deadlock is not checked because every system here may rest: no
new request comes, or the bound on clock or runs is reached.

| Run | Instance | States | Shows |
|---|---|---|---|
| `cache` | 2 callers, 1 key, TTL 1, Timeout 1, 1 commit, 5 instants | 1.3 M | one query per key (`OneQueryPerKey`), reads and entries do not go back (`MonotonicReads`, `EntriesAdvance`), `BoundedStaleness`, `TruncationPasses`, refinement of `StaleReads` |
| `service` | 1 request of each kind, 3 facets | 76 k | `SendsNeverBlock`, `AnswersAreWhole`; `EveryRequestIsAnswered` and `NoGoroutineLeaks` if calls return, `DeadlineIsKept` if the timer fires |
| `search_sharing` | 2 equal searches by place, total and hits, TTL 1, 2 editions of the names service | 2.0 M | no search fails, and no list is cut, because of another one; `CentreIsTheServices` |
| `search_answered` | 2 requests for reference data, 1 facet, a database that may hang | 71 k | `EveryRequestEnds` |
| `search_stale` | 2 requests for reference data, 1 facet, TTL 0, Timeout 1, 1 commit, 4 instants | 545 k | `PartsAreRecent`, refinement of `StaleReads` by the goroutines of searches |
| `store_reads` | 2 imports of one route, 1 reader, 1 connection | 72 k | `ReadsMoveForward`, refinement of `AtomicStore`; `EveryReadEnds` |
| `deployment` | 2 migrations up and 1 down (2 of them at most), 2 imports of 2 routes, 1 crash | 146 k | `TablesAgree`, `CompletionIsDurable`, `CleanVersionIsTrue`, `ServingIsReady`; `EveryStoreEnds`, `ServerComesBack`, `UpDeploys` |
| `queries` | 3 facets and an unknown one, boxes of 0, 2, 3, 4, 5 numbers, 5 phrases, 2 ids, distances that do not wrap, wrap to a negative one or to a positive one, limits -1, 0, 100, 101, offsets to 100001 | 404 k | `ParametersBind`, `ProperRequestsRun`, `TotalCountsTheHits`, `ChoicesLeaveTheirFacet`, `KeysDetermineQueries` |
| `queries_sqlite` | SQLite placeholders, 2 facets | | *violated*: `ParametersBind` |
| `migration` | 3 runs, 4 contents, `-max-records 2` | 11 k | `OneWriter`, `PassedHasItsRoutes`, `RoutesComeFirst` |
| `migration_complete` | 2 runs, no limit | | *violated*: `PassedIsComplete` |
| `migration_rollback` | 2 runs, no limit | | *violated*: `FailureLeavesNoRoutes` |

Why the bounds are enough. Callers of different keys share nothing but the clock, so one key is enough; a
caller may call again, so two are a leader and a follower, a late leader and a reader of what it
overwrites. For the cache this is more than an argument: the same properties are proved for any number of
callers, keys, commits and instants. Time enters only in comparisons of `now` with sums of TTL and
Timeout; five instants are enough for an entry to be filled at a deadline, to be hit at its last instant
and to be out of date by more than the sum. Facets are interchangeable in `RoutesService`, and again the
safety properties are proved for any finite set. In `RouteStore` two transactions are enough
to meet, and two documents of one route are a reader's old and new one; imports of more than one file are
in `deployment`, and the safety properties are proved for any numbers. One connection is enough for a reader that
kept it between two queries to wait for itself; that readers wait for each other without end is excluded by
what `Acquire` assumes of the pool, see below. In `SearchQueries` the fields are an end of the ladder country–district, an array facet
and one that does not exist; a state is a whole request, and all orders of its facets are taken.

In `deployment` one migration can be at work while another, up or down, asks, dies or finds the
version dirty; a second `Up` follows a first that failed or completed; one crash is enough for the database
and the server to be restarted in either order. Its safety properties are proved for any numbers. In
`queries` a distance of 2 147 484 km is the first that wraps, and 4 294 968 km the first that wraps further,
to a positive one. A box of two numbers is misread by the hits, one of three by the hits and the counts of
facets, the others by nothing. The phrases are none, two plain words, one with an empty word, one with an
operator that lacks its operand, and one full of operators and parentheses that parses all the same. Of the
two ids one is the key of the total of all routes. Its properties are proved for any requests.

`search_sharing` stops where something outside has failed (`CONSTRAINT Untroubled`): from there on its first
and last property hold whatever happens. Only what a failed lookup leaves behind is followed further,
until the search that finds it has its centre. `search_answered` has no place to look up: with a lookup
the graph is too large for liveness, and the wait for a fetch is the wait for a query of the other cache. Neither has commits (`MaxVersion = 0`):
what is read decides over no failure and no wait. `search_stale` has one, and requests without a lookup and
with one facet, so that an old entry, a flight begun by the other request and a goroutine that starts at the
deadline all occur; its two properties are proved for any numbers.

### Fairness

- `RoutesService`: goroutines that can run do (weak fairness for `main` and for each goroutine's start and
  send; this is the Go scheduler). That calls return and that the timer fires are not in the
  specification: they are premises of the properties that need them, so that each property says what it
  depends on.
- `CachedSearch`: weak fairness for the steps of each goroutine and for timers. The database need *not*
  answer: a query is only bound to end when its context is done, which pgx sees to. The clock has strong
  fairness: it goes on although calls that take no time may follow each other.
- `Deployment`: Docker starts a container whose conditions hold and restarts what it must (weak fairness of
  `StartServer`, `ServerRestarts`, `DatabaseRestarts`, and of the jobs of the last `Up`); processes that run
  go on, the database does what it is sent, and a server that finds the database up again and again within
  its ten seconds connects (strong fairness of `ServerConnects`). No operator has to come, nothing has to
  fail, and nothing given by hand has to start. `UpDeploys` has its premise in the formula: nothing
  failed since that `Up` (`troubled`). A migration that refuses a dirty version is such a failure.
- `RouteStore`: an import that runs goes on, the database runs the statements it has, and a query that has
  a connection ends. A waiting reader gets a connection if one is free again and again (strong fairness of
  `Acquire`; the pool serves waiting requests in order). Starting an import, dying and failing are
  never bound to happen.

### Disagreements between code and documents

- `queries_sqlite`. `doc/plans/01-sqlite-migration.md:164,167` has the builder ported by way of
  `dialect.FormatParam(i)`. With SQLite that is a bare `?`, and then the *order* of parameters must be the
  order in the text; but `WithLimit` adds its parameter before `Build` adds those of the facets, while
  LIMIT comes last. A facet's value is bound to LIMIT. (Nothing uses the builder with SQLite yet.)
- `migration_complete`. The plan (`:115-117`) wants the counts of all tables compared; the tool compares the
  routes in the file with its own count of routes, and failures of the three other tables are logged only.
- `migration_rollback`. `tx.Rollback()` undoes nothing, see `SqliteMigration`. The file it leaves makes the
  next run fail at CREATE TABLE.

Further observations, which no document contradicts:

- A transaction of an import that has died may be committed after a later import has stored the same
  route: the older document wins. `TablesAgree` says that the four tables agree all the same.
- What `FindByObjectID` returns may mix two documents, one committed between two of its queries.
  `ReadsMoveForward` says how far this can go.
- A box of two or three coordinates makes the numbers of parameters slide. In the hits OFFSET and LIMIT supply
  the missing corners (with three coordinates, the LIMIT of a facet's counts supplies one): PostgreSQL casts
  them, accepts the query, and it is of another box. The total has no parameter to give away and is
  refused, so the search fails and nobody sees the misread part. The misread hits are in the cache all the
  same, under the key of that box.
- A request with `boundingBox: []` has the key of the same request without a box in `SearchHits`, and another
  one in `CountAll`. The hits may be answered from the cache; the total is refused, and the search fails.
- `FindByObjectID` uses the client's id as its key, in the table that holds md5 sums for the other methods.
  An id that is such a sum finds an entry of another type; what `memoize.Call` makes of it is not modelled, and
  `KeysDetermineQueries` compares finds with finds and searches with searches.
- `DistanceKm * 1000` is an `int32` and wraps from 2 147 484 km on: to a negative distance, which the
  database refuses, later to small ones.
- `BuildPrefixQuery` hands a phrase on as it came (`routes/api_routes.go:76` has it as a TODO). Two spaces together
  make a word `:*`; `&`, `|`, `!`, parentheses and `:` are operators; `to_tsquery` refuses what does not parse, and
  the search fails with 500. What parses is searched for as an expression. `ProperRequestsRun` says that
  requests without any of this, without a distance that wraps to a negative one and with a box of four
  coordinates, or none, always run; and that of other requests either all parts run or the total does not.
- A place the names service does not know is cached as nil for eight hours, and the search then runs
  without any centre: over all routes. `CentreIsTheServices` says that nothing else has this effect.
- An answer that promises results (`TotalResults > 0`) and has none would make `fetch` index an empty slice.
- `migration down` always fails, in the first line of its script, after it has marked version -1 as dirty.
  Tables and data are untouched, but every later migration, also that of `docker compose up`, refuses the
  dirty version; api-server and import-data then do not start until somebody repairs `schema_migrations`.
- A migration that dies leaves the version dirty, unless it dies before the mark or after the script; with
  the same effect.
- `00002_sqlite_schema.sql` has no direction in its name: golang-migrate ignores it.
- `CacheAssetsForeverPreset` marks the answers of the API, errors included, as cacheable for a year.
- With `-max-records` the SQLite tool stores rows of routes it has left out.
- `SQLiteDialect` writes `OFFSET ? LIMIT ?` in the order PostgreSQL allows; SQLite wants LIMIT first.

## 4. The proofs

`tlapm` checks them; nothing is assumed but the named assumptions of the modules (`TimesAssumption`: the
times and bounds are natural numbers; `KeysAssumption`: list keys are keys; `NoCallerAssumption`: the
group's "nobody" is not a caller; `FacetsAssumption`: the facets are a finite set without the names of the
two other parts; `FilesAssumption`, `ConnsAssumption`: the files of an import are a sequence, the pool has a
connection; `DownAssumption`, `NoMigratorAssumption`, `NoRunAssumption`, `BoundsAssumption`: those that go down
are migrators, the two "nobody"s are none, the bounds are natural numbers; `MaxRecordsAssumption`: so is a
run's limit of records; `FieldsAssumption`, `BoxesAssumption`, `PhrasesAssumption`: requests use finitely many
facets, a box comes with a natural number of coordinates, a phrase is a list of words, a word one of tokens). `CachedSearch` states those of its parts again for its own constants
(`FacetsAssumption`, `NobodyAssumption`, `TimesAssumption`) and adds `KindAssumption`: all requests call one of the
three methods that gather.

**`CachedRepositoryProofs`**

| Theorem | |
|---|---|
| `TypeCorrect` | `Spec => []TypeOK` |
| `QueriesAreSingle` | `OneQueryPerKey` |
| `ReadsAreMonotonic` | `MonotonicReads` |
| `StalenessIsBounded` | `BoundedStaleness` |
| `TruncationIsBrief` | `TruncationPasses` |
| `EntriesOnlyAdvance` | the action property `EntriesAdvance` |
| `CacheImplementsStaleReads` | `Spec => Reads!Spec`, the refinement |

They rest on one inductive invariant, `IInv`. None of the properties is inductive: that a reader gets
nothing old needs to be known of the entry it hits, of the query that fills the entry, and of the flight
it waits for. `IInv` says that a running query is the one its group knows (so queries for a key follow one
another); that what a query has read is no older than the entry and than anything returned for its key
(so the entry can be overwritten); that a query's version was current when its leader had at most
`Timeout` left (so an entry, which lives another TTL, is never older than the sum); and the same for a cut
list. That `Set` comes before `Finish` is what makes it true, and it is the order in `memoize.Call`. The
refinement then takes `IInv` and the step lemmas: the step that answers (`Hit`, `Finish`) is `Answer` for
the set of callers it answers, everything between is a stutter.

**`RoutesServiceProofs`**

| Theorem | |
|---|---|
| `TypeCorrect` | `Spec => []TypeOK`; the part that is not obvious is `remaining \in Nat` |
| `NobodyWaitsToSend` | `SendsNeverBlock`, for any finite set of facets |
| `WholeAnswers` | `AnswersAreWhole` |

The invariant counts: `remaining` is the number of wanted parts that have not been received; a channel
holds only parts whose goroutine has ended, and only the parts that belong on it; so a goroutine that is
about to send is itself not yet in the buffer, and the buffer has at most one less than the parts of its
channel, which is the capacity. Cardinalities come from the library's theorems about finite sets.

**`RouteStoreProofs`**

| Theorem | |
|---|---|
| `Invariance` | `Spec => []IInv`, the invariant below |
| `StoreIsAtomic` | `TablesAgree`, for any number of overlapping imports, files and routes |
| `CompletedIsStored` | `CompletionIsDurable` |
| `StoreTypeCorrect` | `TypeOK`, of writers and readers |
| `ReadsOnlyMoveForward` | `ReadsMoveForward`, for any numbers of readers, imports, files and routes |
| `StoresHappenOnce` | `Spec => []PutOnce`: no file is put twice by a run, dead or alive |
| `StoreImplementsRegister` | `Spec => StoreIsARegister`, the refinement of `AtomicStore` |

A DELETE sees what was committed when it ran, and the rows go at the commit; in between another run might
commit rows of the same route, which would stay behind. `TablesAgree` alone does not exclude that. The
invariant adds the reason: `RowsAreLocked`, no two open transactions that have passed the upsert are for
one route; and `DeletesAll`, what a transaction has deleted so far is all its route has in those tables.
The second needs the first at the commit of another run, and both need the upsert to be the first
statement of the batch (`BatchFault` moves it to the end). `FilesAreCommitted` follows a run along its
files for the second theorem.

For the readers: because `TablesAgree` holds, a query finds exactly the document that was committed last;
because logs only grow, the position in the log it was answered from is no earlier than that of the query
before. The invariant `RInv` keeps these positions as an existential (`AnsweredFrom`), which the step of a query
extends by one; a list that is cut short stays below the document at its position.

For the refinement `StoreImplementsRegister` a commit is `Put` of the file the run is at. That it may be put,
once and after the files before it, is `PutOnce`: a document is in a log only if its run has passed the
file, or is at it with its transaction committed; a run that goes on after a commit goes on with the next
file, and one that has died sends nothing more. A query is a `Sample`: by `TablesAgree` the table it reads has
what `routes` has, so all four tables pass for the one register. Everything else cannot be seen.

**`SchemaMigrationProofs`**

| Theorem | |
|---|---|
| `MigrationTypeCorrect` | the types of the variables, and that only a migrator at work can have died |
| `CleanVersionsAreTrue` | `CleanVersionIsTrue`, for any number of migrations in both directions |

The invariant `MigrationIInv` says what a migrator at each of the three statements, alive or dead, may rely
on: it has the lock, so it is the only one there; at the script and after it the version is dirty and its
own; after the script the tables exist. A dead one keeps all this until its session ends, which is why what
it still does is harmless.

**`DeploymentProofs`**

| Theorem | |
|---|---|
| `ServersAreReady` | `ServingIsReady`, for any numbers of migrations, imports, files and crashes |
| `DeploymentKeepsItsParts` | `TablesAgree`, `CompletionIsDurable`, `CleanVersionIsTrue` under `DeploymentSpec` |
| `DeploymentImplementsRegister` | `DeploymentSpec => StoreIsARegister`: the refinement survives jobs repeated by hand and crashes |

`DeploymentIInv` is the conjunction of the invariants of the two parts and of what ties them: a server that
is not off has seen an import complete, so every file has been committed once, and logs only grow; an
import that has started found tables, and tables do not go. Each action of `Deployment` is a step of one part
that leaves the other alone, so most cases cite the step lemma of that part. The crash of the database is
the one that moves both. To the registers of `AtomicStore` it is a stutter: it aborts transactions, and what an
aborted one has deleted was never gone.

**`SqliteMigrationProofs`**

| Theorem | |
|---|---|
| `TypeCorrect` | `TypeOK`: a run has rows to copy only at a table, of that table; the file has rows of PostgreSQL only, each in its table |
| `FilesHaveOneWriter` | `OneWriter`, for any number of runs |
| `RoutesAreFirst` | `RoutesComeFirst` |
| `PassedIsWhole` | `PassedHasItsRoutes` |

All rest on `OneOwner`: `CREATE TABLE` has no `IF NOT EXISTS`, so of all runs that find a file only the one that
creates its first table goes on, and the rows in the file are its own. `CopiesItsRoutes` follows that run: what
is in `routes` and what it has still to copy are together what its query returned.

**`CachedSearchProofs`**

| Theorem | |
|---|---|
| `PartsAreKept` | `Spec => Names!Spec /\ Cache!Spec /\ Service!Spec`: the composition implements its parts |
| `PartsKeepTheirPromises` | `OneQueryPerKey` of both caches, `BoundedStaleness` of places, `SendsNeverBlock`, `AnswersAreWhole`, together |
| `CentresAreTheServices` | `CentreIsTheServices`, for any number of searches and editions |
| `FailuresAreCaused` | `FailuresHaveACause` |
| `TruncationsAreCaused` | `TruncationsHaveACause` |
| `PartsComeRecent` | `PartsAreRecent`, for any number of requests, facets and commits |
| `SearchesReadStale` | `PartsAreStaleReads`, and the same of the lookups of places |

It takes the proofs of the parts as instances (`NamesP`, `CacheP`, `ServiceP`) and shows first that every step of
the composition is a step of each part or leaves it alone; `PartsIInv`, their three invariants, then hold without
being proved again. For the centre, `CentresSaid` says that what the cache of places still may hand out the
service has said, and `LookupsInTime` that a lookup has no more time than its search; the staleness of places does
the rest. For the last two, `Calm` says what holds as long as nothing outside has failed: a context ends only
with a search whose goroutines have all ended. That is where `AnswersAreWhole` of the service is needed: a search
that succeeds leaves nobody in the cache, so its deferred cancel finds no query others wait for.

`BoundedStaleness` of the cache counts from the moment its caller came, which a scheduler may put off.
`CallsInTime` ties that moment to the search: a goroutine calls after its search has begun, so the deadline of the
search is at most `Timeout` after the call. That gives `PartsComeRecent`, counted from the deadline of the search. `SearchesReadStale` puts `PartsAreKept` and
`CacheImplementsStaleReads` together: a refinement is inherited by whatever implements the refining part.

**`SearchQueriesProofs`**

| Theorem | |
|---|---|
| `Invariance`, `TypeCorrect` | `Spec => []IInv`, `Spec => []TypeOK` |
| `ParametersAreBound` | `ParametersBind`, for PostgreSQL, any requests, boxes of any length and every order of the facets |
| `ProperRequestsAreRun` | `ProperRequestsRun`, for PostgreSQL and any phrases and distances |
| `TotalIsOfTheHits` | `TotalCountsTheHits`, for PostgreSQL |
| `ChoicesKeepTheirFacet` | `ChoicesLeaveTheirFacet`, for both dialects |
| `KeysStandForOneReading` | `KeysDetermineQueries`, for PostgreSQL, any requests and any ids, misread boxes included |
| `MetresAreTheProduct` | `Metres` is the product in 32 bits: in the range of an `int32`, and 1000 km up to a multiple of 2^32 |

Those that are about what the database makes of a query have `Dialect = "postgres"` as their hypothesis; for
SQLite the first is false (`queries_sqlite`). The state machine is small and so is its invariant `IInv`: the
request the repository sees has passed the checks, and what has been asked are the queries for it in some
orders. The work is in the operators. A query `Lacks` k parameters when it would be accepted if it had k
coordinates more, and it is `Right` when each hole has the parameter that belongs there. `WithWhere` and
`WithTail` keep both as long as they add as many parameters as holes, with the same values
(`LacksNothingGrows`). The only place that does not is the box, whose clause has four holes whatever came. If
coordinates lack, an offset or a limit takes the place of one, and the types fit (`LackIsFilled`): the query
gets closer to being accepted, and is not right any more. What Build adds cannot do that, its parameters
are arrays: the query is `Torn` and stays so (`TornGrows`). If there are too many, one has no hole and never
gets one (`Spare`). So a query is accepted when OFFSET and LIMIT make up for what lacks (`Passes`): two for the
hits, one for the counts of a facet, none for the total. `BuiltFacts` carries all this through the loop of
`Build`; it is an induction over the position in the order, with the set of the facets passed. What a query
says is then what Build started from (`CoreOf`) and the choices made, in no order; the theorems compare
these: the total's with the hits', and those of any two calls with one key, which start from the same core
also where that is misread.

The library's induction over the naturals takes a predicate as an operator, which the provers cannot
instantiate; `SetInduction` states it for a set instead, from well-founded induction, and this is what the
loop of `Build` and the existence of the recursive function in `Built` are proved with.

### Only model-checked

The findings of the three runs that expect a violation, and all liveness properties: fairness and `ENABLED`
are beyond the prover, so `EveryRequestEnds` and its like hold of the instances of the runs. Every
invariant, action property and refinement of the passing runs is also proved.

## 5. What is not modelled

The text of SQL and what PostgreSQL computes with it (counts, ranking, distances); JSON and HTTP; metrics,
logging and profiling; md5 (two different key lists are taken to have different hashes); the projection
of grid coordinates; paging and parameters of the names service; reading configuration; the crawling
scripts in `archive/`; an `api-server` given by hand; what `memoize.Call` makes of an entry of another type. The pool's health checks and the reconnection of broken connections appear only as
queries that fail. The chain of middleware is left out: it has no state of the program's own, a request
goes through it alone, and what it decides (401, 404, 413, 429, 500) follows from one comparison each.

## 6. Plan

What is left, in this order:

1. Facets: counts under exclusion as sets of routes, against a reference definition.
2. Liveness of searches by place, on a coarser model of one of the two caches.
