# Verification of basketball-stats-api

TLA+ models of the Basketball Stats API (FastAPI + async SQLAlchemy + PostgreSQL),
TLC configurations that check them on small instances, and TLAPS proofs of what
matters most for instances of any size. Paths below are relative to the
repository; `bs/` stands for `src/basketball_stats/`.

## The system

| Part | State it keeps | Operations | What makes it correct |
|---|---|---|---|
| Seed loader `bs/seed/minimal.py` | the rows of ten tables, three id sequences, all in one transaction | `seed()`: check, `TRUNCATE` under `--force`, six flushes, commit | all or nothing; never two fixtures; repeatable; ends |
| Repositories `bs/repositories/` | none; each read is one to five statements on one session | lists with a total, details, standings, leaderboards, stats, roster, calendar | what a response joins together belongs together; ranks, averages and pages are what they claim |
| Routers `bs/api/v1/` | none | parse, call a repository, 404, respond | 404 exactly when there is nothing; parameters validated |
| Engine, sessions `bs/core/db.py` | a pool of 5 + 10 connections | `get_db()` opens and closes a session per request | every connection comes back, nobody waits for ever |
| Health `bs/api/v1/health.py` | none | `SELECT 1`, 200 or 503 | 503 only when the database is unwell |
| Middleware, error handlers `bs/core/middleware.py`, `bs/api/errors.py` | context variables of a request | bind the request id, echo it, sanitise errors | every log line and response of a request carry its id and no other's |
| Settings `bs/core/config.py` | none | `to_asyncpg_url` | asyncpg accepts the result, nothing else of the URL is lost |
| Migrations and boot `migrations/`, `Dockerfile`, `render.yaml` | the schema version | `alembic upgrade head`, then serve | several instances may boot together |
| Lock workflow `.github/workflows/dependabot-uv-lock.yml` | a branch and its lock file | two jobs, cancelled and restarted | the branch ends up with a lock file that matches |

All parts that do anything at run time meet in the database. The loader is a
process of its own, started by hand, possibly twice and possibly beside a live
API; a request is a coroutine with a session, hence a transaction, of its own,
opened by its first statement and closed by `get_db()` after the response has
been sent. They interact through table locks, the primary key of `seasons`,
the id sequences and what is committed. Requests also share the engine's pool, a request
takes its connection from it with its first statement, and a container shares the
schema with every other container that boots.

The hard behaviours are listed in `PROJECT.json` under `hazards`, at the lines
where they bite.

## Modules

| Module | Contents |
|---|---|
| `SeedLoader.tla` | the loader, the requests of the read API, and PostgreSQL as both see it; the properties |
| `FixtureStore.tla` | what they promise each other: one store, filled, replaced and read in single steps |
| `MCSeedLoader.tla` | instances for TLC |
| `SeedLoader_proofs.tla` | theorems about `SeedLoader`, its refinement of `FixtureStore` among them |
| `Standings.tla` | the standings query over a growing table of games |
| `Ranking.tla` | `RANK()` and what its positions mean |
| `MCStandings.tla` | an instance for TLC |
| `Queries_proofs.tla` | lemmas about sums over rows and about `RANK()` |
| `Standings_proofs.tla` | theorems about `Standings` |
| `ConnectionPool.tla` | the pool of `core/db.py` and the server behind it |
| `RequestPipeline.tla` | requests and probes on their way through the application and the pool |
| `RequestPipeline_proofs.tla` | theorems about both |
| `DatabaseUrl.tla` | `to_asyncpg_url`, and what alembic and asyncpg make of its result |
| `Boot.tla`, `Boot_proofs.tla` | containers that migrate and serve; the migration round trip of CI; theorems |
| `BoxScores.tla`, `BoxScores_proofs.tla` | generated columns, leaderboards and season stats over a growing table; theorems |
| `PageWalk.tla`, `PageWalk_proofs.tla` | a client that reads a list page by page; theorem |
| `TeamDetail.tla`, `TeamDetail_proofs.tla` | the recent and upcoming games of a team; theorems |
| `MCRequestPipeline.tla`, `MCBoot.tla`, `MCViews.tla` | instances for TLC |

### SeedLoader

A *loader* is one run of `python -m basketball_stats.seed.minimal`; `Forced` are
the runs with `--force`. A *reader* is one HTTP request. Every step is one
statement, or the acquisition of one lock by a statement.

| Variable | In the code and the database |
|---|---|
| `pc`, `flushed` | where `seed()` is: before the check, in the `TRUNCATE`, between its six flushes, or how it ended |
| `rows` | for each table, the runs whose committed rows it holds |
| `serial`, `ids` | how many fixtures' worth of ids each sequence has given, and which batch each run drew (batch 0 is ids 1..12, game 1, coach 1) |
| `shared`, `exclusive` | table locks: `ACCESS SHARE` and `ROW EXCLUSIVE`, which only `TRUNCATE` conflicts with, and `ACCESS EXCLUSIVE` |
| `request`, `status`, `seen` | the endpoint, the stage of the request, and what each of its statements returned |

| Action | Code |
|---|---|
| `Check` | `_is_already_seeded` and the branch on it; the lock on `seasons` stays, also under `--force` |
| `TruncateLock`, `Truncate` | `_truncate_p2_tables`: the tables are locked one by one, in the order of the list |
| `FlushLock`, `Flush` | a flush of `seed()`: lock the tables, then write all rows and draw their ids; the first one waits for other writers of season 1 |
| `Refuse` | the primary key error when another run has committed season 1 |
| `Commit` | `session.commit()`, acknowledged or not |
| `Crash`, `AbortLoader` | the process or connection dies; PostgreSQL aborts it as a deadlock victim |
| `Ask`, `ReadLock`, `Execute`, `Respond`, `Close` | a request: `get_db()`, each statement of its endpoint, the response, and the close that ends the transaction |
| `AbortReader` | the request is a deadlock victim and answers 500 |

PostgreSQL is external and modelled by what the code relies on: READ COMMITTED
(the default, which `create_async_engine` leaves alone), locks kept to the end of
the transaction, a snapshot per statement taken after its locks, unique keys
that wait for uncommitted writers, sequences that do not roll back except for
`RESTART IDENTITY`, which does, and a deadlock detector that aborts a waiter that
waits for itself. The lock queue is not modelled: a lock may be granted to
anyone it is compatible with, which allows more interleavings than the queue.
The order in which a flush locks its (one or two) tables is left open.

A `SELECT` locks its tables as it is parsed: CTEs, where they are used, before the
tables that follow. But `core/db.py` leaves the driver's cache of prepared statements on, and a
statement that a connection runs again is not parsed: PostgreSQL locks the outer
`SELECT` first, then the CTEs. The standings and the leaderboards, the two statements
with CTEs, are therefore listed twice, as `standings` and `standings_again`, and a request
for them is either. If PostgreSQL finds, once it has the locks, that the prepared plan is out of date,
it drops them and parses anew; that is the request before its first lock, so no
step of its own.

A `SELECT` result is abstracted to the runs whose rows it finds. Games and
players are looked up by id 1, as the smoke test does, and these ids come from
sequences; teams and competitions have fixed ids.

### FixtureStore

The store holds the fixture of at most one run. A run loads it into an empty
store, replaces it under `--force`, skips, or fails and leaves it alone; a request
is answered from the store as it is in one moment, or finds nothing: the fixture
may have other ids than the one asked for (`FirstIds` under Findings), and a page without rows
may come with the total of a fixture stored meanwhile. What the store promises is
that nothing is ever found in part or mixed, not that everything is found. `SeedLoader`'s
`ImplementsStore` is its refinement, with `store` mapped to the committed rows.

### Standings

`games` is the table; `Record` stores a game with any totals, 0-0 included, between
two different teams. The loader stores one such game; more are stored by nobody
yet. The rest is the query of `repositories/standings.py`, as operators over the
contents of the table: `HomeLine`, `AwayLine` and `PerTeam` are the CTE `per_team`,
`Aggregate` and `Aggregated` the CTE `aggregated`, `SortsBefore` is the `ORDER BY` of
the window, `Standings` the answer. `PerTeam` is a set, so a line carries its
game: `UNION ALL` keeps equal lines. `Ranking` is separate because the leaderboards
rank in the same way. The order of rows that share a position, which SQL leaves
open, and the names joined from `teams` are left out.

### ConnectionPool and RequestPipeline

`RequestPipeline` extends `ConnectionPool`: the composition is one module on top of
the other, and each action of a request contains the pool's part of it.

| Variable | In the code |
|---|---|
| `conn` | what a request's session has of the pool: nothing, a place among the waiters, a connection being opened or reopened, one that works, one the server has closed |
| `fresh`, `stale`, `opened`, `database` | the idle connections that work and those that do not, the pool's own count of its connections, whether the server accepts new ones |
| `pc`, `context` | where the request is; `request_id` among the context variables of its task |
| `status`, `header`, `logged`, `error` | the response, its `X-Request-Id`, the ids of the log lines, the class of the exception |
| `locked`, `outage` | whether a re-seed holds the tables; history: whether the server was ever down |

| Action | Code |
|---|---|
| `Arrive`, `Send` | `RequestIdMiddleware.__call__` up to `bind_contextvars` (an inbound id that is not UTF-8 raises before it); `send_with_header` |
| `Reject` | parameters that fail validation and their 422 |
| `CheckOut`, `CheckOutFails` | the first statement of the session takes a connection, or waits for one and times out, or cannot connect |
| `Answer`, `NotFound`, `ExecuteLost`, `Aborted` | the statements, and the ways they end, a deadlock or a parameter the driver or the server refuses (an id past 32 bits, a negative limit) among them; `Raise` splits into the `except` of `healthz` and everybody else |
| `CloseResponded`, `CloseNotFound`, `CloseFailing` | the `finally` of `get_db` and then that of the middleware, after a response, before a 404, after an exception |
| `HandleUnhandled` | `unhandled_exception_handler`, which Starlette runs in `ServerErrorMiddleware`, outside all of the above |
| `Suspend`, `GoDown`, `ComeUp`, `Reseed` | Neon suspends an idle compute; outages; a re-seed takes and releases its locks |

The pool is external (SQLAlchemy's `AsyncAdaptedQueuePool`), and modelled by what its
clients rely on; its numbers and the ping are the repository's. `locked` is all that
is left here of `SeedLoader`: there the locks are modelled one by one.

### Boot and DatabaseUrl

A container runs `alembic upgrade head` and, if that exits with 0, uvicorn. Every
statement of the migrations is a step, inside one transaction (`do_run_migrations`;
PostgreSQL's DDL is transactional). `catalog` is the committed schema, an object for
each table, index, type, and row of `alembic_version`; `created`, `dropped` and `todo` are
a transaction's. A statement succeeds if it makes nothing that is there and leaves
nothing that refers to what is not; a writer of the same name waits for the
transaction that made it. `CheckFirst` is the look that `checkfirst=True` takes before
it creates, a statement of its own. The connection may be lost at any point, the commit
included. The platform starts an exited container again (`Restart`). CI's job
(`Checks`) upgrades, downgrades and upgrades on a database of its own, so the boots are
`elsewhere` then.

A URL is abstracted to its scheme, whether what precedes the query has a percent
sign, and the set of its parameters: that is all that `to_asyncpg_url`,
`set_main_option` and `connect` tell apart.

### BoxScores, PageWalk, TeamDetail

`BoxScores`: `Enter` stores a box score under the primary key (game, player).
`PerPlayer` is the CTE of the leaderboard query, `Leaderboard` its answer,
`SeasonStats` the aggregation of `get_player_season_stats`. An average is kept as a
total and a count and compared by cross-multiplication: the SQL is exact in its
`numeric`, too, up to digits no league reaches.

`PageWalk`: a list is a set of rows and the pairs its `ORDER BY` tells apart. Each page is
a query that arranges tied rows anew. Between two pages a commit may store rows
(`Store`) anywhere in the list: a game of a later date comes first, a competition
last, and a box score moves the players of a leaderboard, so the list becomes any
other that `Lists` allows and that still has the old rows. A `--force` re-seed in between stores the same
fixture again, so it is a `Store` of an equal list. Three histories say what has happened to a row:
it was `tied`, another was `pushed` ahead of it, one ahead of it was `pulled` behind. Only on
leaderboards do rows change places; in the lists of games and competitions `pulled` stays
empty, and a walk can lose nothing but ties.

`TeamDetail`: `get_team_detail` reads recent and upcoming games with a `date.today()` each;
`Midnight` may come between them. Its lists are pages of `PageWalk`, so games of one day
may be cut off either way by the limit.

## Runs

The `seed_` runs use `MCSeedLoader`, the `standings_` runs `MCStandings`. Deadlock
checking is off: every process runs once and then stops, and a table is full at
some time. `MCViews` checks three specifications that share no state side by side: in
each behaviour one of them moves.

| Run | Instance | Question |
|---|---|---|
| `seed_vs_requests` | a plain run, a `--force` run, two requests, each to one of five endpoints (the two details and the standings from a prepared statement, which visit tables against the order of the TRUNCATE; the stats, which follow it; one list) | what do requests see of a re-seed, who is aborted, is the whole an atomic store |
| `seed_races` | two plain runs and a `--force` run | do racing, crashing and deadlocked runs leave one whole fixture and free ids |
| `seed_liveness` | two `--force` runs and a request to any endpoint, with fairness | does everybody come to an end |
| `seed_idempotent` | two plain runs | violated: see Findings |
| `seed_first_ids` | two plain runs | violated: see Findings |
| `standings_rank` | up to three games with totals 0..2 between four teams, in two competitions | do the books balance, are positions numbered as ADR-0004 says, does a result move only who it should |
| `standings_readme` | the same | violated: see Findings |
| `requests_pool` | two reads and a probe, one pooled connection and one overflow | does every connection come back, is everyone answered, with the right id |
| `requests_ids` | the same | violated: see Findings |
| `boot` | three containers on a database at any revision, or one CI job; URLs of every kind; two crashes | is the schema ever half migrated, who serves when, do all boot in the end |
| `views` | box scores of two players in four games of three competitions, two of them in one season; walks over leaderboards of three players, four games, up to five competitions, any of which may grow into another; calendars of up to four games, one without the team | is anybody counted twice or apart, what may paging and midnight lose |
| `views_season` | the same | violated: see Findings |

*Bounds.* Every interaction the code has is between two parties, or between
two runs in sequence with a third after them: a waiting cycle of two runs and a
request needs two loaders and one reader, an id drawn by a dead run and seen by
a later one needs two, a key fought over by two after a third truncated needs
three. Counters are bounded because a run happens once. Requests are
interchangeable, so their symmetry is used where only safety is checked.
For the standings, four teams leave two whose order a result must not change;
three games give ties of two and three teams on one, two and all three keys;
totals 0..2 give unplayed and drawn games and different margins. Teams, games and
competitions are interchangeable.

For the pool, two connections and three requests leave one waiting, one on the
overflow and one on a pooled connection; the proofs cover every other size. For
`boot`, two containers race and a third comes while one restarts; two crashes allow
one before and one after a commit. Pages of two rows cut groups of ties in the middle.
Box scores may have a positive, a zero and a negative `val`.

*Fairness.* The `FairSpec` of `SeedLoader` is weakly fair in the steps of each started loader and
request: processes keep running, the detector wakes up in every waiter. Nobody
has to send a request or to crash, and no lock is granted fairly. A stalled
client that never takes its response would break it; uvicorn does not time that
out, so liveness of re-seeds depends on clients that read. `RequestPipeline` is weakly
fair in the steps of each request: the event loop runs every task, and a statement
that can end does; that a waiter's time-out comes is part of it. Nobody has to send a
request, and neither the server nor a re-seed has to do anything. `Boot` is weakly fair
in each process's steps, restarts included, which are the platform's job; crashes are
bounded and not fair.

*What the runs show.* A 200 for a game always carries all its box scores and one
for a team its full roster, even when a re-seed commits in between, because the
first statement's lock keeps `TRUNCATE` out; the price is that these two
endpoints can be aborted in a deadlock and answer 500. So can standings and
leaderboards on a connection that has run them before, for the order of their locks is
then the other way round; no other request can. Two `--force` runs that
start together always deadlock until one is aborted, since both keep the lock of
the check. The loader is all or nothing. The standings
hold what they promise; a drawn or unplayed game counts as played and lost for
both its teams, about which the repository says nothing.

No path through an endpoint keeps its connection, and no request waits for ever
unless a re-seed holds the tables for ever (`RequestsAnswered` has that condition); a
probe is answered even then, though with 503 if the pool is used up by reads that
wait, so the platform may restart a service whose database is well. A suspended
compute is never noticed; an outage fails the requests that hold connections. However
boots race and die, the schema is whole and the one its version names, and nobody
serves over another. A boot with a dashboard URL can fail in a race, but only after
somebody has finished the migration, so its next try succeeds. With a percent sign in
`DATABASE_URL_DIRECT`, or with `options=endpoint=...`, in which `urlencode` puts one,
`set_main_option` raises at every boot; `NeonUrls` leaves these URLs out. Paging and
midnight lose or repeat only what the code leaves open: rows that tie or are moved by rows
stored meanwhile, games of the day that has just begun.

Every property is checked against a mutant: a variant of a definition, kept
beside it under a comment `Variant`, under which the property must fail.

## Findings

* `seed_idempotent` — the loader calls itself idempotent, but of two plain runs
  started together one ends in an `IntegrityError`: check and insert are
  separate statements.
* `seed_first_ids` — after a run that died between its players flush and its
  commit, the next plain run reports success with players 13..24, and the smoke
  test's `/players/by-id/1/stats` answers 404.
* `standings_readme` — by `README.md:62` teams level on wins and point difference
  share a position; the query goes on to compare points for.

* `requests_ids` — `middleware.py:6` promises the id on every log line of a request; the
  handler for unhandled exceptions runs after the middleware has cleared the context,
  so the line with the traceback has none. Its 500 has neither the header nor the
  `request_id` that `errors.py:9` names.
* `views_season` — `api/v1/players.py:47` documents 404 for a player without box scores
  in the season; the query ignores `season_id` and answers with those of any season.

## Proofs

Every safety invariant that a passing run checks, the one action property and the
refinement are theorems. Each holds for all values of the constants that satisfy the
module's assumption; TLC evaluates these assumptions in the runs.

| Module | Assumption | Theorems |
|---|---|---|
| `SeedLoader_proofs` | forced runs are runs, runs are not requests, `NoOne` is neither | `TypeCorrect`, `OneFixtureAlways`, `SerialsAheadAlways`, `AnswersFromOneFixtureAlways`, `ListsOnlyWaitAlways`, `ImplementsTheStore` |
| `Boot_proofs` | the CI job is one job with a database of its own, crashes are bounded | `TypeOKAlways`, `SchemaIsItsVersionAlways`, `ServesOnlyMigratedAlways`, `FailuresAreRacesAlways`, `RoundTripsAlways` |
| `RequestPipeline_proofs` | a finite set of requests, probes among them; a pool of at least one connection | `NothingLeaksEver`, `OwnIdsEver`, `SuspendsUnnoticedEver`, `PipelineTypes` |
| `Standings_proofs` | finitely many games, scores are natural numbers | `CompetitionRankingAlways`, `BalancedAlways`, `ResultMovesItsTeamsAlways`, `TypeOKAlways`; `StandingsAreRanked` and `SharedOnlyByEquals` for any finite set of rows with integer keys |
| `BoxScores_proofs` | finitely many games, integer columns, `NoStats` is no row of stats | `OnePlaceEachAlways`, `LeaderboardsAddUpAlways` |
| `PageWalk_proofs` | finite lists, each with a strict weak order; pages of at least one row | `SteadyShownOnceAlways` |
| `TeamDetail_proofs` | finite calendars, integer dates | `NeverInBothAlways`, `LostOnlyAtMidnightAlways` |

`SeedLoader`. The argument is the inductive invariant `IInv` (`Inductive`). `OneFixture` alone
is not inductive: a commit adds a fixture, and that the tables hold no other
follows only from how the run got there. `LocksInv` says that an exclusive lock
excludes, `StagesInv` that a `--force` run past its `TRUNCATE` holds all tables and
that every run past its check holds `seasons`, and `KeyInv` that at most one
transaction has written season 1 and, if it is a plain one, over empty tables.
Hence `CommitStores`: a commit makes every table hold its fixture only. For the
requests, `RequestsInv` says that one that has found something holds a lock and
that what it found is still there: `PresentStays` shows that no commit is possible
then, neither forced (it would need the lock) nor plain (the tables are not
empty). TLC checks `IInv` in `seed_vs_requests`. Three results rest on it:

* `SerialsAhead` needs `DrawnInv` beside it: the ids that an open transaction has drawn, not
  stored yet, lie below the sequences, and a run with `--force` has the first ones.
* `ListsOnlyWait`: a list, a lookup by one id, and the stats lock their tables in the order of
  the `TRUNCATE` from the first one on (`ListsFollowTruncate`), and so do standings and
  leaderboards when they are parsed. So if a `TRUNCATE` blocks one, it blocks it on its
  first table and it holds nothing (`BlockedListHoldsNothing`), and no cycle of waiting
  leads through it (`OutOfOrderInCycles`).
* `ImplementsTheStore` maps each step of loader and request to a step of `FixtureStore` or a
  stutter (`StepMaps`); a `Commit` is its fill or replacement, a `Respond` its answer. It
  takes one more invariant, `AnsweredInv`: a request that is answered has run a statement.

`Boot`. A whole boot is a walk along `UpTo(1), UpTo(2), ...`: what an upgrade sees after `k`
statements, and the downgrade's `DownTo` likewise. `BootIInv` (`BootInvariant`) says that every
open transaction stands at some point of its script, over the schema it found, and that
at most one boot has made the tables, since the next one waits for the name or fails
on it. From that, a commit takes the catalog from one version's schema to another's.
Boots and the CI job are separate disjuncts (`BootsInv`, `ChecksInv`), for they use
separate databases. TLC checks `BootIInv` in `boot`.

`RequestPipeline`. `PipelineInv` is the common strengthening: the pool (`PoolInv`, kept by each
of the pool's operations, with `HoldersChange` for the cardinality), the tasks (`TaskInv`: a
request under way has its own id in its context, and before it is done every line it
logged has that id), `HeldUnderWay`, which ties the two, and `Unbroken`. `OneTask` and
`OneStep` reduce each action to the request that takes it.

`Standings` and `BoxScores` are about queries, so their invariants are small (`PairsInv`: no game of
a team against itself; `ScoresInv`: the type) and the work is in the operators.
`Queries_proofs` has what both need. The sum over a set of rows is a function the community
module defines by recursion, and induction over data is out of the prover's reach, so
`SubsetInduction` takes a smallest counterexample among the subsets instead, by which sums of
integers are integers, add up, compare (`SumPlus`, `SumLessOrEqual`), count (`SumCounts`) and may
be taken group by group (`SumGroups`, `SumOverKeys`). `RankIsProper` says that `RANK()` over any
strict weak order is proper, since a row that sorts before another has strictly fewer
rows before it; `KeysAreAnOrder` shows that comparing keys one after the other is such
an order, `AveragesAreAnOrder` that comparing totals and counts by cross-multiplication is.

* `Balanced`: `Totals` groups the lines by team for the answer and by game for the table, and
  a game adds two played, at most one won, and differences that cancel.
* `ResultMovesItsTeams`: `ResultIs` gives the rows after a result, by which every other team
  keeps its row, so nobody new sorts before the winner (`WinnerUp`), whoever sorted
  before the loser still does (`LoserDown`), and two others stay as they were (`OthersKeep`).
* `LeaderboardsAddUp`: `BoardsAddUp` groups the games of a player of one season by the
  competitions of that season. It speaks only of such players, since the stats of a player of two
  seasons are wrong (Findings), and would hold with a query that looks at the season, too.

`PageWalk`. The invariant `WalkInv` relates the offset to the number of rows ahead of a row, its rank: a
row without ties has the same place in every arrangement (`PlaceIsRank`), and a rank changes
only when something is pushed ahead or pulled behind (`RankGrows`). So a row that was shown and is not in `tied` or
`pushed` has its rank below the offset (`ShownInv`) and is never shown again; one of the first rows that
was not shown and is not in `tied` or `pulled` is at the offset or past it (`AwaitedInv`), and a
short page, which is the last, has come to all of those (`ShortPageIsLast`).

`TeamDetail`. `DetailInv` says what each list promises: which day bounds it, and that a game it
leaves out on its side of that day gave way to a full list of nearer ones. `upcoming`
is bounded by a later day than `recent`, so no game is in both, and one that is in
neither though both have room has its date between the two readings.

*Only model-checked.* The liveness properties (`SeedEnds`, `RequestsEnd`, `RequestsAnswered`,
`ProbesAnswered`, `BootsServe`), which with their fairness and `ENABLED` are out of the prover's
reach. The properties under Findings are violated, so there is nothing to prove.

## Plan

Done: all modules, and the proofs of all safety properties the runs check. Left:

1. an abstract specification of the schema as one version that moves in single steps, which
   `Boot` implements, with its proof from `BootIInv`;
2. an abstract pool, a counter of connections, which `ConnectionPool` implements.

## Not modelled

The response schemas (fields and examples, no control), log formatting, the order and
limit of a player's game log, the normalisation of slugs and names (a string function
without state), the keep-warm workflow and the rest of CI (linear scripts), the clean
shutdown, the offline mode of `env.py`, and `spike-basquethero` (an exploratory script
nothing uses). The Dependabot lock workflow is control that GitHub exercises:
scheduling, cancellation and pushes, of which the repository holds only the settings.
