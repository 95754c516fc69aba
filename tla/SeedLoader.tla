----------------------------- MODULE SeedLoader -----------------------------
(***************************************************************************)
(* The seed loader (seed/minimal.py) and the requests of the read API, on  *)
(* one PostgreSQL database: every statement runs in READ COMMITTED, a      *)
(* transaction keeps its table locks until it ends, SELECT and INSERT take *)
(* locks that only TRUNCATE's conflicts with, and a transaction that waits *)
(* in a cycle is aborted by the deadlock detector.                         *)
(***************************************************************************)
EXTENDS Integers, Sequences, FiniteSets

CONSTANTS Loaders,   \* runs of `python -m basketball_stats.seed.minimal`
          Forced,    \* the runs given --force
          Readers,   \* HTTP requests of the read API
          Requested, \* the endpoints they may go to
          NoOne      \* no holder of an exclusive lock

ASSUME LoaderAssumption ==
    /\ Forced \subseteq Loaders
    /\ Loaders \cap Readers = {}
    /\ NoOne \notin Loaders \cup Readers

VARIABLES pc,         \* [Loaders -> Phases]
          flushed,    \* [Loaders -> 0..6], flushes done in the transaction
          rows,       \* [Tables -> set of loaders whose committed rows it holds]
          serial,     \* [Serials -> Nat], fixtures' worth of ids drawn so far
          ids,        \* [Loaders -> [Serials -> Nat]], the batch each loader drew
          shared,     \* [Tables -> set of processes holding a lock on it]
          exclusive,  \* [Tables -> the loader holding ACCESS EXCLUSIVE, or NoOne]
          request,    \* [Readers -> Endpoints or "none"]
          status,     \* [Readers -> {"idle","open","answered","failed","closed"}]
          seen        \* [Readers -> what each statement so far returned]

loaderVars == <<pc, flushed, rows, serial, ids>>
lockVars   == <<shared, exclusive>>
readerVars == <<request, status, seen>>
vars       == <<loaderVars, lockVars, readerVars>>

Procs == Loaders \cup Readers

Tables == {"box_scores", "games", "coaching_assignments", "rosters", "coaches",
           "players", "teams", "competitions", "seasons", "clubs"}

\* Variant: a table added later is missing from the TRUNCATE.
TruncateNoPlayers == <<"box_scores", "games", "coaching_assignments", "rosters",
                       "coaches", "teams", "competitions", "seasons", "clubs">>

(* The tables of TRUNCATE TABLE ..., locked from left to right.            *)
TruncateOrder == <<"box_scores", "games", "coaching_assignments", "rosters",
                   "coaches", "players", "teams", "competitions", "seasons",
                   "clubs">>

(* The tables each flush of seed() inserts into.                           *)
FlushTables == << {"seasons", "clubs"}, {"competitions", "teams"}, {"players"},
                  {"rosters", "coaches"}, {"coaching_assignments", "games"},
                  {"box_scores"} >>

LastFlush == 6

(* The tables whose ids the fixture leaves to the sequence.                *)
Serials == {"players", "coaches", "games"}

(* The statements of each endpoint, each with its tables in locking order. *)
CompetitionById    == << <<"competitions">> >>
PlayerLookup       == << <<"players">> >>
CompetitionPage    == << <<"competitions">>, <<"competitions">> >>
GamePage           == << <<"games">>, <<"games">> >>
GameDetail         == << <<"games">>, <<"box_scores">> >>
TeamDetail         == << <<"teams">>, <<"seasons">>, <<"players", "rosters">>,
                         <<"games">>, <<"games">> >>
StandingsQuery     == << <<"games", "teams">> >>
LeaderboardQuery   == << <<"box_scores", "games", "competitions", "players">> >>

\* Variant: the stats query starts from games and joins box_scores.
StatsFromGames     == << <<"games", "box_scores">> >>
SeasonStatsQuery   == << <<"box_scores", "games">> >>

(* A connection keeps the statements it has prepared: core/db.py leaves the *)
(* driver's cache on.  PostgreSQL does not parse such a statement again and *)
(* locks the tables of its outer SELECT before those of its CTEs.  The two  *)
(* statements with CTEs are listed a second time in this order.             *)
StandingsAgain     == << <<"teams", "games">> >>
LeaderboardAgain   == << <<"players", "box_scores", "games", "competitions">> >>

Statements ==
    [ competitions |-> CompetitionPage, games |-> GamePage, game |-> GameDetail,
      team |-> TeamDetail,
      standings |-> StandingsQuery, standings_again |-> StandingsAgain,
      leaderboard |-> LeaderboardQuery, leaderboard_again |-> LeaderboardAgain,
      stats |-> SeasonStatsQuery,
      competition |-> CompetitionById, player |-> PlayerLookup ]

Endpoints == DOMAIN Statements

(* Endpoints that answer 404 as soon as their first statement finds nothing. *)
DetailEndpoints == {"game", "team"}

(* Requests address id 1; these endpoints look it up among sequence ids.   *)
KeyedBy == [ game |-> "games", stats |-> "players", player |-> "players" ]

Phases == {"check", "truncate", "flush", "seeded", "skipped",
           "lost", "crashed", "deadlocked", "integrity"}

Ended(l) == pc[l] \notin {"check", "truncate", "flush"}

Init ==
    /\ pc = [l \in Loaders |-> "check"]
    /\ flushed = [l \in Loaders |-> 0]
    /\ rows = [t \in Tables |-> {}]
    /\ serial = [s \in Serials |-> 0]
    /\ ids = [l \in Loaders |-> [s \in Serials |-> 0]]
    /\ shared = [t \in Tables |-> {}]
    /\ exclusive = [t \in Tables |-> NoOne]
    /\ request = [r \in Readers |-> "none"]
    /\ status = [r \in Readers |-> "idle"]
    /\ seen = [r \in Readers |-> << >>]

-----------------------------------------------------------------------------
(* Locks *)

CanShare(p, t)     == exclusive[t] \in {p, NoOne}
CanExclude(l, t)   == CanShare(l, t) /\ shared[t] \subseteq {l}

Share(p, t) ==
    /\ CanShare(p, t)
    /\ shared' = [shared EXCEPT ![t] = @ \cup {p}]
    /\ UNCHANGED exclusive

Holds(p, t) == p \in shared[t] \/ exclusive[t] = p

(* The end of a transaction gives up all its locks.                        *)
ReleaseLocks(p) ==
    /\ shared' = [t \in Tables |-> shared[t] \ {p}]
    /\ exclusive' = [t \in Tables |-> IF exclusive[t] = p THEN NoOne ELSE exclusive[t]]

-----------------------------------------------------------------------------
(* The seed loader *)

\* Variant: --force is looked at only after an unseeded check.
CheckBeforeForce(l) ==
    /\ pc[l] = "check"
    /\ CanShare(l, "seasons")
    /\ IF rows["seasons"] # {}
       THEN /\ pc' = [pc EXCEPT ![l] = "skipped"]
            /\ UNCHANGED lockVars
       ELSE /\ pc' = [pc EXCEPT ![l] = IF l \in Forced THEN "truncate" ELSE "flush"]
            /\ Share(l, "seasons")
    /\ UNCHANGED <<flushed, rows, serial, ids, readerVars>>

(* _is_already_seeded, and what seed() does with its answer before it next *)
(* waits.  A run with --force asks too, and so keeps a lock on seasons.    *)
Check(l) ==
    /\ pc[l] = "check"
    /\ CanShare(l, "seasons")
    /\ IF rows["seasons"] # {} /\ l \notin Forced
       THEN /\ pc' = [pc EXCEPT ![l] = "skipped"]
            /\ UNCHANGED lockVars
       ELSE /\ pc' = [pc EXCEPT ![l] = IF l \in Forced THEN "truncate" ELSE "flush"]
            /\ Share(l, "seasons")
    /\ UNCHANGED <<flushed, rows, serial, ids, readerVars>>

(* The next table TRUNCATE locks for l.                                    *)
NextToTruncate(l, t) ==
    \E i \in DOMAIN TruncateOrder :
        /\ t = TruncateOrder[i]
        /\ exclusive[t] # l
        /\ \A j \in 1..(i - 1) : exclusive[TruncateOrder[j]] = l

TruncateLock(l) ==
    /\ pc[l] = "truncate"
    /\ \E t \in Tables :
          /\ NextToTruncate(l, t)
          /\ CanExclude(l, t)
          /\ exclusive' = [exclusive EXCEPT ![t] = l]
    /\ UNCHANGED <<shared, loaderVars, readerVars>>

(* All tables are locked: they and their sequences are emptied, for l.     *)
Truncate(l) ==
    /\ pc[l] = "truncate"
    /\ \A i \in DOMAIN TruncateOrder : exclusive[TruncateOrder[i]] = l
    /\ pc' = [pc EXCEPT ![l] = "flush"]
    /\ UNCHANGED <<flushed, rows, serial, ids, lockVars, readerVars>>

\* Variant: the season's id is left to a sequence, and no key collides.
NoKeyInserters == {}

(* Loaders whose transaction has inserted season 1 and the two clubs.      *)
KeyInserters == {l \in Loaders : pc[l] = "flush" /\ flushed[l] > 0}

FlushLock(l, t) ==
    /\ pc[l] = "flush" /\ flushed[l] < LastFlush
    /\ t \in FlushTables[flushed[l] + 1]
    /\ ~Holds(l, t)
    /\ Share(l, t)
    /\ UNCHANGED <<loaderVars, readerVars>>

FlushReady(l) ==
    /\ pc[l] = "flush" /\ flushed[l] < LastFlush
    /\ \A t \in FlushTables[flushed[l] + 1] : Holds(l, t)

(* The sequences that give the rows of l's next flush their ids.           *)
Draws(l) == FlushTables[flushed[l] + 1] \cap Serials

(* The rows are written, unseen by others.  Writing season 1 first waits   *)
(* for every transaction that wrote it before.  Ids come from the sequence *)
(* at once and for good, except that after RESTART IDENTITY they come from *)
(* a sequence that is l's own until l commits.                             *)
Flush(l) ==
    /\ FlushReady(l)
    /\ flushed[l] = 0 => KeyInserters \ {l} = {} /\ (rows["seasons"] = {} \/ l \in Forced)
    /\ flushed' = [flushed EXCEPT ![l] = @ + 1]
    /\ IF l \in Forced
       THEN UNCHANGED <<serial, ids>>
       ELSE /\ ids' = [ids EXCEPT ![l] = [s \in Serials |->
                          IF s \in Draws(l) THEN serial[s] ELSE ids[l][s]]]
            /\ serial' = [s \in Serials |->
                             IF s \in Draws(l) THEN serial[s] + 1 ELSE serial[s]]
    /\ UNCHANGED <<pc, rows, lockVars, readerVars>>

(* Another loader committed season 1 after l's check.                      *)
Refuse(l) ==
    /\ FlushReady(l) /\ flushed[l] = 0
    /\ KeyInserters \ {l} = {} /\ rows["seasons"] # {} /\ l \notin Forced
    /\ pc' = [pc EXCEPT ![l] = "integrity"]
    /\ ReleaseLocks(l)
    /\ UNCHANGED <<flushed, rows, serial, ids, readerVars>>

\* Variant: the session stays open after the commit, with its locks.
CommitHolding(l) ==
    /\ pc[l] = "flush" /\ flushed[l] = LastFlush
    /\ pc' = [pc EXCEPT ![l] = "seeded"]
    /\ rows' = [t \in Tables |-> IF l \in Forced THEN {l} ELSE rows[t] \cup {l}]
    /\ UNCHANGED <<flushed, ids, serial, lockVars, readerVars>>

(* session.commit(); the connection may be lost before it is acknowledged. *)
Commit(l) ==
    /\ pc[l] = "flush" /\ flushed[l] = LastFlush
    /\ \E o \in {"seeded", "lost"} : pc' = [pc EXCEPT ![l] = o]
    /\ rows' = [t \in Tables |->
                   IF l \in Forced /\ \E i \in DOMAIN TruncateOrder : t = TruncateOrder[i]
                   THEN {l} ELSE rows[t] \cup {l}]
    /\ serial' = IF l \in Forced THEN [s \in Serials |-> 1] ELSE serial
    /\ ReleaseLocks(l)
    /\ UNCHANGED <<flushed, ids, readerVars>>

\* Variant: ids restarted by the TRUNCATE stay restarted after the rollback.
CrashRestarted(l) ==
    /\ ~Ended(l)
    /\ pc' = [pc EXCEPT ![l] = "crashed"]
    /\ serial' = IF l \in Forced /\ pc[l] = "flush" THEN [s \in Serials |-> 0] ELSE serial
    /\ ReleaseLocks(l)
    /\ UNCHANGED <<flushed, rows, ids, readerVars>>

\* Variant: a rollback is taken to give drawn ids back, drawn or not.
CrashReturning(l) ==
    /\ ~Ended(l)
    /\ pc' = [pc EXCEPT ![l] = "crashed"]
    /\ serial' = [s \in Serials |-> serial[s] - 1]
    /\ ReleaseLocks(l)
    /\ UNCHANGED <<flushed, rows, ids, readerVars>>

(* The process or its connection dies: the transaction is rolled back, and *)
(* with it a RESTART IDENTITY, but not the drawing of ids.                 *)
Crash(l) ==
    /\ ~Ended(l)
    /\ pc' = [pc EXCEPT ![l] = "crashed"]
    /\ ReleaseLocks(l)
    /\ UNCHANGED <<flushed, rows, serial, ids, readerVars>>

-----------------------------------------------------------------------------
(* The read API *)

(* A request comes in; its session has no transaction yet.                 *)
Ask(r, e) ==
    /\ status[r] = "idle"
    /\ request' = [request EXCEPT ![r] = e]
    /\ status' = [status EXCEPT ![r] = "open"]
    /\ UNCHANGED <<seen, loaderVars, lockVars>>

(* A detail endpoint that has found nothing runs no further statement.     *)
NotFound(r) == request[r] \in DetailEndpoints /\ seen[r] = <<{}>>

MoreToRun(r) ==
    /\ status[r] = "open"
    /\ Len(seen[r]) < Len(Statements[request[r]])
    /\ ~NotFound(r)

Statement(r) == Statements[request[r]][Len(seen[r]) + 1]

(* The next table the current statement of r locks.                        *)
NextToRead(r, t) ==
    \E i \in DOMAIN Statement(r) :
        /\ t = Statement(r)[i]
        /\ ~Holds(r, t)
        /\ \A j \in 1..(i - 1) : Holds(r, Statement(r)[j])

ReadLock(r) ==
    /\ MoreToRun(r)
    /\ \E t \in Tables : NextToRead(r, t) /\ Share(r, t)
    /\ UNCHANGED <<loaderVars, readerVars>>

(* A fixture is found when its rows are there and have the id asked for.   *)
Matches(e, l) == e \in DOMAIN KeyedBy => ids[l][KeyedBy[e]] = 0

Found(e, stmt) ==
    {l \in Loaders : Matches(e, l) /\ \A i \in DOMAIN stmt : l \in rows[stmt[i]]}

\* Variant: every statement is a transaction of its own (autocommit).
ExecuteAutocommit(r) ==
    /\ MoreToRun(r)
    /\ \A i \in DOMAIN Statement(r) : Holds(r, Statement(r)[i])
    /\ seen' = [seen EXCEPT ![r] = Append(@, Found(request[r], Statement(r)))]
    /\ ReleaseLocks(r)
    /\ UNCHANGED <<request, status, loaderVars>>

(* Holding its locks, the statement runs on a snapshot of what is committed. *)
Execute(r) ==
    /\ MoreToRun(r)
    /\ \A i \in DOMAIN Statement(r) : Holds(r, Statement(r)[i])
    /\ seen' = [seen EXCEPT ![r] = Append(@, Found(request[r], Statement(r)))]
    /\ UNCHANGED <<request, status, loaderVars, lockVars>>

(* The response is built and sent; the session is closed only after that.  *)
Respond(r) ==
    /\ status[r] = "open" /\ ~MoreToRun(r)
    /\ status' = [status EXCEPT ![r] = "answered"]
    /\ UNCHANGED <<request, seen, loaderVars, lockVars>>

\* Variant: get_db() without its finally clause leaves the session open.
CloseLeaking(r) ==
    /\ status[r] = "answered"
    /\ status' = [status EXCEPT ![r] = "closed"]
    /\ UNCHANGED <<request, seen, loaderVars, lockVars>>

Close(r) ==
    /\ status[r] = "answered"
    /\ status' = [status EXCEPT ![r] = "closed"]
    /\ ReleaseLocks(r)
    /\ UNCHANGED <<request, seen, loaderVars>>

-----------------------------------------------------------------------------
(* The deadlock detector *)

(* The processes p waits for.                                              *)
Blockers(p) ==
    { q \in Procs \ {p} :
        \/ /\ p \in Readers /\ MoreToRun(p)
           /\ \E t \in Tables : NextToRead(p, t) /\ exclusive[t] = q
        \/ /\ p \in Loaders /\ pc[p] = "truncate"
           /\ \E t \in Tables : NextToTruncate(p, t) /\ Holds(q, t)
        \/ /\ p \in Loaders /\ pc[p] = "flush" /\ flushed[p] < LastFlush
           /\ \E t \in FlushTables[flushed[p] + 1] : ~Holds(p, t) /\ exclusive[t] = q
        \/ /\ p \in Loaders /\ FlushReady(p) /\ flushed[p] = 0
           /\ q \in KeyInserters }

(* p waits for itself: every set that has whom p waits for, and whom its   *)
(* members wait for, has p.                                                *)
InCycle(p) ==
    /\ Blockers(p) # {}
    /\ \A S \in SUBSET Procs :
          Blockers(p) \subseteq S /\ (\A q \in S : Blockers(q) \subseteq S) => p \in S

AbortLoader(l) ==
    /\ pc[l] \in {"truncate", "flush"} /\ InCycle(l)
    /\ pc' = [pc EXCEPT ![l] = "deadlocked"]
    /\ ReleaseLocks(l)
    /\ UNCHANGED <<flushed, rows, serial, ids, readerVars>>

AbortReader(r) ==
    /\ status[r] = "open" /\ InCycle(r)
    /\ status' = [status EXCEPT ![r] = "failed"]
    /\ ReleaseLocks(r)
    /\ UNCHANGED <<request, seen, loaderVars>>

-----------------------------------------------------------------------------

LoaderStep(l) ==
    \/ Check(l) \/ TruncateLock(l) \/ Truncate(l)
    \/ \E t \in Tables : FlushLock(l, t)
    \/ Flush(l) \/ Refuse(l) \/ Commit(l) \/ AbortLoader(l)

Arrive(r) == \E e \in Endpoints \cap Requested : Ask(r, e)

ReaderStep(r) == ReadLock(r) \/ Execute(r) \/ Respond(r) \/ Close(r) \/ AbortReader(r)

Next ==
    \/ \E l \in Loaders : LoaderStep(l) \/ Crash(l)
    \/ \E r \in Readers : ReaderStep(r) \/ Arrive(r)

Spec == Init /\ [][Next]_vars

(* Started processes keep running and the detector keeps looking; nobody   *)
(* has to send a request, and nothing has to crash.                        *)
FairSpec ==
    /\ Spec
    /\ \A l \in Loaders : WF_vars(LoaderStep(l))
    /\ \A r \in Readers : WF_vars(ReaderStep(r))

-----------------------------------------------------------------------------
(* Properties *)

(* The types of the state of seed() and of the requests.                   *)
TypeOK ==
    /\ pc \in [Loaders -> Phases]
    /\ flushed \in [Loaders -> 0..LastFlush]
    /\ rows \in [Tables -> SUBSET Loaders]
    /\ serial \in [Serials -> Nat]
    /\ ids \in [Loaders -> [Serials -> Nat]]
    /\ shared \in [Tables -> SUBSET Procs]
    /\ exclusive \in [Tables -> Loaders \cup {NoOne}]
    /\ request \in [Readers -> Endpoints \cup {"none"}]
    /\ status \in [Readers -> {"idle", "open", "answered", "failed", "closed"}]
    /\ seen \in [Readers -> Seq(SUBSET Loaders)]

(* However loaders race, crash and are aborted, the ten tables hold rows   *)
(* of one and the same fixture, or none of any: seed() never leaves half a *)
(* fixture, nor two, nor one whose rows mix two runs.                      *)
OneFixture ==
    \A t, u \in Tables : rows[t] = rows[u] /\ \A l, k \in rows[t] : l = k

(* What one statement of a request has found, its later statements find    *)
(* too, whatever is re-seeded meanwhile: a game comes with the box scores, *)
(* and a team with the roster, of the very fixture it belongs to, and a    *)
(* page of rows never comes with a smaller X-Total-Count.                  *)
AnswersFromOneFixture ==
    \A r \in Readers : \A i, j \in DOMAIN seen[r] :
        i < j /\ seen[r][i] # {} => seen[r][j] = seen[r][i]

(* Where tables are locked against the order of the TRUNCATE.              *)
AgainstTruncate == {"game", "team", "standings_again", "leaderboard_again"}

(* A re-seed costs no list, lookup by id or season stats its answer: they  *)
(* only ever wait, and so do standings and leaderboards the first time a   *)
(* connection runs them.  Only the details, and standings and leaderboards *)
(* from a prepared statement, may be the victim of a deadlock with it.     *)
ListsOnlyWait ==
    \A r \in Readers : status[r] = "failed" => request[r] \in AgainstTruncate

(* The ids of stored rows are behind their sequence, also after a          *)
(* RESTART IDENTITY or its rollback: the next insert draws a free id.      *)
SerialsAhead ==
    \A t \in Tables : \A l \in rows[t] : \A s \in Serials : ids[l][s] < serial[s]

(* Every started seed run ends, deadlocks included.                        *)
SeedEnds == \A l \in Loaders : <>Ended(l)

(* Every request is answered, also one that waits behind a TRUNCATE.       *)
RequestsEnd ==
    \A r \in Readers : status[r] = "open" ~> status[r] \in {"failed", "closed"}

(* "Idempotent loader": a run never ends in an error of its own making.    *)
Idempotent == \A l \in Loaders : pc[l] # "integrity"

(* A run that loads the fixture gives it the ids 1..12 and the game id 1   *)
(* that the smoke test asks for.                                           *)
FirstIds == \A l \in Loaders : pc[l] = "seeded" => \A s \in Serials : ids[l][s] = 0

-----------------------------------------------------------------------------
(* The loader and the requests implement the store of FixtureStore.        *)

OutcomeOf(p) ==
    CASE p \in {"check", "truncate", "flush"} -> "running"
      [] p \in {"seeded", "skipped"}          -> p
      [] OTHER                                -> "failed"

AnswerOf(r) ==
    CASE status[r] \in {"answered", "closed"} ->
            [status |-> "answered", rows |-> Head(seen[r]), rest |-> seen[r][Len(seen[r])]]
      [] status[r] = "failed" -> [status |-> "failed", rows |-> {}, rest |-> {}]
      [] OTHER                -> [status |-> "none", rows |-> {}, rest |-> {}]

Store == INSTANCE FixtureStore WITH
            store   <- rows["seasons"],
            outcome <- [l \in Loaders |-> OutcomeOf(pc[l])],
            answer  <- [r \in Readers |-> AnswerOf(r)]

(* Every step of the loaders and the requests is a step of the atomic      *)
(* store, or none.                                                         *)
ImplementsStore == Store!StoreSpec
=============================================================================
