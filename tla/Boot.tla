-------------------------------- MODULE Boot --------------------------------
(***************************************************************************)
(* Containers that boot: alembic upgrade head, and uvicorn if that exits   *)
(* with 0 (Dockerfile), each in one transaction (migrations/env.py) over a *)
(* database that several of them share.  Or, on a database of its own, the *)
(* CI job that upgrades, downgrades and upgrades again.                    *)
(*                                                                         *)
(* The rows of alembic_version are objects of the schema like its tables:  *)
(* whoever writes one makes the next writer of the same one wait.          *)
(***************************************************************************)
EXTENDS DatabaseUrl, Naturals, SequencesExt

CONSTANTS Boots, Checks, MaxCrashes, UrlsTried

\* The CI job has its database to itself (services: postgres in ci.yml).
ASSUME BootAssumption ==
  /\ Boots \cap Checks = {} /\ \A c, d \in Checks : c = d
  /\ MaxCrashes \in Nat /\ UrlsTried \subseteq Urls

Processes == Boots \cup Checks

VARIABLES
  url,       \* DATABASE_URL_DIRECT
  catalog,   \* committed objects
  pc,        \* where the process is
  command,   \* which of its commands it runs
  todo,      \* statements its migration still has to run
  created,   \* objects of its open transaction
  dropped,
  crashes

vars == <<url, catalog, pc, command, todo, created, dropped, crashes>>

-----------------------------------------------------------------------------
(* The schema. *)

Tables == <<"clubs", "seasons", "competitions", "teams", "players", "coaches",
            "rosters", "coaching_assignments", "games", "box_scores">>

Indexes == <<"ix_games_competition_id", "ix_box_scores_player_lookup",
             "ix_games_date_competition", "ix_box_scores_val_desc">>

\* What an object refers to: foreign keys, its type, its table.
Refers(o) ==
  CASE o = "competitions" -> {"seasons", "competition_phase"}
    [] o = "teams" -> {"clubs"}
    [] o = "rosters" -> {"players", "teams", "seasons"}
    [] o = "coaching_assignments" -> {"coaches", "teams", "seasons"}
    [] o = "games" -> {"competitions", "teams"}
    [] o = "box_scores" -> {"games", "players", "teams"}
    [] o \in {"ix_games_competition_id", "ix_games_date_competition"} -> {"games"}
    [] o \in {"ix_box_scores_player_lookup", "ix_box_scores_val_desc"} -> {"box_scores"}
    [] o \in {"0001", "0002"} -> {"alembic_version"}
    [] OTHER -> {}

Entities == {"competition_phase"} \cup ToSet(Tables) \cup ToSet(Indexes)

\* The schema at each revision.
Versioned(v) ==
  CASE v = "base" -> {"alembic_version"}
    [] v = "0001" -> {"alembic_version", "0001"}
    [] v = "0002" -> {"alembic_version", "0002"} \cup Entities

Revisions == {"base", "0001", "0002"}

Objects == UNION {Versioned(v) : v \in Revisions}

-----------------------------------------------------------------------------
(* The statements of the migrations. *)

Statement(make, drop, checkfirst) == [make |-> make, drop |-> drop, checkfirst |-> checkfirst]

Each(objects, Of(_)) == [i \in DOMAIN objects |-> Of(objects[i])]

Create(o)   == Statement({o}, {}, FALSE)
Drop(o)     == Statement({}, {o}, FALSE)
Stamp(from, to) == Statement(to, from, FALSE)

\* The version table, made if it is missing, and revision 0001, which is empty.
UpgradeBaseline ==
  <<Statement({"alembic_version"}, {}, TRUE), Stamp({}, {"0001"})>>

upgrade ==
  <<Statement({"competition_phase"}, {}, TRUE)>>
    \o Each(Tables, Create) \o Each(Indexes, Create)
    \o <<Stamp({"0001"}, {"0002"})>>

\* Variant: the tables are dropped in the order in which they were created.
DowngradeForward ==
  Each(Reverse(Indexes), Drop) \o Each(Tables, Drop)
    \o <<Statement({}, {"competition_phase"}, TRUE), Stamp({"0002"}, {"0001"})>>

downgrade ==
  Each(Reverse(Indexes), Drop) \o Each(Reverse(Tables), Drop)
    \o <<Statement({}, {"competition_phase"}, TRUE), Stamp({"0002"}, {"0001"})>>

Revision == IF "0002" \in catalog THEN "0002" ELSE IF "0001" \in catalog THEN "0001" ELSE "base"

Migrations(c) ==
  CASE c = "upgrade" /\ Revision = "base" -> UpgradeBaseline \o upgrade
    [] c = "upgrade" /\ Revision = "0001" -> upgrade
    [] c = "downgrade" /\ Revision = "0002" -> downgrade \o <<Stamp({"0001"}, {})>>
    [] c = "downgrade" /\ Revision = "0001" -> <<Stamp({"0001"}, {})>>
    [] OTHER -> <<>>

-----------------------------------------------------------------------------
Commands(p) ==
  IF p \in Boots THEN <<"upgrade", "serve">> ELSE <<"upgrade", "downgrade", "upgrade">>

\* A database starts with the schema of some revision, or with nothing.
Init ==
  /\ url \in UrlsTried
  /\ \E running \in {Boots, Checks} :
       /\ pc = [p \in Processes |-> IF p \in running THEN "start" ELSE "elsewhere"]
       /\ catalog \in IF running = Boots THEN {{}} \cup {Versioned(v) : v \in Revisions} ELSE {{}}
  /\ command = [p \in Processes |-> 1]
  /\ todo = [p \in Processes |-> <<>>]
  /\ created = [p \in Processes |-> {}]
  /\ dropped = [p \in Processes |-> {}]
  /\ crashes = 0

\* What the transaction of p sees.
Seen(p) == (catalog \cup created[p]) \ dropped[p]

\* The statement that is next, and what keeps it waiting.
Next1(p) == todo[p][1]
Waits(p) == \E q \in Processes \ {p} : Next1(p).make \cap created[q] # {}

Start(p) ==
  /\ pc[p] = "start" /\ Commands(p)[command[p]] # "serve"
  /\ LET asyncpgUrl == to_asyncpg_url(url) IN
       pc' = [pc EXCEPT ![p] = IF SetMainOption(asyncpgUrl) /\ Connects(asyncpgUrl)
                                 THEN "connected" ELSE "failed"]
  /\ UNCHANGED <<url, catalog, command, todo, created, dropped, crashes>>

ReadHead(p) ==
  /\ pc[p] = "connected"
  /\ todo' = [todo EXCEPT ![p] = Migrations(Commands(p)[command[p]])]
  /\ pc' = [pc EXCEPT ![p] = "migrating"]
  /\ UNCHANGED <<url, catalog, command, created, dropped, crashes>>

CheckFirst(p) ==
  /\ pc[p] = "migrating" /\ todo[p] # <<>> /\ Next1(p).checkfirst
  /\ IF Next1(p).make \cap Seen(p) = {} /\ Next1(p).drop \subseteq Seen(p)
       THEN pc' = [pc EXCEPT ![p] = "checked"] /\ UNCHANGED todo
       ELSE todo' = [todo EXCEPT ![p] = Tail(@)] /\ UNCHANGED pc
  /\ UNCHANGED <<url, catalog, command, created, dropped, crashes>>

AboutToRun(p) ==
  /\ \/ pc[p] = "checked"
     \/ pc[p] = "migrating" /\ todo[p] # <<>> /\ ~ Next1(p).checkfirst
  /\ ~ Waits(p)

\* Nothing is made twice or without what it refers to, nothing dropped that is
\* referred to.
Succeeds(p) ==
  LET after == (Seen(p) \cup Next1(p).make) \ Next1(p).drop IN
  /\ Next1(p).make \cap Seen(p) = {}
  /\ Next1(p).drop \subseteq Seen(p)
  /\ \A o \in after : Refers(o) \subseteq after

\* Variant: without a transaction, what is done is done.
ExecuteAutocommit(p) ==
  /\ AboutToRun(p) /\ Succeeds(p)
  /\ catalog' = (catalog \cup Next1(p).make) \ Next1(p).drop
  /\ todo' = [todo EXCEPT ![p] = Tail(@)]
  /\ pc' = [pc EXCEPT ![p] = "migrating"]
  /\ UNCHANGED <<url, command, created, dropped, crashes>>

Execute(p) ==
  /\ AboutToRun(p) /\ Succeeds(p)
  /\ created' = [created EXCEPT ![p] = (@ \cup Next1(p).make) \ Next1(p).drop]
  /\ dropped' = [dropped EXCEPT ![p] = @ \cup Next1(p).drop]
  /\ todo' = [todo EXCEPT ![p] = Tail(@)]
  /\ pc' = [pc EXCEPT ![p] = "migrating"]
  /\ UNCHANGED <<url, catalog, command, crashes>>

\* The end of p's process, or of its transaction: what is not committed is gone.
Stop(p, how) ==
  /\ pc' = [pc EXCEPT ![p] = how]
  /\ todo' = [todo EXCEPT ![p] = <<>>]
  /\ created' = [created EXCEPT ![p] = {}]
  /\ dropped' = [dropped EXCEPT ![p] = {}]

\* Variant: the connection outlives the error.
ExecuteFailsHolding(p) ==
  /\ AboutToRun(p) /\ ~ Succeeds(p)
  /\ pc' = [pc EXCEPT ![p] = "failed"]
  /\ todo' = [todo EXCEPT ![p] = <<>>]
  /\ UNCHANGED <<url, catalog, command, created, dropped, crashes>>

ExecuteFails(p) ==
  /\ AboutToRun(p) /\ ~ Succeeds(p)
  /\ Stop(p, "failed")
  /\ UNCHANGED <<url, catalog, command, crashes>>

\* The answer to a commit may not arrive.
Commit(p) ==
  /\ pc[p] = "migrating" /\ todo[p] = <<>>
  /\ catalog' = Seen(p)
  /\ IF command[p] < Len(Commands(p))
       THEN /\ command' = [command EXCEPT ![p] = @ + 1]
            /\ Stop(p, "start")
       ELSE UNCHANGED command /\ Stop(p, "done")
  /\ UNCHANGED <<url, crashes>>

CommitUnheard(p) ==
  /\ pc[p] = "migrating" /\ todo[p] = <<>>
  /\ crashes < MaxCrashes
  /\ crashes' = crashes + 1
  /\ catalog' = Seen(p)
  /\ Stop(p, "crashed")
  /\ UNCHANGED <<url, command>>

\* Variant: uvicorn is started after alembic, whatever alembic says.
ServeAnyway(p) ==
  /\ p \in Boots
  /\ \/ pc[p] = "start" /\ Commands(p)[command[p]] = "serve"
     \/ pc[p] = "failed"
  /\ pc' = [pc EXCEPT ![p] = "serving"]
  /\ UNCHANGED <<url, catalog, command, todo, created, dropped, crashes>>

Serve(p) ==
  /\ pc[p] = "start" /\ Commands(p)[command[p]] = "serve"
  /\ pc' = [pc EXCEPT ![p] = "serving"]
  /\ UNCHANGED <<url, catalog, command, todo, created, dropped, crashes>>

Crash(p) ==
  /\ crashes < MaxCrashes
  /\ pc[p] \in {"start", "connected", "migrating", "checked", "serving"}
  /\ crashes' = crashes + 1
  /\ Stop(p, "crashed")
  /\ UNCHANGED <<url, catalog, command>>

\* The platform starts a container that has exited again.
Restart(p) ==
  /\ p \in Boots
  /\ pc[p] \in {"failed", "crashed"}
  /\ pc' = [pc EXCEPT ![p] = "start"]
  /\ command' = [command EXCEPT ![p] = 1]
  /\ UNCHANGED <<url, catalog, todo, created, dropped, crashes>>

Step(p) ==
  \/ Start(p) \/ ReadHead(p) \/ CheckFirst(p) \/ Execute(p) \/ ExecuteFails(p)
  \/ Commit(p) \/ Serve(p) \/ Restart(p)

Next == \E p \in Processes : Step(p) \/ Crash(p) \/ CommitUnheard(p)

Spec == Init /\ [][Next]_vars

\* Processes run and the platform restarts containers.
FairSpec == Spec /\ \A p \in Processes : WF_vars(Step(p))

-----------------------------------------------------------------------------
(* Properties. *)

\* The state has its type, and only a process in a transaction has objects that
\* are not committed.
TypeOK ==
  /\ url \in UrlsTried
  /\ catalog \subseteq Objects
  /\ pc \in [Processes -> {"elsewhere", "start", "connected", "migrating", "checked",
                           "failed", "crashed", "serving", "done"}]
  /\ \A p \in Processes :
       /\ command[p] \in DOMAIN Commands(p)
       /\ created[p] \cup dropped[p] \subseteq Objects
       /\ pc[p] \notin {"migrating", "checked"} =>
            created[p] = {} /\ dropped[p] = {} /\ todo[p] = <<>>
  /\ crashes \in 0..MaxCrashes

\* However boots race, crash and fail, the committed schema is, whole, the one of
\* the revision that alembic_version names: nobody has to clean up by hand.
SchemaIsItsVersion == catalog \in {{}} \cup {Versioned(v) : v \in Revisions}

\* The API never runs over a schema that is not at head (&& in the Dockerfile).
ServesOnlyMigrated ==
  \A p \in Processes : pc[p] = "serving" => catalog = Versioned("0002")

\* A boot with a dashboard URL fails only in a race that another has won: the next
\* try finds the schema at head ("alembic exits 0 when already at head").
FailuresAreRaces ==
  url \in NeonUrls =>
    \A p \in Boots : pc[p] = "failed" => catalog = Versioned("0002")

\* Alone on a database, upgrade, downgrade and upgrade find every object they
\* refer to and leave none that the next one stumbles over.
RoundTrips ==
  url \in NeonUrls => \A p \in Checks : pc[p] # "failed"

\* Containers booting together end up serving, all of them, with a dashboard URL.
BootsServe ==
  url \in NeonUrls /\ (\E p \in Boots : pc[p] = "start")
    => <>[](\A p \in Boots : pc[p] = "serving")
=============================================================================
