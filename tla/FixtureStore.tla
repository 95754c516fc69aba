---------------------------- MODULE FixtureStore ----------------------------
(***************************************************************************)
(* What the seed loader and the read API promise each other, without the   *)
(* database: one store that holds at most one fixture, loaders that fill   *)
(* or replace it in one step, and requests answered from it in one step.   *)
(* SeedLoader.tla, where every statement, lock and flush is a step of its  *)
(* own, implements this specification.                                     *)
(***************************************************************************)
CONSTANTS Loaders,   \* runs of `python -m basketball_stats.seed.minimal`
          Forced,    \* the runs given --force, a subset of Loaders
          Readers    \* HTTP requests of the read API

VARIABLES store,     \* the loader whose fixture is stored, as a set of at most one
          outcome,   \* [Loaders -> Outcomes]
          answer     \* [Readers -> what the response was built from]

storeVars == <<store, outcome, answer>>

Outcomes == {"running", "seeded", "skipped", "failed"}

NoAnswer == [status |-> "none", rows |-> {}, rest |-> {}]

StoreInit ==
    /\ store = {}
    /\ outcome = [l \in Loaders |-> "running"]
    /\ answer = [r \in Readers |-> NoAnswer]

(* A loader fills an empty store, or replaces what is there under --force. *)
(* The acknowledgement of the commit may be lost: then the run reports a   *)
(* failure although the fixture is stored.                                 *)
Load(l) ==
    /\ outcome[l] = "running"
    /\ store = {} \/ l \in Forced
    /\ store' = {l}
    /\ \E o \in {"seeded", "failed"} : outcome' = [outcome EXCEPT ![l] = o]
    /\ UNCHANGED answer

(* Only a run without --force that finds a fixture stands back.            *)
Skip(l) ==
    /\ outcome[l] = "running"
    /\ store # {} /\ l \notin Forced
    /\ outcome' = [outcome EXCEPT ![l] = "skipped"]
    /\ UNCHANGED <<store, answer>>

(* A run that fails leaves the store alone.                                *)
Fail(l) ==
    /\ outcome[l] = "running"
    /\ outcome' = [outcome EXCEPT ![l] = "failed"]
    /\ UNCHANGED <<store, answer>>

(* `rows` is what the first query found and `rest` what the last one found. *)
(* Whatever is found is the fixture stored now, whole.  Nothing need be     *)
(* found: the fixture may have other ids than the one asked for, and a page *)
(* that found no rows may come with the total of one stored meanwhile.      *)
Answer(r) ==
    /\ answer[r] = NoAnswer
    /\ \E rows \in {{}, store}, rest \in {{}, store} :
          /\ rows # {} => rest = rows
          /\ answer' = [answer EXCEPT ![r] =
                           [status |-> "answered", rows |-> rows, rest |-> rest]]
    /\ UNCHANGED <<store, outcome>>

(* A request the database aborts is answered with an error.                *)
Reject(r) ==
    /\ answer[r] = NoAnswer
    /\ answer' = [answer EXCEPT ![r] = [NoAnswer EXCEPT !.status = "failed"]]
    /\ UNCHANGED <<store, outcome>>

StoreNext ==
    \/ \E l \in Loaders : Load(l) \/ Skip(l) \/ Fail(l)
    \/ \E r \in Readers : Answer(r) \/ Reject(r)

StoreSpec == StoreInit /\ [][StoreNext]_storeVars
=============================================================================
