-------------------------- MODULE SeedLoader_proofs --------------------------
(* What holds of SeedLoader for any number of loaders and requests.        *)
EXTENDS SeedLoader, TLAPS

(* What one request may have found so far of what is stored now.           *)
Present(e) == {l \in rows["seasons"] : Matches(e, l)}

(* ACCESS EXCLUSIVE is held alone, and only by runs with --force.          *)
LocksInv ==
    \A t \in Tables : \A l \in Loaders :
        exclusive[t] = l => l \in Forced /\ shared[t] \subseteq {l}

(* The stages of a loader's transaction and what each has locked.          *)
StagesInv ==
    \A l \in Loaders :
        /\ pc[l] \in {"check", "truncate"} => flushed[l] = 0
        /\ pc[l] \in {"truncate", "flush"} => l \in shared["seasons"]
        /\ pc[l] = "truncate" => l \in Forced
        /\ pc[l] = "flush" /\ l \in Forced => \A t \in Tables : exclusive[t] = l

(* At most one open transaction has written season 1; without --force it   *)
(* has done so over empty tables, and they have stayed empty.              *)
KeyInv ==
    /\ \A l, k \in KeyInserters : l = k
    /\ \A l \in KeyInserters : l \notin Forced => \A t \in Tables : rows[t] = {}

(* Stored rows were written by a loader that is done.                      *)
StoredInv == \A t \in Tables : \A l \in rows[t] : Ended(l)

(* A request that has found a fixture holds a lock, and the fixture is     *)
(* still there.                                                            *)
RequestsInv ==
    \A r \in Readers :
        /\ status[r] = "idle" => seen[r] = << >>
        /\ status[r] # "idle" => request[r] \in Endpoints
        /\ status[r] \in {"open", "answered"} =>
              \A i \in DOMAIN seen[r] : seen[r][i] # {} =>
                 /\ \E t \in Tables : r \in shared[t]
                 /\ seen[r][i] = Present(request[r])

(* An open transaction has the ids of the flushes it has done from a        *)
(* sequence that has moved past them; a run with --force has the first ids. *)
DrawnInv ==
    \A l \in Loaders : \A s \in Serials :
        /\ l \in Forced => ids[l][s] = 0
        /\ l \in KeyInserters \ Forced /\ (\E n \in 1..flushed[l] : s \in FlushTables[n])
              => ids[l][s] < serial[s]

(* TRUNCATE has locked a first part of its list.                           *)
PrefixInv ==
    \A l \in Loaders : \A i, j \in DOMAIN TruncateOrder :
        j < i /\ exclusive[TruncateOrder[i]] = l => exclusive[TruncateOrder[j]] = l

FirstTable(e) == Statements[e][1][1]

(* An open request that has locked anything has locked its first table.    *)
FirstOK(r) ==
    /\ status[r] \notin {"open", "answered"} => \A t \in Tables : r \notin shared[t]
    /\ status[r] \in {"open", "answered"} /\ (seen[r] # << >> \/ \E t \in Tables : r \in shared[t])
          => r \in shared[FirstTable(request[r])]

OrderInv == PrefixInv /\ \A r \in Readers : FirstOK(r)

LoaderIInv == TypeOK /\ LocksInv /\ StagesInv /\ KeyInv /\ StoredInv /\ OneFixture

SerialsInv == DrawnInv /\ SerialsAhead

IInv == LoaderIInv /\ SerialsInv /\ OrderInv /\ RequestsInv /\ AnswersFromOneFixture

-----------------------------------------------------------------------------
(* Facts about the constants of the code. *)

(* The TRUNCATE names every table.                                         *)
LEMMA TruncateCovers == \A t \in Tables : \E i \in DOMAIN TruncateOrder : t = TruncateOrder[i]
BY DEF Tables, TruncateOrder

(* Every statement of every endpoint reads one table at least.             *)
LEMMA StatementsType ==
    \A e \in Endpoints : Statements[e] \in Seq(Seq(Tables) \ {<< >>})
<1> DEFINE Stmts == Seq(Tables) \ {<< >>}
<1>1. CompetitionPage \in Seq(Stmts)  BY DEF CompetitionPage, Tables
<1>2. GamePage \in Seq(Stmts)         BY DEF GamePage, Tables
<1>3. GameDetail \in Seq(Stmts)       BY DEF GameDetail, Tables
<1>4. TeamDetail \in Seq(Stmts)       BY DEF TeamDetail, Tables
<1>5. StandingsQuery \in Seq(Stmts)   BY DEF StandingsQuery, Tables
<1>6. LeaderboardQuery \in Seq(Stmts) BY DEF LeaderboardQuery, Tables
<1>7. SeasonStatsQuery \in Seq(Stmts) BY DEF SeasonStatsQuery, Tables
<1>8. CompetitionById \in Seq(Stmts)  BY DEF CompetitionById, Tables
<1>9. PlayerLookup \in Seq(Stmts)     BY DEF PlayerLookup, Tables
<1>10. StandingsAgain \in Seq(Stmts)  BY DEF StandingsAgain, Tables
<1>11. LeaderboardAgain \in Seq(Stmts) BY DEF LeaderboardAgain, Tables
<1> HIDE DEF Stmts
<1>12. \A e \in Endpoints : Statements[e] \in Seq(Stmts)
  BY <1>1, <1>2, <1>3, <1>4, <1>5, <1>6, <1>7, <1>8, <1>9, <1>10, <1>11
  DEF Endpoints, Statements
<1>13. QED BY <1>12 DEF Stmts

(* A flush inserts into tables of the schema.                              *)
LEMMA FlushTablesType ==
    \A n \in 0..LastFlush : n < LastFlush => FlushTables[n + 1] \subseteq Tables
BY DEF FlushTables, Tables, LastFlush

(* A request never holds a table exclusively.                              *)
LEMMA ReadersOnlyShare ==
    ASSUME TypeOK, NEW r \in Readers, NEW t \in Tables
    PROVE  Holds(r, t) => r \in shared[t]
BY LoaderAssumption DEF TypeOK, Holds

-----------------------------------------------------------------------------
(* Type correctness *)

LEMMA TypeInit == Init => TypeOK
BY LoaderAssumption DEF Init, TypeOK, Phases, LastFlush

(* A flush counts itself and draws natural numbers for ids.                *)
LEMMA TypeFlush == ASSUME TypeOK, NEW l \in Loaders, Flush(l) PROVE TypeOK'
<1>1. flushed' \in [Loaders -> 0..LastFlush]
  <2>1. flushed \in [Loaders -> 0..LastFlush]  BY DEF TypeOK
  <2>2. flushed[l] < LastFlush  BY DEF Flush, FlushReady
  <2>3. flushed' = [flushed EXCEPT ![l] = flushed[l] + 1]  BY DEF Flush
  <2>4. flushed[l] + 1 \in 0..LastFlush  BY <2>1, <2>2 DEF LastFlush
  <2>5. QED BY <2>1, <2>3, <2>4
<1>2. serial' \in [Serials -> Nat] /\ ids' \in [Loaders -> [Serials -> Nat]]
  <2>1. serial \in [Serials -> Nat] /\ ids \in [Loaders -> [Serials -> Nat]]
    BY DEF TypeOK
  <2>2. CASE l \in Forced  BY <2>1, <2>2 DEF Flush
  <2>3. CASE l \notin Forced
    <3>1. /\ ids' = [ids EXCEPT ![l] = [s \in Serials |->
                       IF s \in Draws(l) THEN serial[s] ELSE ids[l][s]]]
          /\ serial' = [s \in Serials |->
                          IF s \in Draws(l) THEN serial[s] + 1 ELSE serial[s]]
      BY <2>3 DEF Flush
    <3>2. [s \in Serials |-> IF s \in Draws(l) THEN serial[s] ELSE ids[l][s]]
             \in [Serials -> Nat]
      BY <2>1
    <3>3. [s \in Serials |-> IF s \in Draws(l) THEN serial[s] + 1 ELSE serial[s]]
             \in [Serials -> Nat]
      BY <2>1
    <3>4. QED BY <2>1, <3>1, <3>2, <3>3
  <2>4. QED BY <2>2, <2>3
<1>3. UNCHANGED <<pc, rows, lockVars, readerVars>>  BY DEF Flush
<1>4. QED BY <1>1, <1>2, <1>3 DEF TypeOK, lockVars, readerVars, Procs

LEMMA TypeLoader ==
    ASSUME TypeOK, NEW l \in Loaders, LoaderStep(l) \/ Crash(l)
    PROVE  TypeOK'
<1> USE DEF TypeOK, loaderVars, readerVars, lockVars, Procs, Phases
<1>1. CASE Check(l)
  <2>1. "seasons" \in Tables  BY DEF Tables
  <2>2. CASE rows["seasons"] # {} /\ l \notin Forced  BY <1>1, <2>2 DEF Check
  <2>3. CASE ~(rows["seasons"] # {} /\ l \notin Forced)
    <3>1. pc' \in [Loaders -> Phases]  BY <1>1, <2>3 DEF Check
    <3>2. shared' = [shared EXCEPT !["seasons"] = @ \cup {l}] /\ exclusive' = exclusive
      BY <1>1, <2>3 DEF Check, Share
    <3>3. shared' \in [Tables -> SUBSET Procs]  BY <2>1, <3>2
    <3>4. QED BY <1>1, <3>1, <3>2, <3>3 DEF Check
  <2>4. QED BY <2>2, <2>3
<1>2. CASE TruncateLock(l) BY <1>2 DEF TruncateLock
<1>3. CASE Truncate(l)     BY <1>3 DEF Truncate
<1>4. ASSUME NEW t \in Tables, FlushLock(l, t) PROVE TypeOK'
  BY <1>4 DEF FlushLock, Share
<1>5. CASE Flush(l)  BY <1>5, TypeFlush
<1>6. CASE Refuse(l)       BY <1>6 DEF Refuse, ReleaseLocks
<1>7. CASE Commit(l)       BY <1>7 DEF Commit, ReleaseLocks
<1>8. CASE AbortLoader(l)  BY <1>8 DEF AbortLoader, ReleaseLocks
<1>9. CASE Crash(l)        BY <1>9 DEF Crash, ReleaseLocks
<1>10. QED BY <1>1, <1>2, <1>3, <1>4, <1>5, <1>6, <1>7, <1>8, <1>9 DEF LoaderStep

(* A statement returns loaders, those whose rows it found.                 *)
LEMMA FoundType == ASSUME NEW e, NEW stmt PROVE Found(e, stmt) \subseteq Loaders
BY DEF Found

LEMMA TypeReader ==
    ASSUME TypeOK, NEW r \in Readers,
           ReaderStep(r) \/ Arrive(r)
    PROVE  TypeOK'
<1> USE DEF TypeOK, loaderVars, readerVars, lockVars, Procs
<1>1. CASE ReadLock(r)    BY <1>1 DEF ReadLock, Share
<1>2. CASE Execute(r)
  <2>1. Found(request[r], Statement(r)) \subseteq Loaders  BY FoundType
  <2>2. Append(seen[r], Found(request[r], Statement(r))) \in Seq(SUBSET Loaders)
    BY <2>1
  <2>3. QED BY <1>2, <2>2 DEF Execute
<1>3. CASE Respond(r)     BY <1>3 DEF Respond
<1>4. CASE Close(r)       BY <1>4 DEF Close, ReleaseLocks
<1>5. CASE AbortReader(r) BY <1>5 DEF AbortReader, ReleaseLocks
<1>6. CASE Arrive(r)      BY <1>6 DEF Arrive, Ask
<1>7. QED BY <1>1, <1>2, <1>3, <1>4, <1>5, <1>6 DEF ReaderStep

LEMMA TypeStutter == ASSUME TypeOK, UNCHANGED vars PROVE TypeOK'
BY DEF TypeOK, vars, loaderVars, lockVars, readerVars

(* The state of the loaders, the locks, the tables and the requests always *)
(* has the type declared for it.                                           *)
THEOREM TypeCorrect == Spec => []TypeOK
<1>1. TypeOK /\ [Next]_vars => TypeOK'
  <2>1. SUFFICES ASSUME TypeOK, [Next]_vars PROVE TypeOK'  OBVIOUS
  <2>2. ASSUME NEW l \in Loaders, LoaderStep(l) \/ Crash(l) PROVE TypeOK'
    BY <2>1, <2>2, TypeLoader
  <2>3. ASSUME NEW r \in Readers, ReaderStep(r) \/ Arrive(r)
        PROVE  TypeOK'
    BY <2>1, <2>3, TypeReader
  <2>4. QED BY <2>1, <2>2, <2>3, TypeStutter DEF Next
<1>2. QED BY TypeInit, <1>1, PTL DEF Spec

-----------------------------------------------------------------------------
(* Locks *)

(* Taking a shared lock takes nothing from anybody.                        *)
LEMMA ShareKeeps ==
    ASSUME TypeOK, LocksInv, NEW p \in Procs, NEW t \in Tables, Share(p, t)
    PROVE  /\ LocksInv'
           /\ exclusive' = exclusive
           /\ \A q \in Procs, u \in Tables : q \in shared[u] => q \in shared'[u]
           /\ p \in shared'[t]
BY LoaderAssumption DEF TypeOK, LocksInv, Share, CanShare, Procs

(* The end of a transaction takes nothing from the others.                 *)
LEMMA ReleaseKeeps ==
    ASSUME TypeOK, LocksInv, NEW p \in Procs, ReleaseLocks(p)
    PROVE  /\ LocksInv'
           /\ \A q \in Procs \ {p}, u \in Tables :
                 /\ q \in shared[u] => q \in shared'[u]
                 /\ exclusive[u] = q => exclusive'[u] = q
BY LoaderAssumption DEF TypeOK, LocksInv, ReleaseLocks, Procs

(* While somebody else holds a lock, no run has emptied the tables.        *)
LEMMA LockKeepsForcedOut ==
    ASSUME LocksInv, StagesInv, NEW l \in Loaders, NEW p, NEW t \in Tables,
           p \in shared[t], p # l, pc[l] = "flush"
    PROVE  l \notin Forced
BY DEF LocksInv, StagesInv

-----------------------------------------------------------------------------
(* The loaders keep LoaderIInv *)

LEMMA LoaderIInvInit == Init => LoaderIInv
<1> SUFFICES ASSUME Init PROVE LoaderIInv  OBVIOUS
<1>1. TypeOK  BY TypeInit
<1>2. LocksInv  BY LoaderAssumption DEF Init, LocksInv
<1>3. StagesInv /\ KeyInv  BY DEF Init, StagesInv, KeyInv, KeyInserters
<1>4. StoredInv /\ OneFixture  BY DEF Init, StoredInv, OneFixture
<1>5. QED BY <1>1, <1>2, <1>3, <1>4 DEF LoaderIInv

(* A step that leaves the loaders' own state alone and takes no lock from  *)
(* a loader.                                                               *)
LEMMA LoaderIInvUndisturbed ==
    ASSUME LoaderIInv, TypeOK', LocksInv', UNCHANGED <<pc, flushed, rows>>,
           \A l \in Loaders, t \in Tables :
              /\ l \in shared[t] => l \in shared'[t]
              /\ exclusive[t] = l => exclusive'[t] = l
    PROVE  LoaderIInv'
<1>1. StagesInv'
  <2>1. "seasons" \in Tables  BY DEF Tables
  <2>2. QED BY <2>1 DEF LoaderIInv, StagesInv
<1>2. KeyInv'  BY DEF LoaderIInv, KeyInv, KeyInserters
<1>3. StoredInv' /\ OneFixture'  BY DEF LoaderIInv, StoredInv, OneFixture, Ended
<1>4. QED BY <1>1, <1>2, <1>3 DEF LoaderIInv

(* A transaction of l that ends without a commit.                          *)
LEMMA LoaderIInvRollback ==
    ASSUME LoaderIInv, TypeOK', NEW l \in Loaders, ReleaseLocks(l),
           UNCHANGED <<flushed, rows>>,
           NEW o \in Phases \ {"check", "truncate", "flush"},
           pc' = [pc EXCEPT ![l] = o]
    PROVE  LoaderIInv'
<1> USE DEF LoaderIInv
<1>1. pc' = [pc EXCEPT ![l] = o] /\ pc \in [Loaders -> Phases]  BY DEF TypeOK
<1>2. LocksInv' /\ \A q \in Loaders \ {l}, u \in Tables :
                      /\ q \in shared[u] => q \in shared'[u]
                      /\ exclusive[u] = q => exclusive'[u] = q
  BY ReleaseKeeps DEF Procs
<1>3. StagesInv'
  <2>1. "seasons" \in Tables  BY DEF Tables
  <2>2. QED BY <1>1, <1>2, <2>1 DEF StagesInv
<1>4. KeyInserters' \subseteq KeyInserters  BY <1>1 DEF KeyInserters
<1>5. KeyInv'  BY <1>4 DEF KeyInv
<1>6. StoredInv' /\ OneFixture'  BY <1>1 DEF StoredInv, OneFixture, Ended
<1>7. QED BY <1>2, <1>3, <1>5, <1>6

LEMMA LoaderIInvCheck ==
    ASSUME LoaderIInv, TypeOK', NEW l \in Loaders, Check(l) PROVE LoaderIInv'
<1> USE DEF LoaderIInv
<1>0. "seasons" \in Tables  BY DEF Tables
<1>1. flushed' = flushed /\ rows' = rows /\ pc \in [Loaders -> Phases] /\ pc[l] = "check"
  BY DEF Check, TypeOK
<1>2. CASE rows["seasons"] # {} /\ l \notin Forced
  <2>1. pc' = [pc EXCEPT ![l] = "skipped"] /\ UNCHANGED lockVars  BY <1>2 DEF Check
  <2>2. StagesInv' /\ LocksInv'  BY <1>1, <2>1 DEF StagesInv, LocksInv, lockVars
  <2>3. KeyInserters' = KeyInserters  BY <1>1, <2>1 DEF KeyInserters
  <2>4. KeyInv'  BY <1>1, <2>3 DEF KeyInv
  <2>5. StoredInv' /\ OneFixture'  BY <1>1, <2>1 DEF StoredInv, OneFixture, Ended
  <2>6. QED BY <2>2, <2>4, <2>5
<1>3. CASE ~(rows["seasons"] # {} /\ l \notin Forced)
  <2> DEFINE next == IF l \in Forced THEN "truncate" ELSE "flush"
  <2>1. pc' = [pc EXCEPT ![l] = next] /\ Share(l, "seasons")  BY <1>3 DEF Check
  <2>2. /\ LocksInv'
        /\ exclusive' = exclusive
        /\ \A q \in Procs, u \in Tables : q \in shared[u] => q \in shared'[u]
        /\ l \in shared'["seasons"]
    BY <1>0, <2>1, ShareKeeps DEF Procs
  <2>3. StagesInv'  BY <1>0, <1>1, <2>1, <2>2 DEF StagesInv, Procs
  <2>4. flushed[l] = 0  BY <1>1 DEF StagesInv
  <2>5. KeyInserters' = KeyInserters  BY <1>1, <2>1, <2>4 DEF KeyInserters
  <2>6. KeyInv'  BY <1>1, <2>5 DEF KeyInv
  <2>7. StoredInv' /\ OneFixture'
    <3>1. \A t \in Tables : l \notin rows[t]  BY <1>1 DEF StoredInv, Ended
    <3>2. QED BY <1>1, <2>1, <3>1 DEF StoredInv, OneFixture, Ended
  <2>8. QED BY <2>2, <2>3, <2>6, <2>7
<1>4. QED BY <1>2, <1>3

LEMMA LoaderIInvTruncateLock ==
    ASSUME LoaderIInv, TypeOK', NEW l \in Loaders, TruncateLock(l) PROVE LoaderIInv'
<1> USE DEF LoaderIInv
<1>1. PICK t \in Tables : CanExclude(l, t) /\ exclusive' = [exclusive EXCEPT ![t] = l]
  BY DEF TruncateLock
<1>2. pc[l] = "truncate" /\ shared' = shared /\ UNCHANGED loaderVars
  BY DEF TruncateLock
<1>3. LocksInv'
  <2>1. l \in Forced  BY <1>2 DEF StagesInv
  <2>2. QED BY <1>1, <1>2, <2>1 DEF LocksInv, CanExclude, TypeOK
<1>4. \A k \in Loaders, u \in Tables : exclusive[u] = k => exclusive'[u] = k
  BY <1>1, LoaderAssumption DEF CanExclude, CanShare, TypeOK
<1>5. QED BY <1>2, <1>3, <1>4, LoaderIInvUndisturbed DEF loaderVars

LEMMA LoaderIInvTruncate ==
    ASSUME LoaderIInv, TypeOK', NEW l \in Loaders, Truncate(l) PROVE LoaderIInv'
<1> USE DEF LoaderIInv
<1>1. /\ pc[l] = "truncate" /\ pc' = [pc EXCEPT ![l] = "flush"]
      /\ UNCHANGED <<flushed, rows, shared, exclusive>>
  BY DEF Truncate, lockVars
<1>2. pc \in [Loaders -> Phases]  BY DEF TypeOK
<1>3. \A t \in Tables : exclusive[t] = l  BY TruncateCovers DEF Truncate
<1>4. LocksInv'  BY <1>1 DEF LocksInv
<1>5. StagesInv'  BY <1>1, <1>2, <1>3 DEF StagesInv
<1>6. flushed[l] = 0  BY <1>1 DEF StagesInv
<1>7. KeyInserters' = KeyInserters  BY <1>1, <1>2, <1>6 DEF KeyInserters
<1>8. KeyInv'  BY <1>1, <1>7 DEF KeyInv
<1>9. StoredInv' /\ OneFixture'
  <2>1. \A t \in Tables : l \notin rows[t]  BY <1>1 DEF StoredInv, Ended
  <2>2. QED BY <1>1, <1>2, <2>1 DEF StoredInv, OneFixture, Ended
<1>10. QED BY <1>4, <1>5, <1>8, <1>9

LEMMA LoaderIInvFlushLock ==
    ASSUME LoaderIInv, TypeOK', NEW l \in Loaders, NEW t \in Tables, FlushLock(l, t)
    PROVE  LoaderIInv'
<1> USE DEF LoaderIInv
<1>1. Share(l, t) /\ UNCHANGED loaderVars  BY DEF FlushLock
<1>2. LocksInv' /\ exclusive' = exclusive
      /\ \A q \in Procs, u \in Tables : q \in shared[u] => q \in shared'[u]
  BY <1>1, ShareKeeps DEF Procs
<1>3. QED BY <1>1, <1>2, LoaderIInvUndisturbed DEF Procs, loaderVars

(* The first flush is where the key of season 1 keeps the others out.      *)
LEMMA LoaderIInvFlush ==
    ASSUME LoaderIInv, TypeOK', NEW l \in Loaders, Flush(l) PROVE LoaderIInv'
<1> USE DEF LoaderIInv
<1>1. /\ pc[l] = "flush" /\ flushed[l] < LastFlush
      /\ flushed[l] = 0 => KeyInserters \ {l} = {} /\ (rows["seasons"] = {} \/ l \in Forced)
      /\ flushed' = [flushed EXCEPT ![l] = flushed[l] + 1]
      /\ UNCHANGED <<pc, rows, shared, exclusive>>
  BY DEF Flush, FlushReady, lockVars
<1>2. flushed \in [Loaders -> 0..LastFlush]  BY DEF TypeOK
<1>3. LocksInv' /\ StoredInv' /\ OneFixture'
  BY <1>1 DEF LocksInv, StoredInv, OneFixture, Ended
<1>4. StagesInv'  BY <1>1, <1>2 DEF StagesInv
<1>5. KeyInv'
  <2>1. KeyInserters' = KeyInserters \cup {l}
    BY <1>1, <1>2 DEF KeyInserters, LastFlush
  <2>2. CASE flushed[l] = 0
    <3>1. KeyInserters' = {l}  BY <1>1, <2>1, <2>2
    <3>2. rows["seasons"] = {} => \A t \in Tables : rows[t] = {}
      <4>1. "seasons" \in Tables  BY DEF Tables
      <4>2. QED BY <4>1 DEF OneFixture
    <3>3. QED BY <1>1, <2>2, <3>1, <3>2 DEF KeyInv
  <2>3. CASE flushed[l] # 0
    <3>1. l \in KeyInserters  BY <1>1, <1>2, <2>3 DEF KeyInserters, LastFlush
    <3>2. KeyInserters' = KeyInserters  BY <2>1, <3>1
    <3>3. QED BY <1>1, <3>2 DEF KeyInv
  <2>4. QED BY <2>2, <2>3
<1>6. QED BY <1>3, <1>4, <1>5

(* A commit stores its fixture into tables that hold nothing else: l either *)
(* emptied them, and holds them all, or found them empty.                  *)
LEMMA CommitStores ==
    ASSUME LoaderIInv, NEW l \in Loaders, Commit(l)
    PROVE  /\ rows' = [t \in Tables |-> {l}]
           /\ l \in KeyInserters
<1>1. pc[l] = "flush" /\ flushed[l] = LastFlush
      /\ rows' = [t \in Tables |->
                     IF l \in Forced /\ \E i \in DOMAIN TruncateOrder : t = TruncateOrder[i]
                     THEN {l} ELSE rows[t] \cup {l}]
  BY DEF Commit
<1>2. l \in KeyInserters  BY <1>1 DEF KeyInserters, LastFlush
<1>3. CASE l \in Forced  BY <1>1, <1>2, <1>3, TruncateCovers
<1>4. CASE l \notin Forced
  <2>1. \A t \in Tables : rows[t] = {}  BY <1>2, <1>4 DEF LoaderIInv, KeyInv
  <2>2. QED BY <1>1, <1>2, <1>4, <2>1
<1>5. QED BY <1>3, <1>4

LEMMA LoaderIInvCommit ==
    ASSUME LoaderIInv, TypeOK', NEW l \in Loaders, Commit(l) PROVE LoaderIInv'
<1> USE DEF LoaderIInv
<1>1. rows' = [t \in Tables |-> {l}] /\ l \in KeyInserters  BY CommitStores
<1>2. PICK o \in {"seeded", "lost"} : pc' = [pc EXCEPT ![l] = o]  BY DEF Commit
<1>3. flushed' = flushed /\ ReleaseLocks(l)  BY DEF Commit
<1>4. pc \in [Loaders -> Phases]  BY DEF TypeOK
<1>5. LocksInv' /\ \A q \in Loaders \ {l}, u \in Tables :
                      /\ q \in shared[u] => q \in shared'[u]
                      /\ exclusive[u] = q => exclusive'[u] = q
  BY <1>3, ReleaseKeeps DEF Procs
<1>6. StagesInv'
  <2>1. "seasons" \in Tables  BY DEF Tables
  <2>2. QED BY <1>2, <1>3, <1>4, <1>5, <2>1 DEF StagesInv
<1>7. KeyInserters' = {}  BY <1>1, <1>2, <1>3, <1>4 DEF KeyInserters, KeyInv
<1>8. KeyInv'  BY <1>7 DEF KeyInv
<1>9. StoredInv' /\ OneFixture'
  BY <1>1, <1>2, <1>4 DEF StoredInv, OneFixture, Ended
<1>10. QED BY <1>5, <1>6, <1>8, <1>9

LEMMA LoaderIInvLoaderStep ==
    ASSUME LoaderIInv, NEW l \in Loaders, LoaderStep(l) \/ Crash(l) PROVE LoaderIInv'
<1>0. TypeOK'  BY TypeLoader DEF LoaderIInv
<1>1. CASE Check(l)         BY <1>0, <1>1, LoaderIInvCheck
<1>2. CASE TruncateLock(l)  BY <1>0, <1>2, LoaderIInvTruncateLock
<1>3. CASE Truncate(l)      BY <1>0, <1>3, LoaderIInvTruncate
<1>4. ASSUME NEW t \in Tables, FlushLock(l, t) PROVE LoaderIInv'
  BY <1>0, <1>4, LoaderIInvFlushLock
<1>5. CASE Flush(l)         BY <1>0, <1>5, LoaderIInvFlush
<1>6. CASE Commit(l)        BY <1>0, <1>6, LoaderIInvCommit
<1>7. CASE Refuse(l) \/ AbortLoader(l) \/ Crash(l)
  <2>1. PICK o \in Phases \ {"check", "truncate", "flush"} : pc' = [pc EXCEPT ![l] = o]
    BY <1>7 DEF Refuse, AbortLoader, Crash, Phases
  <2>2. ReleaseLocks(l) /\ UNCHANGED <<flushed, rows>>
    BY <1>7 DEF Refuse, AbortLoader, Crash
  <2>3. QED BY <1>0, <2>1, <2>2, LoaderIInvRollback
<1>8. QED BY <1>1, <1>2, <1>3, <1>4, <1>5, <1>6, <1>7 DEF LoaderStep

LEMMA LoaderIInvReaderStep ==
    ASSUME LoaderIInv, NEW r \in Readers, ReaderStep(r) \/ Arrive(r)
    PROVE  LoaderIInv'
<1> USE DEF LoaderIInv
<1>0. TypeOK'  BY TypeReader
<1>1. UNCHANGED loaderVars
  BY DEF ReaderStep, ReadLock, Execute, Respond, Close, AbortReader, Arrive, Ask
<1>2. r \in Procs /\ r \notin Loaders  BY LoaderAssumption DEF Procs
<1>3. CASE UNCHANGED lockVars
  BY <1>0, <1>1, <1>3, LoaderIInvUndisturbed DEF lockVars, loaderVars, LocksInv
<1>4. ASSUME NEW t \in Tables, Share(r, t) PROVE LoaderIInv'
  BY <1>0, <1>1, <1>2, <1>4, ShareKeeps, LoaderIInvUndisturbed DEF loaderVars, Procs
<1>5. CASE ReleaseLocks(r)
  <2>1. LocksInv' /\ \A q \in Procs \ {r}, u \in Tables :
                        /\ q \in shared[u] => q \in shared'[u]
                        /\ exclusive[u] = q => exclusive'[u] = q
    BY <1>2, <1>5, ReleaseKeeps
  <2>2. Loaders \subseteq Procs \ {r}  BY <1>2 DEF Procs
  <2>3. QED BY <1>0, <1>1, <2>1, <2>2, LoaderIInvUndisturbed DEF loaderVars
<1>6. QED
  BY <1>3, <1>4, <1>5
  DEF ReaderStep, ReadLock, Execute, Respond, Close, AbortReader, Arrive, Ask

LEMMA LoaderIInvNext == LoaderIInv /\ [Next]_vars => LoaderIInv'
<1>1. SUFFICES ASSUME LoaderIInv, [Next]_vars PROVE LoaderIInv'  OBVIOUS
<1>2. CASE UNCHANGED vars
  <2>1. TypeOK'  BY <1>1, <1>2, TypeStutter DEF LoaderIInv
  <2>2. QED BY <1>1, <1>2, <2>1, LoaderIInvUndisturbed
            DEF vars, loaderVars, lockVars, LoaderIInv, LocksInv
<1>3. ASSUME NEW l \in Loaders, LoaderStep(l) \/ Crash(l) PROVE LoaderIInv'
  BY <1>1, <1>3, LoaderIInvLoaderStep
<1>4. ASSUME NEW r \in Readers, ReaderStep(r) \/ Arrive(r)
      PROVE  LoaderIInv'
  BY <1>1, <1>4, LoaderIInvReaderStep
<1>5. QED BY <1>1, <1>2, <1>3, <1>4 DEF Next

(* Whatever the loaders do, and however they end, the tables hold one      *)
(* whole fixture or none.                                                  *)
THEOREM OneFixtureAlways == Spec => []OneFixture
<1>1. LoaderIInv => OneFixture  BY DEF LoaderIInv
<1>2. QED BY LoaderIInvInit, LoaderIInvNext, <1>1, PTL DEF Spec

-----------------------------------------------------------------------------
(* The sequences stay ahead of the ids *)

(* Every table with a sequence is written by one of the flushes.           *)
LEMMA SerialsAreDrawn == \A s \in Serials : \E n \in 1..LastFlush : s \in FlushTables[n]
<1>1. "players" \in FlushTables[3] /\ "coaches" \in FlushTables[4] /\ "games" \in FlushTables[5]
  BY DEF FlushTables
<1>2. QED BY <1>1 DEF Serials, LastFlush

(* A step that leaves ids and sequences alone, and after which no more      *)
(* loaders, flushes and rows are open or stored than before.               *)
LEMMA SerialsUndisturbed ==
    ASSUME SerialsInv, UNCHANGED <<flushed, rows, serial, ids>>,
           KeyInserters' \subseteq KeyInserters
    PROVE  SerialsInv'
BY DEF SerialsInv, DrawnInv, SerialsAhead

LEMMA SerialsFlush ==
    ASSUME LoaderIInv, SerialsInv, NEW l \in Loaders, Flush(l) PROVE SerialsInv'
<1> USE DEF SerialsInv
<1>1. /\ pc[l] = "flush" /\ flushed' = [flushed EXCEPT ![l] = flushed[l] + 1]
      /\ pc' = pc /\ rows' = rows
  BY DEF Flush, FlushReady
<1>2. /\ flushed \in [Loaders -> 0..LastFlush] /\ serial \in [Serials -> Nat]
      /\ ids \in [Loaders -> [Serials -> Nat]] /\ rows \in [Tables -> SUBSET Loaders]
  BY DEF LoaderIInv, TypeOK
<1>3. \A k \in Loaders \ {l} : k \in KeyInserters' => k \in KeyInserters
  BY <1>1, <1>2 DEF KeyInserters
<1>4. \A t \in Tables : l \notin rows[t]  BY <1>1 DEF LoaderIInv, StoredInv, Ended
<1>5. CASE l \in Forced
  <2>1. UNCHANGED <<serial, ids>>  BY <1>5 DEF Flush
  <2>2. DrawnInv'  BY <1>1, <1>2, <1>3, <1>5, <2>1 DEF DrawnInv
  <2>3. SerialsAhead'  BY <1>1, <2>1 DEF SerialsAhead
  <2>4. QED BY <2>2, <2>3
<1>6. CASE l \notin Forced
  <2>1. \A s \in Serials : /\ s \in Draws(l) => ids'[l][s] = serial[s] /\ serial'[s] = serial[s] + 1
                           /\ s \notin Draws(l) => ids'[l][s] = ids[l][s] /\ serial'[s] = serial[s]
    BY <1>2, <1>6 DEF Flush
  <2>2. \A k \in Loaders \ {l} : ids'[k] = ids[k]  BY <1>2, <1>6 DEF Flush
  <2>3. \A s \in Serials : serial[s] \in Nat /\ serial[s] <= serial'[s]  BY <1>2, <2>1
  <2>4. \A k \in Loaders, s \in Serials : ids[k][s] \in Nat  BY <1>2
  <2>5. ASSUME NEW k \in Loaders, NEW s \in Serials, k # l
        PROVE  /\ k \in Forced => ids'[k][s] = 0
               /\ k \in KeyInserters' \ Forced /\ (\E n \in 1..flushed'[k] : s \in FlushTables[n])
                     => ids'[k][s] < serial'[s]
    <3>1. flushed'[k] = flushed[k]  BY <1>1, <1>2, <2>5
    <3>2. ids'[k][s] = ids[k][s]  BY <2>2, <2>5
    <3>3. k \in KeyInserters' \ Forced /\ (\E n \in 1..flushed'[k] : s \in FlushTables[n])
            => ids[k][s] < serial[s]
      BY <1>3, <2>5, <3>1 DEF DrawnInv
    <3>4. ids[k][s] < serial[s] => ids[k][s] < serial'[s]  BY <1>2, <2>1, <2>4
    <3>5. k \in Forced => ids'[k][s] = 0  BY <3>2 DEF DrawnInv
    <3>6. QED BY <3>2, <3>3, <3>4, <3>5
  <2>6. ASSUME NEW s \in Serials, \E n \in 1..flushed'[l] : s \in FlushTables[n]
        PROVE  ids'[l][s] < serial'[s]
    <3>1. flushed[l] \in 0..LastFlush /\ flushed'[l] = flushed[l] + 1  BY <1>1, <1>2
    <3>2. CASE s \in Draws(l)  BY <1>2, <2>1, <3>2
    <3>3. CASE s \notin Draws(l)
      <4>1. PICK n \in 1..(flushed[l] + 1) : s \in FlushTables[n]  BY <2>6, <3>1
      <4>2. n # flushed[l] + 1  BY <3>3, <4>1 DEF Draws
      <4>3. n \in 1..flushed[l] /\ flushed[l] > 0  BY <3>1, <4>1, <4>2
      <4>4. l \in KeyInserters  BY <1>1, <4>3 DEF KeyInserters
      <4>5. ids[l][s] < serial[s]  BY <1>6, <4>1, <4>3, <4>4 DEF DrawnInv
      <4>6. QED BY <2>1, <3>3, <4>5
    <3>4. QED BY <3>2, <3>3
  <2>7. DrawnInv'  BY <1>6, <2>5, <2>6 DEF DrawnInv
  <2>8. SerialsAhead'
    <3>1. SUFFICES ASSUME NEW t \in Tables, NEW k \in rows[t], NEW s \in Serials
                   PROVE  ids'[k][s] < serial'[s]
      BY <1>1 DEF SerialsAhead
    <3>2. k \in Loaders /\ k # l  BY <1>2, <1>4
    <3>3. ids[k][s] < serial[s]  BY DEF SerialsAhead
    <3>4. ids'[k][s] = ids[k][s]  BY <2>2, <3>2
    <3>5. QED BY <1>2, <2>1, <2>4, <3>2, <3>3, <3>4
  <2>9. QED BY <2>7, <2>8
<1>7. QED BY <1>5, <1>6

(* After a commit the ids of l are stored, and no transaction is open.     *)
LEMMA SerialsCommit ==
    ASSUME LoaderIInv, SerialsInv, NEW l \in Loaders, Commit(l) PROVE SerialsInv'
<1> USE DEF SerialsInv
<1>1. rows' = [t \in Tables |-> {l}] /\ l \in KeyInserters  BY CommitStores
<1>2. PICK o \in {"seeded", "lost"} : pc' = [pc EXCEPT ![l] = o]  BY DEF Commit
<1>3. /\ flushed' = flushed /\ ids' = ids /\ flushed[l] = LastFlush
      /\ serial' = IF l \in Forced THEN [s \in Serials |-> 1] ELSE serial
  BY DEF Commit
<1>4. pc \in [Loaders -> Phases]  BY DEF LoaderIInv, TypeOK
<1>5. KeyInserters' = {}
  BY <1>1, <1>2, <1>3, <1>4 DEF KeyInserters, LoaderIInv, KeyInv
<1>6. DrawnInv'  BY <1>3, <1>5 DEF DrawnInv
<1>7. \A s \in Serials : ids[l][s] < serial'[s]
  <2>1. CASE l \in Forced  BY <1>3, <2>1 DEF DrawnInv
  <2>2. CASE l \notin Forced
    <3>1. \A s \in Serials : \E n \in 1..flushed[l] : s \in FlushTables[n]
      BY <1>3, SerialsAreDrawn
    <3>2. QED BY <1>1, <1>3, <2>2, <3>1 DEF DrawnInv
  <2>3. QED BY <2>1, <2>2
<1>8. SerialsAhead'  BY <1>1, <1>3, <1>7 DEF SerialsAhead
<1>9. QED BY <1>6, <1>8

LEMMA SerialsInvNext == LoaderIInv /\ SerialsInv /\ [Next]_vars => SerialsInv'
<1>1. SUFFICES ASSUME LoaderIInv, SerialsInv, [Next]_vars PROVE SerialsInv'  OBVIOUS
<1>2. CASE UNCHANGED loaderVars
  BY <1>1, <1>2, SerialsUndisturbed DEF loaderVars, KeyInserters
<1>3. ASSUME NEW l \in Loaders, LoaderStep(l) \/ Crash(l) PROVE SerialsInv'
  <2>1. pc \in [Loaders -> Phases]  BY <1>1 DEF LoaderIInv, TypeOK
  <2>2. CASE Flush(l)   BY <1>1, <2>2, SerialsFlush
  <2>3. CASE Commit(l)  BY <1>1, <2>3, SerialsCommit
  <2>4. CASE TruncateLock(l) \/ \E t \in Tables : FlushLock(l, t)
    BY <1>2, <2>4 DEF TruncateLock, FlushLock
  <2>5. CASE Check(l) \/ Truncate(l)
    <3>1. flushed[l] = 0
      BY <1>1, <2>5 DEF Check, Truncate, LoaderIInv, StagesInv
    <3>2. UNCHANGED <<flushed, rows, serial, ids>> /\ \A k \in Loaders \ {l} : pc'[k] = pc[k]
      BY <2>1, <2>5 DEF Check, Truncate
    <3>3. KeyInserters' \subseteq KeyInserters  BY <3>1, <3>2 DEF KeyInserters
    <3>4. QED BY <1>1, <3>2, <3>3, SerialsUndisturbed
  <2>6. CASE Refuse(l) \/ AbortLoader(l) \/ Crash(l)
    <3>1. UNCHANGED <<flushed, rows, serial, ids>>
      BY <2>6 DEF Refuse, AbortLoader, Crash
    <3>2. pc'[l] # "flush" /\ \A k \in Loaders \ {l} : pc'[k] = pc[k]
      BY <2>1, <2>6 DEF Refuse, AbortLoader, Crash
    <3>3. KeyInserters' \subseteq KeyInserters  BY <3>1, <3>2 DEF KeyInserters
    <3>4. QED BY <1>1, <3>1, <3>3, SerialsUndisturbed
  <2>7. QED BY <1>3, <2>2, <2>3, <2>4, <2>5, <2>6 DEF LoaderStep
<1>4. ASSUME NEW r \in Readers, ReaderStep(r) \/ Arrive(r) PROVE SerialsInv'
  BY <1>2, <1>4 DEF ReaderStep, ReadLock, Execute, Respond, Close, AbortReader, Arrive, Ask
<1>5. QED BY <1>1, <1>2, <1>3, <1>4 DEF Next, vars

LEMMA SerialsInvInit == Init => SerialsInv
BY DEF Init, SerialsInv, DrawnInv, SerialsAhead, KeyInserters

(* Whatever crashes and re-seeds come between them, the stored ids are      *)
(* behind their sequences: the next insert does not draw a taken one.      *)
THEOREM SerialsAheadAlways == Spec => []SerialsAhead
<1>1. LoaderIInv /\ SerialsInv /\ [Next]_vars => LoaderIInv' /\ SerialsInv'
  BY LoaderIInvNext, SerialsInvNext
<1>2. Init => LoaderIInv /\ SerialsInv  BY LoaderIInvInit, SerialsInvInit
<1>3. SerialsInv => SerialsAhead  BY DEF SerialsInv
<1>4. QED BY <1>1, <1>2, <1>3, PTL DEF Spec

-----------------------------------------------------------------------------
(* The requests keep RequestsInv *)

(* A statement returns what is present: its tables all hold the same rows. *)
LEMMA FoundIsPresent ==
    ASSUME OneFixture, TypeOK, NEW e, NEW stmt \in Seq(Tables) \ {<< >>}
    PROVE  Found(e, stmt) = Present(e)
<1>1. "seasons" \in Tables  BY DEF Tables
<1>2. \A t \in Tables : rows[t] = rows["seasons"]  BY <1>1 DEF OneFixture
<1>3. \A i \in DOMAIN stmt : stmt[i] \in Tables  OBVIOUS
<1>4. 1 \in DOMAIN stmt  OBVIOUS
<1>5. rows["seasons"] \subseteq Loaders  BY <1>1 DEF TypeOK
<1>6. QED BY <1>2, <1>3, <1>4, <1>5 DEF Found, Present

(* A request that has found a fixture keeps finding it as long as it keeps *)
(* its locks: nothing it can see changes.                                  *)
LEMMA PresentStays ==
    ASSUME LoaderIInv, NEW l \in Loaders, LoaderStep(l) \/ Crash(l),
           NEW r \in Readers, NEW t \in Tables, r \in shared[t],
           NEW e, Present(e) # {}
    PROVE  Present(e)' = Present(e) /\ r \in shared'[t]
<1> USE DEF LoaderIInv
<1>1. "seasons" \in Tables  BY DEF Tables
<1>2. rows["seasons"] # {} /\ rows["seasons"] \subseteq Loaders
  BY <1>1 DEF Present, TypeOK
<1>3. r # l  BY LoaderAssumption
<1>4. ~Commit(l)
  <2>1. SUFFICES ASSUME Commit(l) PROVE FALSE  OBVIOUS
  <2>2. l \in KeyInserters  BY <2>1, CommitStores
  <2>3. pc[l] = "flush"  BY <2>2 DEF KeyInserters
  <2>4. l \notin Forced  BY <1>3, <2>3, LockKeepsForcedOut
  <2>5. rows["seasons"] = {}  BY <1>1, <2>2, <2>4 DEF KeyInv
  <2>6. QED BY <1>2, <2>5
<1>5. rows' = rows
  BY <1>4
  DEF LoaderStep, Check, TruncateLock, Truncate, FlushLock, Flush, Refuse, AbortLoader,
      Crash, loaderVars
<1>6. \A k \in rows["seasons"] : ids'[k] = ids[k]
  <2>1. CASE Flush(l)
    <3>1. l \notin rows["seasons"]
      BY <1>1, <2>1 DEF Flush, FlushReady, StoredInv, Ended
    <3>2. ids \in [Loaders -> [Serials -> Nat]]  BY DEF TypeOK
    <3>3. CASE l \in Forced  BY <2>1, <3>3 DEF Flush
    <3>4. CASE l \notin Forced
      <4>1. ids' = [ids EXCEPT ![l] = [s \in Serials |->
                       IF s \in Draws(l) THEN serial[s] ELSE ids[l][s]]]
        BY <2>1, <3>4 DEF Flush
      <4>2. QED BY <1>2, <3>1, <3>2, <4>1
    <3>5. QED BY <3>3, <3>4
  <2>2. CASE ~Flush(l)
    BY <1>4, <2>2
    DEF LoaderStep, Check, TruncateLock, Truncate, FlushLock, Refuse, AbortLoader,
        Crash, loaderVars
  <2>3. QED BY <2>1, <2>2
<1>7. Present(e)' = Present(e)  BY <1>5, <1>6 DEF Present, Matches
<1>8. r \in shared'[t]
  <2>1. r \in Procs  BY DEF Procs
  <2>2. CASE UNCHANGED shared  BY <2>2
  <2>3. ASSUME NEW u \in Tables, Share(l, u) PROVE r \in shared'[t]
    BY <2>1, <2>3, ShareKeeps DEF Procs
  <2>4. CASE ReleaseLocks(l)  BY <1>3, <2>1, <2>4, ReleaseKeeps DEF Procs
  <2>5. QED
    BY <1>1, <1>4, <2>2, <2>3, <2>4
    DEF LoaderStep, Check, TruncateLock, Truncate, FlushLock, Flush, Refuse, AbortLoader,
        Crash, lockVars
<1>9. QED BY <1>7, <1>8

LEMMA RequestsIInvLoaderStep ==
    ASSUME LoaderIInv, RequestsInv, AnswersFromOneFixture,
           NEW l \in Loaders, LoaderStep(l) \/ Crash(l)
    PROVE  RequestsInv' /\ AnswersFromOneFixture'
<1>1. UNCHANGED <<request, status, seen>>
  BY DEF LoaderStep, Check, TruncateLock, Truncate, FlushLock, Flush, Refuse, Commit,
         AbortLoader, Crash, readerVars
<1>2. AnswersFromOneFixture'  BY <1>1 DEF AnswersFromOneFixture
<1>3. ASSUME NEW r \in Readers, status[r] \in {"open", "answered"},
             NEW i \in DOMAIN seen[r], seen[r][i] # {}
      PROVE  /\ \E t \in Tables : r \in shared'[t]
             /\ seen[r][i] = Present(request[r])'
  <2>1. PICK t \in Tables : r \in shared[t]  BY <1>3 DEF RequestsInv
  <2>2. seen[r][i] = Present(request[r])  BY <1>3 DEF RequestsInv
  <2>3. \A e : Present(e) # {} => Present(e)' = Present(e) /\ r \in shared'[t]
    BY <2>1, PresentStays
  <2>4. Present(request[r])' = Present(request[r]) /\ r \in shared'[t]
    BY <1>1, <1>3, <2>2, <2>3 DEF Present, Matches
  <2>5. QED BY <2>2, <2>4
<1>4. RequestsInv'  BY <1>1, <1>3 DEF RequestsInv
<1>5. QED BY <1>2, <1>4

(* What RequestsInv and AnswersFromOneFixture say of one request.          *)
RequestOK(r) ==
    /\ status[r] = "idle" => seen[r] = << >>
    /\ status[r] # "idle" => request[r] \in Endpoints
    /\ status[r] \in {"open", "answered"} =>
          \A i \in DOMAIN seen[r] : seen[r][i] # {} =>
             /\ \E t \in Tables : r \in shared[t]
             /\ seen[r][i] = Present(request[r])
    /\ \A i, j \in DOMAIN seen[r] :
          i < j /\ seen[r][i] # {} => seen[r][j] = seen[r][i]

LEMMA RequestsOK ==
    RequestsInv /\ AnswersFromOneFixture <=> \A r \in Readers : RequestOK(r)
BY DEF RequestsInv, AnswersFromOneFixture, RequestOK

(* A step of one request is not noticed by another.                        *)
LEMMA OtherRequestOK ==
    ASSUME LoaderIInv, NEW r \in Readers, ReaderStep(r) \/ Arrive(r),
           NEW q \in Readers \ {r}, RequestOK(q)
    PROVE  RequestOK(q)'
<1>1. UNCHANGED loaderVars
  BY DEF ReaderStep, ReadLock, Execute, Respond, Close, AbortReader, Arrive, Ask
<1>2. seen'[q] = seen[q] /\ status'[q] = status[q] /\ request'[q] = request[q]
  <2>1. /\ seen \in [Readers -> Seq(SUBSET Loaders)]
        /\ DOMAIN status = Readers /\ DOMAIN request = Readers
    BY DEF LoaderIInv, TypeOK
  <2>2. CASE ReadLock(r) \/ Respond(r) \/ Close(r) \/ AbortReader(r)
    BY <2>1, <2>2 DEF ReadLock, Respond, Close, AbortReader, readerVars
  <2>3. CASE Execute(r)  BY <2>1, <2>3 DEF Execute
  <2>4. CASE Arrive(r)   BY <2>1, <2>4 DEF Arrive, Ask
  <2>5. QED BY <2>2, <2>3, <2>4 DEF ReaderStep
<1>3. \A t \in Tables : q \in shared[t] => q \in shared'[t]
  <2>1. q \in Procs \ {r} /\ r \in Procs  BY DEF Procs
  <2>2. CASE UNCHANGED shared  BY <2>2
  <2>3. ASSUME NEW u \in Tables, Share(r, u)
        PROVE  \A t \in Tables : q \in shared[t] => q \in shared'[t]
    BY <2>1, <2>3, ShareKeeps DEF LoaderIInv
  <2>4. CASE ReleaseLocks(r)  BY <2>1, <2>4, ReleaseKeeps DEF LoaderIInv
  <2>5. QED
    BY <2>2, <2>3, <2>4
    DEF ReaderStep, ReadLock, Execute, Respond, Close, AbortReader, Arrive, Ask, lockVars
<1>4. \A e : Present(e)' = Present(e)  BY <1>1 DEF Present, Matches, loaderVars
<1>5. QED BY <1>2, <1>3, <1>4 DEF RequestOK

(* A statement adds to the answer what the request has found before.       *)
LEMMA ExecuteRequestOK ==
    ASSUME LoaderIInv, NEW r \in Readers, RequestOK(r), Execute(r)
    PROVE  RequestOK(r)'
<1> DEFINE found == Present(request[r])
           old   == seen[r]
           n     == Len(seen[r])
<1>1. /\ status[r] = "open" /\ n < Len(Statements[request[r]])
      /\ \A i \in DOMAIN Statement(r) : Holds(r, Statement(r)[i])
      /\ seen' = [seen EXCEPT ![r] = Append(old, Found(request[r], Statement(r)))]
      /\ UNCHANGED <<request, status, shared, loaderVars>>
  BY DEF Execute, MoreToRun, lockVars
<1>2. seen \in [Readers -> Seq(SUBSET Loaders)] /\ old \in Seq(SUBSET Loaders)
  BY DEF LoaderIInv, TypeOK
<1>3. request[r] \in Endpoints  BY <1>1 DEF RequestOK
<1>4. Statement(r) \in Seq(Tables) \ {<< >>}
  <2>1. Statements[request[r]] \in Seq(Seq(Tables) \ {<< >>})
    BY <1>3, StatementsType
  <2>2. n \in Nat  BY <1>2
  <2>3. QED BY <1>1, <2>1, <2>2 DEF Statement
<1>5. Found(request[r], Statement(r)) = found
  BY <1>4, FoundIsPresent DEF LoaderIInv
<1>6. seen'[r] = Append(old, found)  BY <1>1, <1>2, <1>5
<1>7. Present(request[r])' = found
  BY <1>1 DEF Present, Matches, loaderVars
<1>8. \E t \in Tables : r \in shared'[t]
  <2>1. Statement(r)[1] \in Tables /\ 1 \in DOMAIN Statement(r)  BY <1>4
  <2>2. r \in shared[Statement(r)[1]]
    BY <1>1, <2>1, ReadersOnlyShare DEF LoaderIInv
  <2>3. QED BY <1>1, <2>1, <2>2
<1>9. \A i \in DOMAIN old : old[i] # {} => old[i] = found
  BY <1>1 DEF RequestOK
<1>10. found \in SUBSET Loaders
  <2>1. Found(request[r], Statement(r)) \subseteq Loaders  BY FoundType
  <2>2. QED BY <1>5, <2>1
<1>11. \A i \in DOMAIN seen'[r] : seen'[r][i] # {} => seen'[r][i] = found
  BY <1>2, <1>6, <1>9, <1>10
<1>12. \A i, j \in DOMAIN seen'[r] :
          i < j /\ seen'[r][i] # {} => seen'[r][j] = seen'[r][i]
  <2>1. SUFFICES ASSUME NEW i \in DOMAIN seen'[r], NEW j \in DOMAIN seen'[r],
                        i < j, seen'[r][i] # {}
                 PROVE  seen'[r][j] = seen'[r][i]
    OBVIOUS
  <2>2. i \in DOMAIN old /\ seen'[r][i] = old[i]  BY <1>2, <1>6, <1>10, <2>1
  <2>3. CASE j \in DOMAIN old
    <3>1. seen'[r][j] = old[j]  BY <1>2, <1>6, <1>10, <2>3
    <3>2. QED BY <2>1, <2>2, <2>3, <3>1 DEF RequestOK
  <2>4. CASE j \notin DOMAIN old
    <3>1. seen'[r][j] = found  BY <1>2, <1>6, <1>10, <2>4
    <3>2. QED BY <1>11, <2>1, <3>1
  <2>5. QED BY <2>3, <2>4
<1>13. QED BY <1>1, <1>3, <1>7, <1>8, <1>11, <1>12 DEF RequestOK

LEMMA OwnRequestOK ==
    ASSUME LoaderIInv, NEW r \in Readers, RequestOK(r), ReaderStep(r) \/ Arrive(r)
    PROVE  RequestOK(r)'
<1>1. /\ seen \in [Readers -> Seq(SUBSET Loaders)]
      /\ DOMAIN status = Readers /\ DOMAIN request = Readers
  BY DEF LoaderIInv, TypeOK
<1>2. \A e : UNCHANGED loaderVars => Present(e)' = Present(e)
  BY DEF Present, Matches, loaderVars
<1>3. CASE ReadLock(r)
  <2>1. PICK u \in Tables : Share(r, u)  BY <1>3 DEF ReadLock
  <2>2. \A t \in Tables : r \in shared[t] => r \in shared'[t]
    BY <2>1, ShareKeeps DEF LoaderIInv, Procs
  <2>3. QED BY <1>2, <1>3, <2>2 DEF ReadLock, RequestOK, readerVars
<1>4. CASE Execute(r)  BY <1>4, ExecuteRequestOK
<1>5. CASE Respond(r)
  BY <1>1, <1>2, <1>5 DEF Respond, RequestOK, lockVars
<1>6. CASE Close(r)  BY <1>1, <1>6 DEF Close, RequestOK
<1>7. CASE AbortReader(r)  BY <1>1, <1>7 DEF AbortReader, RequestOK
<1>8. CASE Arrive(r)  BY <1>1, <1>8 DEF Arrive, Ask, RequestOK
<1>9. QED BY <1>3, <1>4, <1>5, <1>6, <1>7, <1>8 DEF ReaderStep

-----------------------------------------------------------------------------
(* Deadlocks *)

(* Whom a step of p leaves with the shared locks they had.                 *)
LEMMA SharesOfOthers ==
    ASSUME TypeOK, NEW p \in Procs, NEW q \in Procs \ {p}, NEW t \in Tables,
           ReleaseLocks(p) \/ UNCHANGED shared \/ \E u \in Tables : Share(p, u)
    PROVE  q \in shared'[t] <=> q \in shared[t]
BY DEF TypeOK, ReleaseLocks, Share

LEMMA LoaderShares ==
    ASSUME TypeOK, NEW l \in Loaders, LoaderStep(l) \/ Crash(l)
    PROVE  ReleaseLocks(l) \/ UNCHANGED shared \/ \E u \in Tables : Share(l, u)
<1>1. "seasons" \in Tables  BY DEF Tables
<1>2. QED
  BY <1>1
  DEF LoaderStep, Check, TruncateLock, Truncate, FlushLock, Flush, Refuse, Commit,
      AbortLoader, Crash, lockVars

LEMMA ReaderShares ==
    ASSUME NEW r \in Readers, ReaderStep(r) \/ Arrive(r)
    PROVE  ReleaseLocks(r) \/ UNCHANGED shared \/ \E u \in Tables : Share(r, u)
BY DEF ReaderStep, ReadLock, Execute, Respond, Close, AbortReader, Arrive, Ask, lockVars

(* TRUNCATE goes on from the tables it has: nobody else touches them.      *)
LEMMA PrefixInvNext == LoaderIInv /\ PrefixInv /\ [Next]_vars => PrefixInv'
<1>1. SUFFICES ASSUME LoaderIInv, PrefixInv, [Next]_vars PROVE PrefixInv'  OBVIOUS
<1>2. CASE UNCHANGED exclusive  BY <1>1, <1>2 DEF PrefixInv
<1>3. exclusive \in [Tables -> Loaders \cup {NoOne}]  BY <1>1 DEF LoaderIInv, TypeOK
<1>4. \A i \in DOMAIN TruncateOrder : TruncateOrder[i] \in Tables
  BY DEF TruncateOrder, Tables
<1>5. DOMAIN TruncateOrder \subseteq Nat  BY DEF TruncateOrder
<1>6. ASSUME NEW p \in Procs, ReleaseLocks(p) PROVE PrefixInv'
  BY <1>1, <1>3, <1>4, <1>6, LoaderAssumption DEF PrefixInv, ReleaseLocks
<1>7. ASSUME NEW l \in Loaders, TruncateLock(l) PROVE PrefixInv'
  <2>1. PICK t \in Tables : NextToTruncate(l, t) /\ CanExclude(l, t)
                            /\ exclusive' = [exclusive EXCEPT ![t] = l]
    BY <1>7 DEF TruncateLock
  <2>2. PICK n \in DOMAIN TruncateOrder :
             /\ t = TruncateOrder[n]
             /\ \A j \in 1..(n - 1) : exclusive[TruncateOrder[j]] = l
    BY <2>1 DEF NextToTruncate
  <2>3. exclusive[t] \in {l, NoOne}  BY <2>1 DEF CanExclude, CanShare
  <2>4. \A i, j \in DOMAIN TruncateOrder : j < i => TruncateOrder[j] # TruncateOrder[i]
    BY DEF TruncateOrder
  <2>5. SUFFICES ASSUME NEW k \in Loaders, NEW i \in DOMAIN TruncateOrder,
                        NEW j \in DOMAIN TruncateOrder, j < i,
                        exclusive'[TruncateOrder[i]] = k
                 PROVE  exclusive'[TruncateOrder[j]] = k
    BY DEF PrefixInv
  <2>6. CASE i = n
    <3>1. k = l  BY <1>3, <1>4, <2>1, <2>2, <2>5, <2>6
    <3>2. j \in 1..(n - 1)  BY <1>5, <2>5, <2>6 DEF TruncateOrder
    <3>3. exclusive[TruncateOrder[j]] = l  BY <2>2, <3>2
    <3>4. QED BY <1>3, <1>4, <2>1, <3>1, <3>3
  <2>7. CASE i # n
    <3>1. TruncateOrder[i] # t
      BY <2>2, <2>7 DEF TruncateOrder
    <3>2. exclusive[TruncateOrder[i]] = k  BY <1>3, <1>4, <2>1, <2>5, <3>1
    <3>3. exclusive[TruncateOrder[j]] = k  BY <1>1, <2>5, <3>2 DEF PrefixInv
    <3>4. CASE TruncateOrder[j] = t
      <4>1. k = l  BY <2>3, <3>3, <3>4, LoaderAssumption
      <4>2. QED BY <1>3, <1>4, <2>1, <3>4, <4>1
    <3>5. CASE TruncateOrder[j] # t  BY <1>3, <1>4, <2>1, <3>3, <3>5
    <3>6. QED BY <3>4, <3>5
  <2>8. QED BY <2>6, <2>7
<1>8. ASSUME NEW l \in Loaders, LoaderStep(l) \/ Crash(l) PROVE PrefixInv'
  BY <1>2, <1>6, <1>7, <1>8
  DEF LoaderStep, Check, Truncate, FlushLock, Flush, Refuse, Commit, AbortLoader, Crash,
      lockVars, Share, Procs
<1>9. ASSUME NEW r \in Readers, ReaderStep(r) \/ Arrive(r) PROVE PrefixInv'
  BY <1>2, <1>6, <1>9
  DEF ReaderStep, ReadLock, Execute, Respond, Close, AbortReader, Arrive, Ask, lockVars,
      Share, Procs
<1>10. QED BY <1>1, <1>2, <1>8, <1>9 DEF Next, vars, lockVars

(* The first statement of an endpoint, and of it the first table.          *)
LEMMA FirstStatement ==
    ASSUME NEW e \in Endpoints
    PROVE  /\ 1 \in DOMAIN Statements[e] /\ 1 \in DOMAIN Statements[e][1]
           /\ FirstTable(e) \in Tables
           /\ Statements[e] \in Seq(Seq(Tables) \ {<< >>})
<1>1. Statements[e] \in Seq(Seq(Tables) \ {<< >>})  BY StatementsType
<1>2. Statements[e] # << >>
  BY DEF Endpoints, Statements, CompetitionPage, GamePage, GameDetail, TeamDetail,
         StandingsQuery, LeaderboardQuery, StandingsAgain, LeaderboardAgain, SeasonStatsQuery,
         CompetitionById, PlayerLookup
<1>3. 1 \in DOMAIN Statements[e]  BY <1>1, <1>2
<1>4. Statements[e][1] \in Seq(Tables) \ {<< >>}  BY <1>1, <1>3
<1>5. 1 \in DOMAIN Statements[e][1] /\ Statements[e][1][1] \in Tables  BY <1>4
<1>6. QED BY <1>1, <1>3, <1>5 DEF FirstTable

(* A step of its own keeps a request's first lock until the request ends.  *)
LEMMA OwnFirstOK ==
    ASSUME LoaderIInv, NEW r \in Readers, RequestOK(r), FirstOK(r),
           ReaderStep(r) \/ Arrive(r)
    PROVE  FirstOK(r)'
<1>1. /\ seen \in [Readers -> Seq(SUBSET Loaders)]
      /\ DOMAIN status = Readers /\ DOMAIN request = Readers
      /\ shared \in [Tables -> SUBSET Procs]
  BY DEF LoaderIInv, TypeOK
<1>2. status[r] # "idle" => FirstTable(request[r]) \in Tables
  BY FirstStatement DEF RequestOK
<1>3. CASE ReadLock(r)
  <2>1. PICK t \in Tables : NextToRead(r, t) /\ Share(r, t)  BY <1>3 DEF ReadLock
  <2>2. shared' = [shared EXCEPT ![t] = @ \cup {r}]  BY <2>1 DEF Share
  <2>3. UNCHANGED <<request, status, seen>> /\ status[r] = "open"
    BY <1>3 DEF ReadLock, MoreToRun, readerVars
  <2>4. CASE r \in shared[FirstTable(request[r])]
    BY <1>1, <1>2, <2>2, <2>3, <2>4 DEF FirstOK
  <2>5. CASE r \notin shared[FirstTable(request[r])]
    <3>1. seen[r] = << >> /\ \A u \in Tables : r \notin shared[u]
      BY <2>3, <2>5 DEF FirstOK
    <3>2. \A u \in Tables : ~Holds(r, u)  BY <3>1, ReadersOnlyShare DEF LoaderIInv
    <3>3. Statement(r) = Statements[request[r]][1]  BY <3>1 DEF Statement
    <3>4. request[r] \in Endpoints  BY <2>3 DEF RequestOK
    <3>5. Statement(r) \in Seq(Tables) /\ Statement(r)[1] = FirstTable(request[r])
      BY <3>3, <3>4, FirstStatement DEF FirstTable
    <3>6. PICK i \in DOMAIN Statement(r) :
               /\ t = Statement(r)[i]
               /\ \A j \in 1..(i - 1) : Holds(r, Statement(r)[j])
      BY <2>1 DEF NextToRead
    <3>7. i = 1
      <4>1. i \in Nat /\ i >= 1 /\ Statement(r)[1] \in Tables  BY <3>5, <3>6
      <4>2. i > 1 => Holds(r, Statement(r)[1])  BY <3>6, <4>1
      <4>3. QED BY <3>2, <4>1, <4>2
    <3>8. t = FirstTable(request[r])  BY <3>5, <3>6, <3>7
    <3>9. QED BY <1>1, <2>2, <2>3, <3>8 DEF FirstOK
  <2>6. QED BY <2>4, <2>5
<1>4. CASE Execute(r)
  <2>1. UNCHANGED <<request, status, shared>> /\ status[r] = "open"
        /\ \A i \in DOMAIN Statement(r) : Holds(r, Statement(r)[i])
    BY <1>4 DEF Execute, MoreToRun, lockVars
  <2>2. CASE seen[r] # << >>  BY <2>1, <2>2 DEF FirstOK
  <2>3. CASE seen[r] = << >>
    <3>1. Statement(r) = Statements[request[r]][1]  BY <2>3 DEF Statement
    <3>2. Holds(r, FirstTable(request[r]))
      BY <2>1, <3>1, FirstStatement DEF RequestOK, FirstTable
    <3>3. r \in shared[FirstTable(request[r])]
      BY <1>2, <2>1, <3>2, ReadersOnlyShare DEF LoaderIInv
    <3>4. QED BY <2>1, <3>3 DEF FirstOK
  <2>4. QED BY <2>2, <2>3
<1>5. CASE Respond(r)      BY <1>1, <1>5 DEF Respond, FirstOK, lockVars
<1>6. CASE Close(r)        BY <1>1, <1>6 DEF Close, FirstOK, ReleaseLocks
<1>7. CASE AbortReader(r)  BY <1>1, <1>7 DEF AbortReader, FirstOK, ReleaseLocks
<1>8. CASE Arrive(r)       BY <1>1, <1>8 DEF Arrive, Ask, FirstOK, RequestOK, lockVars
<1>9. QED BY <1>3, <1>4, <1>5, <1>6, <1>7, <1>8 DEF ReaderStep

(* A step of anybody else leaves a request its locks.                      *)
LEMMA UndisturbedFirstOK ==
    ASSUME NEW r \in Readers, FirstOK(r), status[r] # "idle" => request[r] \in Endpoints,
           seen'[r] = seen[r], status'[r] = status[r], request'[r] = request[r],
           \A t \in Tables : r \in shared'[t] <=> r \in shared[t]
    PROVE  FirstOK(r)'
<1>1. status[r] # "idle" => FirstTable(request[r]) \in Tables  BY FirstStatement
<1>2. QED BY <1>1 DEF FirstOK, FirstTable

-----------------------------------------------------------------------------

LEMMA IInvInit == Init => IInv
<1>1. Init => RequestsInv /\ AnswersFromOneFixture
  BY DEF Init, RequestsInv, AnswersFromOneFixture
<1>2. Init => OrderInv
  BY LoaderAssumption DEF Init, OrderInv, PrefixInv, FirstOK, TruncateOrder, Tables
<1>3. QED BY <1>1, <1>2, LoaderIInvInit, SerialsInvInit DEF IInv

LEMMA IInvNext == IInv /\ [Next]_vars => IInv'
<1>1. SUFFICES ASSUME IInv, [Next]_vars PROVE IInv'  OBVIOUS
<1>2. LoaderIInv /\ SerialsInv /\ OrderInv /\ RequestsInv /\ AnswersFromOneFixture
  BY <1>1 DEF IInv
<1>3. LoaderIInv' /\ SerialsInv'  BY <1>1, <1>2, LoaderIInvNext, SerialsInvNext
<1>4. RequestsInv' /\ AnswersFromOneFixture'
  <2>1. CASE UNCHANGED vars
    BY <1>2, <2>1
    DEF vars, loaderVars, lockVars, readerVars, RequestsInv, AnswersFromOneFixture,
        Present, Matches
  <2>2. ASSUME NEW l \in Loaders, LoaderStep(l) \/ Crash(l)
        PROVE  RequestsInv' /\ AnswersFromOneFixture'
    BY <1>2, <2>2, RequestsIInvLoaderStep
  <2>3. ASSUME NEW r \in Readers, ReaderStep(r) \/ Arrive(r)
        PROVE  RequestsInv' /\ AnswersFromOneFixture'
    <3>1. \A q \in Readers : RequestOK(q)  BY <1>2, RequestsOK
    <3>2. RequestOK(r)'  BY <1>2, <2>3, <3>1, OwnRequestOK
    <3>3. \A q \in Readers \ {r} : RequestOK(q)'  BY <1>2, <2>3, <3>1, OtherRequestOK
    <3>4. \A q \in Readers : RequestOK(q)'  BY <3>2, <3>3
    <3>5. QED BY <3>4 DEF RequestOK, RequestsInv, AnswersFromOneFixture
  <2>4. QED BY <1>1, <2>1, <2>2, <2>3 DEF Next
<1>5. PrefixInv'  BY <1>1, <1>2, PrefixInvNext DEF OrderInv
<1>6. ASSUME NEW r \in Readers PROVE FirstOK(r)'
  <2>1. FirstOK(r) /\ RequestOK(r)  BY <1>2, RequestsOK DEF OrderInv
  <2>2. r \in Procs /\ r \notin Loaders /\ TypeOK
    BY <1>2, LoaderAssumption DEF Procs, LoaderIInv
  <2>3. CASE UNCHANGED vars
    BY <2>1, <2>3, UndisturbedFirstOK DEF RequestOK, vars, lockVars, readerVars
  <2>4. ASSUME NEW l \in Loaders, LoaderStep(l) \/ Crash(l) PROVE FirstOK(r)'
    <3>1. UNCHANGED <<request, status, seen>>
      BY <2>4
      DEF LoaderStep, Check, TruncateLock, Truncate, FlushLock, Flush, Refuse, Commit,
          AbortLoader, Crash, readerVars
    <3>2. \A t \in Tables : r \in shared'[t] <=> r \in shared[t]
      BY <2>2, <2>4, LoaderShares, SharesOfOthers DEF Procs
    <3>3. QED BY <2>1, <3>1, <3>2, UndisturbedFirstOK DEF RequestOK
  <2>5. ASSUME NEW q \in Readers, ReaderStep(q) \/ Arrive(q), q # r PROVE FirstOK(r)'
    <3>1. seen'[r] = seen[r] /\ status'[r] = status[r] /\ request'[r] = request[r]
      <4>1. DOMAIN seen = Readers /\ DOMAIN status = Readers /\ DOMAIN request = Readers
        BY <2>2 DEF TypeOK
      <4>2. QED
        BY <2>5, <4>1
        DEF ReaderStep, ReadLock, Execute, Respond, Close, AbortReader, Arrive, Ask,
            readerVars
    <3>2. \A t \in Tables : r \in shared'[t] <=> r \in shared[t]
      BY <2>2, <2>5, ReaderShares, SharesOfOthers DEF Procs
    <3>3. QED BY <2>1, <3>1, <3>2, UndisturbedFirstOK DEF RequestOK
  <2>6. ReaderStep(r) \/ Arrive(r) => FirstOK(r)'  BY <1>2, <2>1, OwnFirstOK
  <2>7. QED BY <1>1, <2>3, <2>4, <2>5, <2>6 DEF Next
<1>7. QED BY <1>3, <1>4, <1>5, <1>6 DEF IInv, OrderInv

(* The strengthening is an invariant of the specification.                 *)
THEOREM Inductive == Spec => []IInv
BY IInvInit, IInvNext, PTL DEF Spec

(* However a re-seed interleaves with the statements of a request, all     *)
(* that the request finds belongs to one fixture, and stays found.         *)
THEOREM AnswersFromOneFixtureAlways == Spec => []AnswersFromOneFixture
<1>1. IInv => AnswersFromOneFixture  BY DEF IInv
<1>2. QED BY Inductive, <1>1, PTL

(* Every endpoint that does not lock its tables against the order of the   *)
(* TRUNCATE locks them from the first one on in this order.                *)
LEMMA ListsFollowTruncate ==
    ASSUME NEW e \in Endpoints \ AgainstTruncate, NEW k \in DOMAIN Statements[e],
           NEW i \in DOMAIN Statements[e][k]
    PROVE  \E m, n \in DOMAIN TruncateOrder :
              /\ m <= n
              /\ FirstTable(e) = TruncateOrder[m]
              /\ Statements[e][k][i] = TruncateOrder[n]
<1>1. /\ TruncateOrder[1] = "box_scores" /\ TruncateOrder[2] = "games"
      /\ TruncateOrder[6] = "players" /\ TruncateOrder[7] = "teams"
      /\ TruncateOrder[8] = "competitions" /\ DOMAIN TruncateOrder = 1..10
  BY DEF TruncateOrder
<1>2. CASE e = "competitions" \/ e = "competition"
  BY <1>1, <1>2 DEF FirstTable, Statements, CompetitionPage, CompetitionById
<1>3. CASE e = "player"  BY <1>1, <1>3 DEF FirstTable, Statements, PlayerLookup
<1>4. CASE e = "games"   BY <1>1, <1>4 DEF FirstTable, Statements, GamePage
<1>5. CASE e = "standings"
  BY <1>1, <1>5 DEF FirstTable, Statements, StandingsQuery
<1>6. CASE e = "leaderboard"
  BY <1>1, <1>6 DEF FirstTable, Statements, LeaderboardQuery
<1>7. CASE e = "stats"
  BY <1>1, <1>7 DEF FirstTable, Statements, SeasonStatsQuery
<1>8. QED
  BY <1>2, <1>3, <1>4, <1>5, <1>6, <1>7 DEF Endpoints, Statements, AgainstTruncate

(* Such a request, when it waits for a TRUNCATE, holds nothing: whoever has *)
(* the table it waits for has its first table, too.                        *)
LEMMA BlockedListHoldsNothing ==
    ASSUME IInv, NEW r \in Readers, status[r] = "open",
           request[r] \notin AgainstTruncate, Blockers(r) # {}
    PROVE  \A t \in Tables : ~Holds(r, t)
<1>1. LoaderIInv /\ FirstOK(r) /\ PrefixInv /\ TypeOK /\ LocksInv
  BY DEF IInv, OrderInv, LoaderIInv
<1>2. r \notin Loaders  BY LoaderAssumption
<1>3. PICK q \in Procs \ {r}, t \in Tables :
           MoreToRun(r) /\ NextToRead(r, t) /\ exclusive[t] = q
  BY <1>2 DEF Blockers
<1>4. q \in Loaders  BY <1>1, <1>3, LoaderAssumption DEF TypeOK, Procs
<1> DEFINE e == request[r]
<1>5. e \in Endpoints \ AgainstTruncate  BY DEF IInv, RequestsInv
<1>6. PICK i \in DOMAIN Statement(r) : t = Statement(r)[i]  BY <1>3 DEF NextToRead
<1>7. Len(seen[r]) + 1 \in DOMAIN Statements[e]
  <2>1. seen[r] \in Seq(SUBSET Loaders)  BY <1>1 DEF TypeOK
  <2>2. Len(seen[r]) \in Nat /\ Len(seen[r]) < Len(Statements[e])
    BY <1>3, <2>1 DEF MoreToRun
  <2>3. Statements[e] \in Seq(Seq(Tables) \ {<< >>})  BY <1>5, FirstStatement
  <2>4. QED BY <2>2, <2>3
<1>8. PICK m, n \in DOMAIN TruncateOrder :
           m <= n /\ FirstTable(e) = TruncateOrder[m] /\ t = TruncateOrder[n]
  BY <1>5, <1>6, <1>7, ListsFollowTruncate DEF Statement
<1>9. exclusive[FirstTable(e)] = q
  <2>1. CASE m = n  BY <1>3, <1>8, <2>1
  <2>2. CASE m # n
    <3>1. m < n  BY <1>8, <2>2 DEF TruncateOrder
    <3>2. QED BY <1>1, <1>3, <1>4, <1>8, <3>1 DEF PrefixInv
  <2>3. QED BY <2>1, <2>2
<1>10. FirstTable(e) \in Tables  BY <1>5, FirstStatement
<1>11. r \notin shared[FirstTable(e)]  BY <1>1, <1>3, <1>4, <1>9, <1>10 DEF LocksInv
<1>12. \A u \in Tables : r \notin shared[u]  BY <1>1, <1>11 DEF FirstOK
<1>13. QED BY <1>1, <1>12, ReadersOnlyShare

(* Nobody waits for a request that holds nothing.                          *)
LEMMA IdleBlocksNobody ==
    ASSUME TypeOK, NEW r \in Readers, \A t \in Tables : ~Holds(r, t),
           NEW p \in Procs
    PROVE  r \notin Blockers(p)
<1>1. r \notin Loaders /\ KeyInserters \subseteq Loaders
  BY LoaderAssumption DEF KeyInserters
<1>2. \A t \in Tables : exclusive[t] # r  BY DEF Holds
<1>3. \A n \in 0..LastFlush : n < LastFlush => FlushTables[n + 1] \subseteq Tables
  BY FlushTablesType
<1>4. p \in Loaders => flushed[p] \in 0..LastFlush  BY DEF TypeOK
<1>5. QED BY <1>1, <1>2, <1>3, <1>4 DEF Blockers

(* So no cycle of waiting goes through it.                                 *)
LEMMA OutOfOrderInCycles ==
    ASSUME IInv, NEW r \in Readers, status[r] = "open", InCycle(r)
    PROVE  request[r] \in AgainstTruncate
<1>1. SUFFICES ASSUME request[r] \notin AgainstTruncate PROVE FALSE  OBVIOUS
<1>2. Blockers(r) # {}  BY DEF InCycle
<1>3. \A t \in Tables : ~Holds(r, t)  BY <1>1, <1>2, BlockedListHoldsNothing
<1>4. \A p \in Procs : r \notin Blockers(p)
  BY <1>3, IdleBlocksNobody DEF IInv, LoaderIInv
<1>5. \A p \in Procs : Blockers(p) \subseteq Procs \ {r}  BY <1>4 DEF Blockers
<1>6. r \in Procs /\ Procs \ {r} \in SUBSET Procs  BY DEF Procs
<1>7. r \in Procs \ {r}  BY <1>5, <1>6 DEF InCycle
<1>8. QED BY <1>7

(* A re-seed costs no list, lookup or stats request its answer, and no     *)
(* standings or leaderboard that a connection runs for the first time: the *)
(* deadlock detector never picks one, however many runs and requests there *)
(* are.                                                                    *)
THEOREM ListsOnlyWaitAlways == Spec => []ListsOnlyWait
<1>1. Init => ListsOnlyWait  BY DEF Init, ListsOnlyWait
<1>2. IInv /\ ListsOnlyWait /\ [Next]_vars => ListsOnlyWait'
  <2>1. SUFFICES ASSUME IInv, ListsOnlyWait, [Next]_vars
                 PROVE  ListsOnlyWait'
    OBVIOUS
  <2>2. DOMAIN status = Readers /\ DOMAIN request = Readers
    BY <2>1 DEF IInv, LoaderIInv, TypeOK
  <2>3. CASE UNCHANGED <<status, request>>
    BY <2>1, <2>3 DEF ListsOnlyWait
  <2>4. ASSUME NEW l \in Loaders, LoaderStep(l) \/ Crash(l) PROVE ListsOnlyWait'
    BY <2>3, <2>4
    DEF LoaderStep, Check, TruncateLock, Truncate, FlushLock, Flush, Refuse, Commit,
        AbortLoader, Crash, readerVars
  <2>5. ASSUME NEW r \in Readers, ReaderStep(r) \/ Arrive(r) PROVE ListsOnlyWait'
    <3>1. CASE AbortReader(r)
      <4>1. request[r] \in AgainstTruncate
        BY <2>1, <3>1, OutOfOrderInCycles DEF AbortReader
      <4>2. QED BY <2>1, <2>2, <3>1, <4>1 DEF AbortReader, ListsOnlyWait
    <3>2. CASE Arrive(r)
      BY <2>1, <2>2, <3>2 DEF Arrive, Ask, ListsOnlyWait
    <3>3. CASE Respond(r) \/ Close(r)
      BY <2>1, <2>2, <3>3 DEF Respond, Close, ListsOnlyWait
    <3>4. CASE ReadLock(r) \/ Execute(r)
      BY <2>3, <3>4 DEF ReadLock, Execute, readerVars
    <3>5. QED BY <2>5, <3>1, <3>2, <3>3, <3>4 DEF ReaderStep
  <2>6. QED BY <2>1, <2>3, <2>4, <2>5 DEF Next, vars, readerVars
<1>3. QED BY <1>1, <1>2, Inductive, PTL DEF Spec

-----------------------------------------------------------------------------
(* The loader and the requests implement the atomic store of FixtureStore: *)
(* each of their steps is a step of the store, or none.                    *)


(* What the store sees of the loaders and the requests.                    *)
Outcome == [l \in Loaders |-> OutcomeOf(pc[l])]
Answers == [r \in Readers |-> AnswerOf(r)]

(* A request that is answered has run a statement.                         *)
AnsweredInv ==
    \A r \in Readers : status[r] \in {"answered", "closed"} => seen[r] # << >>

StoreInv == IInv /\ AnsweredInv

LEMMA RespondAnswers ==
    ASSUME IInv, NEW r \in Readers, Respond(r) PROVE seen[r] # << >>
<1>1. status[r] = "open" /\ ~MoreToRun(r)  BY DEF Respond
<1>2. request[r] \in Endpoints  BY <1>1 DEF IInv, RequestsInv
<1>3. 1 \in DOMAIN Statements[request[r]]
      /\ Statements[request[r]] \in Seq(Seq(Tables) \ {<< >>})
  BY <1>2, FirstStatement
<1>4. Len(Statements[request[r]]) > 0  BY <1>3
<1>5. SUFFICES ASSUME seen[r] = << >> PROVE FALSE  OBVIOUS
<1>6. Len(seen[r]) = 0 /\ seen[r] # << {} >>  BY <1>5
<1>7. MoreToRun(r)  BY <1>1, <1>4, <1>6 DEF MoreToRun, NotFound
<1>8. QED BY <1>1, <1>7

LEMMA StoreInvNext == StoreInv /\ [Next]_vars => StoreInv'
<1>1. SUFFICES ASSUME IInv, AnsweredInv, [Next]_vars PROVE AnsweredInv'
  BY IInvNext DEF StoreInv
<1>2. CASE UNCHANGED <<status, seen>>  BY <1>1, <1>2 DEF AnsweredInv
<1>3. /\ seen \in [Readers -> Seq(SUBSET Loaders)] /\ DOMAIN status = Readers
  BY <1>1 DEF IInv, LoaderIInv, TypeOK
<1>4. ASSUME NEW l \in Loaders, LoaderStep(l) \/ Crash(l) PROVE AnsweredInv'
  BY <1>2, <1>4
  DEF LoaderStep, Check, TruncateLock, Truncate, FlushLock, Flush, Refuse, Commit,
      AbortLoader, Crash, readerVars
<1>5. ASSUME NEW r \in Readers, ReaderStep(r) \/ Arrive(r) PROVE AnsweredInv'
  <2>1. CASE ReadLock(r)  BY <1>2, <2>1 DEF ReadLock, readerVars
  <2>2. CASE Execute(r)
    BY <1>1, <1>3, <2>2 DEF Execute, MoreToRun, AnsweredInv
  <2>3. CASE Respond(r)
    BY <1>1, <1>3, <2>3, RespondAnswers DEF Respond, AnsweredInv
  <2>4. CASE Close(r) \/ AbortReader(r) \/ Arrive(r)
    BY <1>1, <1>3, <2>4 DEF Close, AbortReader, Arrive, Ask, AnsweredInv
  <2>5. QED BY <1>5, <2>1, <2>2, <2>3, <2>4 DEF ReaderStep
<1>6. QED BY <1>1, <1>2, <1>4, <1>5 DEF Next, vars, readerVars

-----------------------------------------------------------------------------
(* The loaders *)

(* The outcome of l alone changes.                                         *)
LEMMA OutcomeChanges ==
    ASSUME TypeOK, NEW l \in Loaders, NEW phase \in Phases, pc' = [pc EXCEPT ![l] = phase]
    PROVE  Outcome' = [Outcome EXCEPT ![l] = OutcomeOf(phase)]
BY DEF TypeOK, Outcome

LEMMA AnswersStay == ASSUME UNCHANGED <<status, seen>> PROVE Answers' = Answers
BY DEF Answers, AnswerOf

LEMMA LoaderImplements ==
    ASSUME StoreInv, NEW l \in Loaders, LoaderStep(l) \/ Crash(l)
    PROVE  \/ Store!Load(l) \/ Store!Skip(l) \/ Store!Fail(l)
           \/ UNCHANGED <<rows["seasons"], Outcome, Answers>>
<1>1. LoaderIInv /\ TypeOK  BY DEF StoreInv, IInv, LoaderIInv
<1>2. Answers' = Answers
  BY AnswersStay
  DEF LoaderStep, Check, TruncateLock, Truncate, FlushLock, Flush, Refuse, Commit,
      AbortLoader, Crash, readerVars
<1>3. "seasons" \in Tables  BY DEF Tables
<1>4. CASE UNCHANGED <<pc, rows>>  BY <1>2, <1>4 DEF Outcome, OutcomeOf
<1>5. CASE Check(l)
  <2>1. Outcome[l] = "running"  BY <1>5 DEF Check, Outcome, OutcomeOf
  <2>2. rows' = rows  BY <1>5 DEF Check
  <2>3. CASE rows["seasons"] # {} /\ l \notin Forced
    <3>1. pc' = [pc EXCEPT ![l] = "skipped"]  BY <1>5, <2>3 DEF Check
    <3>2. Outcome' = [Outcome EXCEPT ![l] = "skipped"]
      BY <1>1, <3>1, OutcomeChanges DEF Phases, OutcomeOf
    <3>3. Store!Skip(l)
      BY <1>2, <2>1, <2>2, <2>3, <3>2 DEF Store!Skip, Outcome, Answers
    <3>4. QED BY <3>3
  <2>4. CASE ~(rows["seasons"] # {} /\ l \notin Forced)
    <3>1. PICK o \in {"truncate", "flush"} : pc' = [pc EXCEPT ![l] = o]
      BY <1>5, <2>4 DEF Check
    <3>2. Outcome' = [Outcome EXCEPT ![l] = "running"]
      BY <1>1, <3>1, OutcomeChanges DEF Phases, OutcomeOf
    <3>3. Outcome' = Outcome  BY <2>1, <3>2 DEF Outcome
    <3>4. QED BY <1>2, <2>2, <3>3
  <2>5. QED BY <2>3, <2>4
<1>6. CASE Truncate(l)
  <2>1. pc[l] = "truncate" /\ pc' = [pc EXCEPT ![l] = "flush"] /\ rows' = rows
    BY <1>6 DEF Truncate
  <2>2. Outcome[l] = "running"  BY <2>1 DEF Outcome, OutcomeOf
  <2>3. Outcome' = [Outcome EXCEPT ![l] = "running"]
    BY <1>1, <2>1, OutcomeChanges DEF Phases, OutcomeOf
  <2>4. Outcome' = Outcome  BY <2>2, <2>3 DEF Outcome
  <2>5. QED BY <1>2, <2>1, <2>4
<1>7. CASE Commit(l)
  <2>1. rows'["seasons"] = {l} /\ l \in KeyInserters
    BY <1>1, <1>3, <1>7, CommitStores
  <2>2. rows["seasons"] = {} \/ l \in Forced  BY <1>1, <1>3, <2>1 DEF LoaderIInv, KeyInv
  <2>3. Outcome[l] = "running"  BY <1>7 DEF Commit, Outcome, OutcomeOf
  <2>4. PICK o \in {"seeded", "lost"} : pc' = [pc EXCEPT ![l] = o]  BY <1>7 DEF Commit
  <2>5. OutcomeOf(o) \in {"seeded", "failed"}  BY <2>4 DEF OutcomeOf
  <2>6. Outcome' = [Outcome EXCEPT ![l] = OutcomeOf(o)]
    <3>1. o \in Phases  BY <2>4 DEF Phases
    <3>2. QED BY <1>1, <2>4, <3>1, OutcomeChanges
  <2>7. Store!Load(l)
    BY <1>2, <2>1, <2>2, <2>3, <2>5, <2>6 DEF Store!Load, Outcome, Answers
  <2>8. QED BY <2>7
<1>8. CASE Refuse(l) \/ AbortLoader(l) \/ Crash(l)
  <2>1. pc[l] \in {"check", "truncate", "flush"} /\ rows' = rows
    BY <1>1, <1>8 DEF Refuse, FlushReady, AbortLoader, Crash, Ended
  <2>2. PICK o \in {"integrity", "deadlocked", "crashed"} : pc' = [pc EXCEPT ![l] = o]
    BY <1>8 DEF Refuse, AbortLoader, Crash
  <2>3. Outcome[l] = "running" /\ OutcomeOf(o) = "failed"
    BY <2>1, <2>2 DEF Outcome, OutcomeOf
  <2>4. Outcome' = [Outcome EXCEPT ![l] = "failed"]
    <3>1. o \in Phases  BY <2>2 DEF Phases
    <3>2. QED BY <1>1, <2>2, <2>3, <3>1, OutcomeChanges
  <2>5. Store!Fail(l)  BY <1>2, <2>1, <2>3, <2>4 DEF Store!Fail, Outcome, Answers
  <2>6. QED BY <2>5
<1>9. QED
  BY <1>4, <1>5, <1>6, <1>7, <1>8
  DEF LoaderStep, TruncateLock, FlushLock, Flush, loaderVars

-----------------------------------------------------------------------------
(* The requests *)

(* The answer of r alone changes.                                          *)
LEMMA AnswerChanges ==
    ASSUME TypeOK, NEW r \in Readers, NEW s,
           status' = [status EXCEPT ![r] = s], \A q \in Readers \ {r} : seen'[q] = seen[q]
    PROVE  Answers' = [Answers EXCEPT ![r] = AnswerOf(r)']
<1>1. \A q \in Readers \ {r} : status'[q] = status[q]  BY DEF TypeOK
<1>2. \A q \in Readers \ {r} : AnswerOf(q)' = AnswerOf(q)  BY <1>1 DEF AnswerOf
<1>3. QED BY <1>2 DEF Answers

(* What a request has found is nothing, or the fixture that is stored.     *)
LEMMA FoundIsStored ==
    ASSUME IInv, NEW r \in Readers, status[r] = "open", NEW i \in DOMAIN seen[r]
    PROVE  seen[r][i] \in {{}, rows["seasons"]}
<1>1. seen[r][i] # {} => seen[r][i] = Present(request[r])  BY DEF IInv, RequestsInv
<1>2. "seasons" \in Tables  BY DEF Tables
<1>3. \A l, k \in rows["seasons"] : l = k  BY <1>2 DEF IInv, LoaderIInv, OneFixture
<1>4. Present(request[r]) # {} => Present(request[r]) = rows["seasons"]
  BY <1>3 DEF Present
<1>5. QED BY <1>1, <1>4

LEMMA RespondImplements ==
    ASSUME StoreInv, NEW r \in Readers, Respond(r) PROVE Store!Answer(r)
<1>1. IInv /\ TypeOK  BY DEF StoreInv, IInv, LoaderIInv
<1>2. /\ status[r] = "open" /\ status' = [status EXCEPT ![r] = "answered"]
      /\ UNCHANGED <<seen, pc, rows>>
  BY DEF Respond, loaderVars
<1>3. seen[r] # << >> /\ seen[r] \in Seq(SUBSET Loaders)
  BY <1>1, RespondAnswers DEF TypeOK
<1> DEFINE n    == Len(seen[r])
           head == seen[r][1]
           last == seen[r][n]
<1>4. 1 \in DOMAIN seen[r] /\ n \in DOMAIN seen[r] /\ n \in Nat /\ 1 <= n
      /\ Head(seen[r]) = head
  BY <1>3
<1>5. head \in {{}, rows["seasons"]} /\ last \in {{}, rows["seasons"]}
  BY <1>1, <1>2, <1>4, FoundIsStored
<1>6. head # {} => last = head
  <2>1. CASE n = 1  BY <1>4, <2>1
  <2>2. CASE n # 1
    <3>1. 1 < n
      <4> HIDE DEF n
      <4>1. QED BY <1>4, <2>2
    <3>2. QED BY <1>1, <1>4, <3>1 DEF IInv, AnswersFromOneFixture
  <2>3. QED BY <2>1, <2>2
<1> DEFINE answered == [status |-> "answered", rows |-> head, rest |-> last]
<1>7. Answers[r] = Store!NoAnswer  BY <1>2 DEF Answers, AnswerOf, Store!NoAnswer
<1>8. Answers' = [Answers EXCEPT ![r] = answered]
  <2>1. Answers' = [Answers EXCEPT ![r] = AnswerOf(r)']
    BY <1>1, <1>2, AnswerChanges
  <2>2. status'[r] = "answered" /\ seen'[r] = seen[r]  BY <1>1, <1>2 DEF TypeOK
  <2>3. AnswerOf(r)' = answered  BY <2>2 DEF AnswerOf
  <2>4. QED BY <2>1, <2>3
<1>9. Outcome' = Outcome  BY <1>2 DEF Outcome
<1> HIDE DEF n, head, last
<1>10. QED
  BY <1>2, <1>5, <1>6, <1>7, <1>8, <1>9 DEF Store!Answer, Outcome, Answers

LEMMA ReaderImplements ==
    ASSUME StoreInv, NEW r \in Readers, ReaderStep(r) \/ Arrive(r)
    PROVE  \/ Store!Answer(r) \/ Store!Reject(r)
           \/ UNCHANGED <<rows["seasons"], Outcome, Answers>>
<1>1. TypeOK  BY DEF StoreInv, IInv, LoaderIInv
<1>2. UNCHANGED <<pc, rows>>
  BY DEF ReaderStep, ReadLock, Execute, Respond, Close, AbortReader, Arrive, Ask, loaderVars
<1>3. Outcome' = Outcome  BY <1>2 DEF Outcome
<1>4. DOMAIN status = Readers /\ DOMAIN seen = Readers  BY <1>1 DEF TypeOK
<1>5. CASE ReadLock(r)
  BY <1>2, <1>3, <1>5, AnswersStay DEF ReadLock, readerVars
<1>6. CASE Execute(r)
  <2>1. status[r] = "open" /\ status' = status /\ \A q \in Readers \ {r} : seen'[q] = seen[q]
    BY <1>4, <1>6 DEF Execute, MoreToRun
  <2>2. \A q \in Readers : AnswerOf(q)' = AnswerOf(q)  BY <2>1 DEF AnswerOf
  <2>3. Answers' = Answers  BY <2>2 DEF Answers
  <2>4. QED BY <1>2, <1>3, <2>3
<1>7. CASE Respond(r)  BY <1>7, RespondImplements
<1>8. CASE Close(r)
  <2>1. /\ status[r] = "answered" /\ status'[r] = "closed" /\ seen' = seen
        /\ \A q \in Readers \ {r} : status'[q] = status[q]
    BY <1>4, <1>8 DEF Close
  <2>2. \A q \in Readers : AnswerOf(q)' = AnswerOf(q)  BY <2>1 DEF AnswerOf
  <2>3. Answers' = Answers  BY <2>2 DEF Answers
  <2>4. QED BY <1>2, <1>3, <2>3
<1>9. CASE AbortReader(r)
  <2>1. /\ status[r] = "open" /\ status' = [status EXCEPT ![r] = "failed"] /\ seen' = seen
    BY <1>9 DEF AbortReader
  <2>2. Answers[r] = Store!NoAnswer  BY <2>1 DEF Answers, AnswerOf, Store!NoAnswer
  <2>3. Answers' = [Answers EXCEPT ![r] = AnswerOf(r)']
    BY <1>1, <2>1, AnswerChanges
  <2>4. AnswerOf(r)' = [Store!NoAnswer EXCEPT !.status = "failed"]
    BY <1>4, <2>1 DEF AnswerOf, Store!NoAnswer
  <2>5. Store!Reject(r)
    BY <1>2, <1>3, <2>2, <2>3, <2>4 DEF Store!Reject, Outcome, Answers
  <2>6. QED BY <2>5
<1>10. CASE Arrive(r)
  <2>1. /\ status[r] = "idle" /\ status'[r] = "open" /\ seen' = seen
        /\ \A q \in Readers \ {r} : status'[q] = status[q]
    BY <1>4, <1>10 DEF Arrive, Ask
  <2>2. \A q \in Readers : AnswerOf(q)' = AnswerOf(q)  BY <2>1 DEF AnswerOf
  <2>3. Answers' = Answers  BY <2>2 DEF Answers
  <2>4. QED BY <1>2, <1>3, <2>3
<1>11. QED BY <1>5, <1>6, <1>7, <1>8, <1>9, <1>10 DEF ReaderStep

-----------------------------------------------------------------------------

LEMMA StoreInitMaps == Init => Store!StoreInit
<1>1. SUFFICES ASSUME Init PROVE Store!StoreInit  OBVIOUS
<1>2. rows["seasons"] = {}  BY <1>1 DEF Init, Tables
<1>3. Outcome = [l \in Loaders |-> "running"]  BY <1>1 DEF Init, Outcome, OutcomeOf
<1>4. Answers = [r \in Readers |-> Store!NoAnswer]
  BY <1>1 DEF Init, Answers, AnswerOf, Store!NoAnswer
<1>5. QED BY <1>2, <1>3, <1>4 DEF Store!StoreInit, Outcome, Answers

LEMMA StepMaps == StoreInv /\ [Next]_vars => [Store!StoreNext]_(Store!storeVars)
<1>1. SUFFICES ASSUME StoreInv, [Next]_vars
               PROVE  Store!StoreNext \/ UNCHANGED <<rows["seasons"], Outcome, Answers>>
  BY DEF Store!storeVars, Outcome, Answers
<1>2. CASE UNCHANGED vars
  BY <1>2, AnswersStay DEF vars, loaderVars, readerVars, Outcome
<1>3. ASSUME NEW l \in Loaders, LoaderStep(l) \/ Crash(l)
      PROVE  Store!StoreNext \/ UNCHANGED <<rows["seasons"], Outcome, Answers>>
  BY <1>1, <1>3, LoaderImplements DEF Store!StoreNext
<1>4. ASSUME NEW r \in Readers, ReaderStep(r) \/ Arrive(r)
      PROVE  Store!StoreNext \/ UNCHANGED <<rows["seasons"], Outcome, Answers>>
  BY <1>1, <1>4, ReaderImplements DEF Store!StoreNext
<1>5. QED BY <1>1, <1>2, <1>3, <1>4 DEF Next

(* For any number of loaders and requests, what they do is what loaders    *)
(* and requests of one atomic store would do.                              *)
THEOREM ImplementsTheStore == Spec => ImplementsStore
<1>1. Init => StoreInv  BY IInvInit DEF StoreInv, AnsweredInv, Init
<1>2. QED
  BY <1>1, StoreInvNext, StoreInitMaps, StepMaps, PTL
  DEF Spec, ImplementsStore, Store!StoreSpec
=============================================================================
