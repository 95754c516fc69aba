--------------------------- MODULE ConnectionPool ---------------------------
(***************************************************************************)
(* The connection pool that core/db.py sets up, as its clients see it: an  *)
(* SQLAlchemy AsyncAdaptedQueuePool over asyncpg.  The pool and the        *)
(* database are external; what the repository decides is PoolSize,         *)
(* MaxOverflow and PrePing.                                                *)
(*                                                                         *)
(* A pool is a queue of at most PoolSize idle connections and a count of   *)
(* all connections it has opened, those of its clients included.           *)
(***************************************************************************)
EXTENDS Integers, FiniteSets

CONSTANTS Requests, PoolSize, MaxOverflow

PoolAssumption ==
  /\ IsFiniteSet(Requests)
  /\ PoolSize \in Nat \ {0}
  /\ MaxOverflow \in Nat
ASSUME PoolAssumption

VARIABLES
  conn,      \* what each request has of the pool
  fresh,     \* idle connections that work
  stale,     \* idle connections that the server has closed
  opened,    \* the connections the pool counts as its own
  database   \* whether the server accepts connections

poolVars == <<conn, fresh, stale, opened, database>>

Capacity == PoolSize + MaxOverflow

\* Variant: an engine without pool_pre_ping.
NoPrePing == FALSE

PrePing == TRUE

Held    == {"opening", "reopening", "live", "lost"}
Holders == {r \in Requests : conn[r] \in Held}

PoolTypeOK ==
  /\ conn \in [Requests -> Held \cup {"none", "waiting"}]
  /\ fresh \in Nat /\ stale \in Nat /\ opened \in Nat
  /\ database \in {"up", "down"}

PoolInit ==
  /\ conn = [r \in Requests |-> "none"]
  /\ fresh = 0 /\ stale = 0 /\ opened = 0
  /\ database = "up"

-----------------------------------------------------------------------------
(* Checking out a connection. *)

TakeFresh(r) ==
  /\ conn[r] \in {"none", "waiting"}
  /\ fresh > 0
  /\ fresh' = fresh - 1
  /\ conn' = [conn EXCEPT ![r] = "live"]
  /\ UNCHANGED <<stale, opened, database>>

\* A ping tells a stale connection from a fresh one, and it is replaced.
TakeStale(r) ==
  /\ conn[r] \in {"none", "waiting"}
  /\ stale > 0
  /\ stale' = stale - 1
  /\ conn' = [conn EXCEPT ![r] = IF PrePing THEN "reopening" ELSE "lost"]
  /\ UNCHANGED <<fresh, opened, database>>

\* Nothing idle, but room for one more.  A request that waits finds the room
\* only when its wait times out.
Grow(r) ==
  /\ conn[r] \in {"none", "waiting"}
  /\ fresh = 0 /\ stale = 0
  /\ opened < Capacity
  /\ opened' = opened + 1
  /\ conn' = [conn EXCEPT ![r] = "opening"]
  /\ UNCHANGED <<fresh, stale, database>>

Wait(r) ==
  /\ conn[r] = "none"
  /\ fresh = 0 /\ stale = 0
  /\ opened = Capacity
  /\ conn' = [conn EXCEPT ![r] = "waiting"]
  /\ UNCHANGED <<fresh, stale, opened, database>>

Connect(r) ==
  /\ conn[r] \in {"opening", "reopening"}
  /\ database = "up"
  /\ conn' = [conn EXCEPT ![r] = "live"]
  /\ UNCHANGED <<fresh, stale, opened, database>>

-----------------------------------------------------------------------------
(* Giving it back: into the queue, or closed if the queue is full. *)

Enqueue(isFresh) ==
  IF fresh + stale < PoolSize
    THEN /\ fresh' = IF isFresh THEN fresh + 1 ELSE fresh
         /\ stale' = IF isFresh THEN stale ELSE stale + 1
         /\ UNCHANGED opened
    ELSE /\ opened' = opened - 1
         /\ UNCHANGED <<fresh, stale>>

ConnectFails(r) ==
  /\ database = "down"
  /\ \/ /\ conn[r] = "opening"
        /\ opened' = opened - 1
        /\ UNCHANGED <<fresh, stale>>
     \/ /\ conn[r] = "reopening"
        /\ Enqueue(FALSE)
  /\ conn' = [conn EXCEPT ![r] = "none"]
  /\ UNCHANGED database

TimeOut(r) ==
  /\ conn[r] = "waiting"
  /\ fresh = 0 /\ stale = 0
  /\ opened = Capacity
  /\ conn' = [conn EXCEPT ![r] = "none"]
  /\ UNCHANGED <<fresh, stale, opened, database>>

\* Variant: a session gives back a connection whether or not it has taken one.
ReturnUntaken(r) ==
  /\ conn[r] \in {"none", "live", "lost"}
  /\ Enqueue(conn[r] = "live")
  /\ conn' = [conn EXCEPT ![r] = "none"]
  /\ UNCHANGED database

\* session.close(): a no-op for a session that never ran a statement.
Return(r) ==
  /\ conn[r] \in {"none", "live", "lost"}
  /\ IF conn[r] = "none" THEN UNCHANGED <<fresh, stale, opened>> ELSE Enqueue(conn[r] = "live")
  /\ conn' = [conn EXCEPT ![r] = "none"]
  /\ UNCHANGED database

-----------------------------------------------------------------------------
(* The server. *)

\* Neon suspends an idle compute: every connection is idle, and is closed.
Suspend ==
  /\ \A r \in Requests : conn[r] \notin {"live", "lost"}
  /\ fresh > 0
  /\ stale' = stale + fresh
  /\ fresh' = 0
  /\ UNCHANGED <<conn, opened, database>>

GoDown ==
  /\ database = "up"
  /\ database' = "down"
  /\ stale' = stale + fresh
  /\ fresh' = 0
  /\ conn' = [r \in Requests |-> IF conn[r] = "live" THEN "lost" ELSE conn[r]]
  /\ UNCHANGED opened

ComeUp ==
  /\ database = "down"
  /\ database' = "up"
  /\ UNCHANGED <<conn, fresh, stale, opened>>

-----------------------------------------------------------------------------
\* The pool never counts a connection it does not have nor forgets one it has,
\* and keeps to its limits (pool_size and max_overflow in get_engine).
PoolAccounted ==
  /\ opened = fresh + stale + Cardinality(Holders)
  /\ opened <= Capacity
  /\ fresh + stale <= PoolSize
=============================================================================
