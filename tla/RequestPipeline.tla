-------------------------- MODULE RequestPipeline --------------------------
(***************************************************************************)
(* A request on its way through main.create_app: ServerErrorMiddleware,    *)
(* with the handler for unhandled exceptions; RequestIdMiddleware; the     *)
(* exception handlers; get_db and its session; the endpoint; and back.     *)
(* Each request is a task with context variables of its own, and all of    *)
(* them share the pool.  A read is any endpoint that queries the tables,   *)
(* which a re-seed may have locked; a probe of /healthz runs SELECT 1.     *)
(***************************************************************************)
EXTENDS ConnectionPool

CONSTANTS
  Probes,    \* the requests for /healthz; all others are reads
  None

\* What a statement can raise.
Errors == {"TimeoutError", "ConnectionError", "DeadlockDetected", "DataError"}

PipelineAssumption == Probes \subseteq Requests /\ None \notin Requests \cup Errors
ASSUME PipelineAssumption

VARIABLES
  pc,        \* where the request is
  context,   \* request_id among the context variables of its task
  status,    \* of the response, None before it is sent
  header,    \* X-Request-Id of the response
  logged,    \* the request_ids that its log lines carried
  error,     \* class of the exception a statement raised
  locked,    \* whether a re-seed holds the tables
  outage     \* history: whether the server has ever been down

taskVars == <<pc, context, status, header, logged, error>>
vars     == <<poolVars, taskVars, locked, outage>>

Init ==
  /\ PoolInit
  /\ pc = [r \in Requests |-> "unsent"]
  /\ context = [r \in Requests |-> None]
  /\ status = [r \in Requests |-> None]
  /\ header = [r \in Requests |-> None]
  /\ logged = [r \in Requests |-> {}]
  /\ error = [r \in Requests |-> None]
  /\ locked = FALSE
  /\ outage = FALSE

-----------------------------------------------------------------------------
(* RequestIdMiddleware.  The id, inbound or drawn, is called by the name of *)
(* its request.                                                             *)

\* Variant: the id in a variable of the module, which all tasks share.
BindShared(r, id) == [q \in Requests |-> id]

\* bind_contextvars and clear_contextvars, in the task of r.
Bind(r, id) == [context EXCEPT ![r] = id]

\* An inbound id that is not UTF-8 raises before anything is bound.
Arrive(r) ==
  /\ pc[r] = "unsent"
  /\ \/ /\ context' = Bind(r, r)
        /\ pc' = [pc EXCEPT ![r] = "handling"]
     \/ /\ pc' = [pc EXCEPT ![r] = "unhandled"]
        /\ UNCHANGED context
  /\ UNCHANGED <<poolVars, status, header, logged, error, locked, outage>>

\* A response on its way through send_with_header.
Send(r, code) ==
  /\ status' = [status EXCEPT ![r] = code]
  /\ header' = [header EXCEPT ![r] = r]

\* Parameters that fail validation: the handler of 422 answers, and the
\* session in get_db was not used.
Reject(r) ==
  /\ pc[r] = "handling" /\ conn[r] = "none"
  /\ r \notin Probes
  /\ Send(r, 422)
  /\ context' = Bind(r, None)
  /\ pc' = [pc EXCEPT ![r] = "done"]
  /\ UNCHANGED <<poolVars, logged, error, locked, outage>>

-----------------------------------------------------------------------------
(* The endpoint. *)

CheckOut(r) ==
  /\ pc[r] = "handling"
  /\ TakeFresh(r) \/ TakeStale(r) \/ Grow(r) \/ Wait(r) \/ Connect(r)
  /\ UNCHANGED <<taskVars, locked, outage>>

\* A statement that raises: healthz catches it, logs it and answers 503.
Raise(r, class) ==
  /\ error' = [error EXCEPT ![r] = class]
  /\ IF r \in Probes
       THEN /\ logged' = [logged EXCEPT ![r] = @ \cup {context[r]}]
            /\ Send(r, 503)
            /\ pc' = [pc EXCEPT ![r] = "responded"]
       ELSE /\ pc' = [pc EXCEPT ![r] = "failing"]
            /\ UNCHANGED <<logged, status, header>>
  /\ UNCHANGED <<context, locked, outage>>

\* Variant: a pool without a timeout waits until a connection is returned.
CheckOutFailsLate(r) ==
  /\ pc[r] = "handling"
  /\ ConnectFails(r) /\ Raise(r, "ConnectionError")

\* Variant: a driver that tries to connect until the server is back.
CheckOutFailsHanging(r) ==
  /\ pc[r] = "handling"
  /\ TimeOut(r) /\ Raise(r, "TimeoutError")

CheckOutFails(r) ==
  /\ pc[r] = "handling"
  /\ \/ TimeOut(r) /\ Raise(r, "TimeoutError")
     \/ ConnectFails(r) /\ Raise(r, "ConnectionError")

ExecuteLost(r) ==
  /\ pc[r] = "handling"
  /\ conn[r] = "lost"
  /\ Raise(r, "ConnectionError")
  /\ UNCHANGED poolVars

CanExecute(r) == conn[r] = "live" /\ (r \in Probes \/ ~ locked)

Answer(r) ==
  /\ pc[r] = "handling"
  /\ CanExecute(r)
  /\ Send(r, 200)
  /\ pc' = [pc EXCEPT ![r] = "responded"]
  /\ UNCHANGED <<poolVars, context, logged, error, locked, outage>>

\* Nothing found: the HTTPException passes get_db before it is answered.
NotFound(r) ==
  /\ pc[r] = "handling"
  /\ CanExecute(r) /\ r \notin Probes
  /\ pc' = [pc EXCEPT ![r] = "not found"]
  /\ UNCHANGED <<poolVars, context, status, header, logged, error, locked, outage>>

\* A read that waits for a re-seed, which waits for it, may be the one aborted; an
\* id past 32 bits, or a negative limit, is refused on the connection.
Aborted(r) ==
  /\ pc[r] = "handling"
  /\ conn[r] = "live" /\ r \notin Probes
  /\ \/ locked /\ Raise(r, "DeadlockDetected")
     \/ Raise(r, "DataError")
  /\ UNCHANGED poolVars

-----------------------------------------------------------------------------
(* The way back: get_db closes the session, the middleware clears the       *)
(* context, and only then the handler for unhandled exceptions runs.        *)

CloseResponded(r) ==
  /\ pc[r] = "responded"
  /\ Return(r)
  /\ context' = Bind(r, None)
  /\ pc' = [pc EXCEPT ![r] = "done"]
  /\ UNCHANGED <<status, header, logged, error, locked, outage>>

CloseNotFound(r) ==
  /\ pc[r] = "not found"
  /\ Return(r)
  /\ Send(r, 404)
  /\ context' = Bind(r, None)
  /\ pc' = [pc EXCEPT ![r] = "done"]
  /\ UNCHANGED <<logged, error, locked, outage>>

\* Variant: get_db without the finally.
CloseFailingLeaks(r) ==
  /\ pc[r] = "failing"
  /\ context' = Bind(r, None)
  /\ pc' = [pc EXCEPT ![r] = "unhandled"]
  /\ UNCHANGED <<poolVars, status, header, logged, error, locked, outage>>

CloseFailing(r) ==
  /\ pc[r] = "failing"
  /\ Return(r)
  /\ context' = Bind(r, None)
  /\ pc' = [pc EXCEPT ![r] = "unhandled"]
  /\ UNCHANGED <<status, header, logged, error, locked, outage>>

HandleUnhandled(r) ==
  /\ pc[r] = "unhandled"
  /\ logged' = [logged EXCEPT ![r] = @ \cup {context[r]}]
  /\ status' = [status EXCEPT ![r] = 500]
  /\ pc' = [pc EXCEPT ![r] = "done"]
  /\ UNCHANGED <<poolVars, context, header, error, locked, outage>>

-----------------------------------------------------------------------------
(* The database, and a re-seed that locks and unlocks the tables. *)

Server ==
  /\ Suspend \/ GoDown \/ ComeUp
  /\ outage' = (outage \/ database' = "down")
  /\ UNCHANGED <<taskVars, locked>>

Reseed ==
  /\ locked' = ~ locked
  /\ UNCHANGED <<poolVars, taskVars, outage>>

Step(r) ==
  \/ Reject(r) \/ CheckOut(r) \/ CheckOutFails(r)
  \/ ExecuteLost(r) \/ Answer(r) \/ NotFound(r)
  \/ CloseResponded(r) \/ CloseNotFound(r) \/ CloseFailing(r) \/ HandleUnhandled(r)

Next ==
  \/ \E r \in Requests : Arrive(r) \/ Step(r) \/ Aborted(r)
  \/ Server
  \/ Reseed

Spec == Init /\ [][Next]_vars

\* The event loop runs every task; nobody has to send, lock or unlock anything.
FairSpec == Spec /\ \A r \in Requests : WF_vars(Step(r))

-----------------------------------------------------------------------------
(* Properties. *)

TypeOK ==
  /\ PoolTypeOK
  /\ pc \in [Requests -> {"unsent", "handling", "responded", "not found",
                          "failing", "unhandled", "done"}]
  /\ context \in [Requests -> Requests \cup {None}]
  /\ status \in [Requests -> {None, 200, 404, 422, 500, 503}]
  /\ header \in [Requests -> Requests \cup {None}]
  /\ logged \in [Requests -> SUBSET (Requests \cup {None})]
  /\ error \in [Requests -> Errors \cup {None}]
  /\ locked \in BOOLEAN /\ outage \in BOOLEAN

\* Every path through an endpoint, also one that raises, gives its connection
\* back: the pool's books are right and only a request under way has one.
NothingLeaks ==
  /\ PoolAccounted
  /\ \A r \in Requests :
       conn[r] # "none" => pc[r] \in {"handling", "responded", "not found", "failing"}

\* While the server has never been down, no request fails for a connection that
\* was closed behind the pool's back ("survives stale Neon connections", db.py:9).
SuspendsUnnoticed ==
  ~ outage => \A r \in Requests : error[r] # "ConnectionError"

\* However requests interleave, no response or log line has another's id; the
\* only ones without an id are those of the handler for unhandled exceptions.
OwnIds ==
  \A r \in Requests :
    /\ pc[r] \in {"handling", "responded", "not found", "failing"} => context[r] = r
    /\ logged[r] \subseteq {r, None}
    /\ status[r] \notin {None, 500} => header[r] = r /\ logged[r] \subseteq {r}

\* A probe is answered even if a re-seed never ends and holds up every read:
\* it needs no table and does not wait for a connection for ever.
ProbesAnswered ==
  \A r \in Probes : pc[r] = "handling" ~> pc[r] = "done"

\* So is every request, unless a re-seed holds the tables for ever.
RequestsAnswered ==
  <>[] ~ locked => \A r \in Requests : pc[r] = "handling" ~> pc[r] = "done"

\* middleware.py:6 promises the id on every log line within the request, here
\* one whose statement raised.
LinesHaveIds == \A r \in Requests : error[r] # None => logged[r] \subseteq {r}
=============================================================================
