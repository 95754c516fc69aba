----------------------- MODULE RequestPipeline_proofs -----------------------
(***************************************************************************)
(* Any number of requests over a pool of any size: its connections are     *)
(* accounted for, and nobody gets another's request id.                    *)
(***************************************************************************)
EXTENDS RequestPipeline, FiniteSetTheorems, TLAPS

ConnType == [Requests -> Held \cup {"none", "waiting"}]

PoolInv == PoolTypeOK /\ PoolAccounted

-----------------------------------------------------------------------------
(* The pool. *)

\* When one request's share of the pool changes, so may the number of holders.
LEMMA HoldersChange ==
  ASSUME conn \in ConnType, NEW r \in Requests, NEW v, conn' = [conn EXCEPT ![r] = v]
  PROVE  /\ Cardinality(Holders) \in Nat
         /\ v \in Held /\ conn[r] \notin Held => Cardinality(Holders') = Cardinality(Holders) + 1
         /\ v \notin Held /\ conn[r] \in Held =>
              /\ Cardinality(Holders') = Cardinality(Holders) - 1
              /\ Cardinality(Holders) > 0
         /\ v \in Held /\ conn[r] \in Held => Cardinality(Holders') = Cardinality(Holders)
         /\ v \notin Held /\ conn[r] \notin Held => Cardinality(Holders') = Cardinality(Holders)
<1>1. IsFiniteSet(Holders) /\ Cardinality(Holders) \in Nat
  BY PoolAssumption, FS_Subset, FS_CardinalityType DEF PoolAssumption, Holders
<1>2. Holders' = IF v \in Held THEN Holders \cup {r} ELSE Holders \ {r}
  BY DEF ConnType, Holders
<1>3. r \in Holders <=> conn[r] \in Held
  BY DEF Holders
<1>4. CASE v \in Held
  BY <1>1, <1>2, <1>3, <1>4, FS_AddElement
<1>5. CASE v \notin Held
  <2>1. Cardinality(Holders \ {r}) = IF r \in Holders THEN Cardinality(Holders) - 1
                                                     ELSE Cardinality(Holders)
    BY <1>1, FS_RemoveElement
  <2>2. r \in Holders => Cardinality(Holders) > 0
    BY <1>1, FS_EmptySet
  <2> QED
    BY <1>1, <1>2, <1>3, <1>5, <2>1, <2>2
<1> QED
  BY <1>4, <1>5

\* Facts about the bounds that every step below uses.
LEMMA Sizes == PoolSize \in Nat /\ PoolSize > 0 /\ MaxOverflow \in Nat /\ Capacity \in Nat /\ Capacity >= PoolSize
  BY PoolAssumption DEF PoolAssumption, Capacity

LEMMA TakeKeepsPool ==
  ASSUME PoolInv, NEW r \in Requests,
         TakeFresh(r) \/ TakeStale(r) \/ Grow(r) \/ Wait(r) \/ Connect(r)
  PROVE  PoolInv'
<1>1. /\ conn \in ConnType /\ fresh \in Nat /\ stale \in Nat /\ opened \in Nat
      /\ database \in {"up", "down"}
      /\ opened = fresh + stale + Cardinality(Holders)
      /\ opened <= Capacity /\ fresh + stale <= PoolSize
  BY DEF PoolInv, PoolTypeOK, PoolAccounted, ConnType
<1>2. CASE TakeFresh(r)
  <2>1. /\ conn[r] \notin Held /\ "live" \in Held
        /\ conn' = [conn EXCEPT ![r] = "live"] /\ conn' \in ConnType
        /\ fresh > 0 /\ fresh' = fresh - 1 /\ UNCHANGED <<stale, opened, database>>
    BY <1>1, <1>2 DEF TakeFresh, Held, ConnType
  <2>2. Cardinality(Holders) \in Nat /\ Cardinality(Holders') = Cardinality(Holders) + 1
    BY <1>1, <2>1, HoldersChange
  <2> QED
    BY <1>1, <2>1, <2>2, Sizes DEF PoolInv, PoolTypeOK, PoolAccounted, ConnType
<1>3. CASE TakeStale(r)
  <2>1. PICK v \in Held : conn' = [conn EXCEPT ![r] = v]
    BY <1>3 DEF TakeStale, Held
  <2>2. /\ conn[r] \notin Held /\ conn' \in ConnType
        /\ stale > 0 /\ stale' = stale - 1 /\ UNCHANGED <<fresh, opened, database>>
    BY <1>1, <1>3, <2>1 DEF TakeStale, Held, ConnType
  <2>3. Cardinality(Holders) \in Nat /\ Cardinality(Holders') = Cardinality(Holders) + 1
    BY <1>1, <2>1, <2>2, HoldersChange
  <2> QED
    BY <1>1, <2>2, <2>3, Sizes DEF PoolInv, PoolTypeOK, PoolAccounted, ConnType
<1>4. CASE Grow(r)
  <2>1. /\ conn[r] \notin Held /\ "opening" \in Held
        /\ conn' = [conn EXCEPT ![r] = "opening"] /\ conn' \in ConnType
        /\ opened < Capacity /\ opened' = opened + 1 /\ UNCHANGED <<fresh, stale, database>>
    BY <1>1, <1>4 DEF Grow, Held, ConnType
  <2>2. Cardinality(Holders) \in Nat /\ Cardinality(Holders') = Cardinality(Holders) + 1
    BY <1>1, <2>1, HoldersChange
  <2> QED
    BY <1>1, <2>1, <2>2, Sizes DEF PoolInv, PoolTypeOK, PoolAccounted, ConnType
<1>5. CASE Wait(r)
  <2>1. /\ conn[r] \notin Held /\ "waiting" \notin Held
        /\ conn' = [conn EXCEPT ![r] = "waiting"] /\ conn' \in ConnType
        /\ UNCHANGED <<fresh, stale, opened, database>>
    BY <1>1, <1>5 DEF Wait, Held, ConnType
  <2>2. Cardinality(Holders') = Cardinality(Holders)
    BY <1>1, <2>1, HoldersChange
  <2> QED
    BY <1>1, <2>1, <2>2 DEF PoolInv, PoolTypeOK, PoolAccounted, ConnType
<1>6. CASE Connect(r)
  <2>1. /\ conn[r] \in Held /\ "live" \in Held
        /\ conn' = [conn EXCEPT ![r] = "live"] /\ conn' \in ConnType
        /\ UNCHANGED <<fresh, stale, opened, database>>
    BY <1>1, <1>6 DEF Connect, Held, ConnType
  <2>2. Cardinality(Holders') = Cardinality(Holders)
    BY <1>1, <2>1, HoldersChange
  <2> QED
    BY <1>1, <2>1, <2>2 DEF PoolInv, PoolTypeOK, PoolAccounted, ConnType
<1> QED
  BY <1>2, <1>3, <1>4, <1>5, <1>6

\* A holder puts its connection into the queue, or closes it.
LEMMA EnqueueKeepsPool ==
  ASSUME PoolInv, NEW r \in Requests, conn[r] \in Held, NEW isFresh \in BOOLEAN,
         Enqueue(isFresh), conn' = [conn EXCEPT ![r] = "none"], UNCHANGED database
  PROVE  PoolInv'
<1>1. /\ conn \in ConnType /\ fresh \in Nat /\ stale \in Nat /\ opened \in Nat
      /\ database \in {"up", "down"}
      /\ opened = fresh + stale + Cardinality(Holders)
      /\ opened <= Capacity /\ fresh + stale <= PoolSize
  BY DEF PoolInv, PoolTypeOK, PoolAccounted, ConnType
<1>2. "none" \notin Held /\ conn' \in ConnType
  BY <1>1 DEF Held, ConnType
<1>3. /\ Cardinality(Holders) \in Nat /\ Cardinality(Holders) > 0
      /\ Cardinality(Holders') = Cardinality(Holders) - 1
  BY <1>1, <1>2, HoldersChange
<1>4. CASE fresh + stale < PoolSize
  <2>1. opened' = opened /\ fresh' + stale' = (fresh + stale) + 1 /\ fresh' \in Nat /\ stale' \in Nat
    BY <1>1, <1>4 DEF Enqueue
  <2>2. fresh + stale + 1 <= PoolSize
    BY <1>1, <1>4, Sizes
  <2>3. fresh' + stale' <= PoolSize
    BY <2>1, <2>2
  <2>4. fresh' + stale' + Cardinality(Holders') = fresh + stale + Cardinality(Holders)
    <3>1. CASE isFresh
      <4>1. fresh' = fresh + 1 /\ stale' = stale
        BY <1>4, <3>1 DEF Enqueue
      <4> QED
        BY <1>1, <1>3, <4>1
    <3>2. CASE ~ isFresh
      <4>1. fresh' = fresh /\ stale' = stale + 1
        BY <1>4, <3>2 DEF Enqueue
      <4> QED
        BY <1>1, <1>3, <4>1
    <3> QED
      BY <3>1, <3>2
  <2> QED
    BY <1>1, <1>2, <2>1, <2>3, <2>4 DEF PoolInv, PoolTypeOK, PoolAccounted, ConnType
<1>5. CASE ~ (fresh + stale < PoolSize)
  <2>1. opened' = opened - 1 /\ UNCHANGED <<fresh, stale>>
    BY <1>5 DEF Enqueue
  <2> QED
    BY <1>1, <1>2, <1>3, <2>1, Sizes DEF PoolInv, PoolTypeOK, PoolAccounted, ConnType
<1> QED
  BY <1>4, <1>5

LEMMA FailKeepsPool ==
  ASSUME PoolInv, NEW r \in Requests, TimeOut(r) \/ ConnectFails(r)
  PROVE  PoolInv'
<1>1. /\ conn \in ConnType /\ fresh \in Nat /\ stale \in Nat /\ opened \in Nat
      /\ database \in {"up", "down"}
      /\ opened = fresh + stale + Cardinality(Holders)
      /\ opened <= Capacity /\ fresh + stale <= PoolSize
  BY DEF PoolInv, PoolTypeOK, PoolAccounted, ConnType
<1>2. "none" \notin Held /\ "waiting" \notin Held /\ "opening" \in Held /\ "reopening" \in Held
  BY DEF Held
<1>3. CASE TimeOut(r)
  <2>1. /\ conn[r] \notin Held
        /\ conn' = [conn EXCEPT ![r] = "none"] /\ conn' \in ConnType
        /\ UNCHANGED <<fresh, stale, opened, database>>
    BY <1>1, <1>2, <1>3 DEF TimeOut, ConnType
  <2>2. Cardinality(Holders') = Cardinality(Holders)
    BY <1>1, <1>2, <2>1, HoldersChange
  <2> QED
    BY <1>1, <2>1, <2>2 DEF PoolInv, PoolTypeOK, PoolAccounted, ConnType
<1>4. CASE ConnectFails(r) /\ conn[r] = "opening"
  <2>1. /\ conn' = [conn EXCEPT ![r] = "none"] /\ conn' \in ConnType
        /\ opened' = opened - 1 /\ UNCHANGED <<fresh, stale, database>>
    BY <1>1, <1>4 DEF ConnectFails, ConnType
  <2>2. /\ Cardinality(Holders) \in Nat /\ Cardinality(Holders) > 0
        /\ Cardinality(Holders') = Cardinality(Holders) - 1
    BY <1>1, <1>2, <1>4, <2>1, HoldersChange
  <2> QED
    BY <1>1, <2>1, <2>2, Sizes DEF PoolInv, PoolTypeOK, PoolAccounted, ConnType
<1>5. CASE ConnectFails(r) /\ conn[r] = "reopening"
  BY <1>2, <1>5, EnqueueKeepsPool DEF ConnectFails
<1> QED
  BY <1>3, <1>4, <1>5 DEF ConnectFails

LEMMA ReturnKeepsPool ==
  ASSUME PoolInv, NEW r \in Requests, Return(r)
  PROVE  PoolInv' /\ conn' = [conn EXCEPT ![r] = "none"]
<1>1. CASE conn[r] = "none"
  <2>1. conn' = conn /\ UNCHANGED <<fresh, stale, opened, database>>
    BY <1>1 DEF Return, PoolInv, PoolTypeOK
  <2> QED
    BY <2>1 DEF Return, PoolInv, PoolTypeOK, PoolAccounted, Holders
<1>2. CASE conn[r] # "none"
  BY <1>2, EnqueueKeepsPool DEF Return, Held
<1> QED
  BY <1>1, <1>2

LEMMA ServerKeepsPool ==
  ASSUME PoolInv, Suspend \/ GoDown \/ ComeUp
  PROVE  PoolInv' /\ \A r \in Requests : conn[r] = "none" => conn'[r] = "none"
<1>1. /\ conn \in ConnType /\ fresh \in Nat /\ stale \in Nat
  BY DEF PoolInv, PoolTypeOK, ConnType
<1>2. conn' \in ConnType /\ Holders' = Holders /\ \A r \in Requests : conn[r] = "none" => conn'[r] = "none"
  BY <1>1 DEF Suspend, GoDown, ComeUp, ConnType, Holders, Held
<1>3. fresh' \in Nat /\ stale' \in Nat /\ fresh' + stale' = fresh + stale
      /\ opened' = opened /\ database' \in {"up", "down"}
  BY <1>1 DEF Suspend, GoDown, ComeUp, PoolInv, PoolTypeOK
<1> QED
  BY <1>1, <1>2, <1>3 DEF PoolInv, PoolTypeOK, PoolAccounted, ConnType

-----------------------------------------------------------------------------
(* The tasks. *)

UnderWay == {"handling", "responded", "not found", "failing"}

Points   == UnderWay \cup {"unsent", "unhandled", "done"}
Statuses == {None, 200, 404, 422, 500, 503}

TaskTypes ==
  /\ pc \in [Requests -> Points]
  /\ context \in [Requests -> Requests \cup {None}]
  /\ status \in [Requests -> Statuses]
  /\ header \in [Requests -> Requests \cup {None}]
  /\ logged \in [Requests -> SUBSET (Requests \cup {None})]
  /\ error \in [Requests -> Errors \cup {None}]
  /\ locked \in BOOLEAN /\ outage \in BOOLEAN

\* OwnIds, and that every line logged before the last step has an id: p is
\* where a request r is, c its context, s its status, h its header, l its log.
GoodIds(r, p, c, s, h, l) ==
  /\ p \in UnderWay => c = r
  /\ c \in {r, None}
  /\ p # "done" => l \subseteq {r}
  /\ l \subseteq {r, None}
  /\ s \notin {None, 500} => h = r /\ l \subseteq {r}

Ids(r) == GoodIds(r, pc[r], context[r], status[r], header[r], logged[r])

TaskInv == TaskTypes /\ \A r \in Requests : Ids(r)

LEMMA TaskInitial == Init => TaskInv
<1> SUFFICES ASSUME Init PROVE TaskInv
  OBVIOUS
<1>1. TaskTypes
  BY DEF Init, TaskTypes, Points, Statuses
<1>2. ASSUME NEW r \in Requests PROVE Ids(r)
  <2>1. pc[r] = "unsent" /\ context[r] = None /\ status[r] = None /\ logged[r] = {}
    BY DEF Init
  <2> QED
    BY <2>1 DEF Ids, GoodIds, UnderWay
<1> QED
  BY <1>1, <1>2 DEF TaskInv

\* A step changes one task: it is enough to look at that one.
Same(q) ==
  /\ pc'[q] = pc[q] /\ context'[q] = context[q] /\ status'[q] = status[q]
  /\ header'[q] = header[q] /\ logged'[q] = logged[q]

LEMMA OneTask ==
  ASSUME TaskInv, NEW r \in Requests, TaskTypes', Ids(r)',
         \A q \in Requests : q # r => Same(q)
  PROVE  TaskInv'
<1>1. ASSUME NEW q \in Requests, q # r PROVE Ids(q)'
  <2>1. Ids(q) /\ Same(q)
    BY <1>1 DEF TaskInv
  <2> QED
    BY <2>1 DEF Ids, GoodIds, Same
<1> QED
  BY <1>1 DEF TaskInv

\* What is known of a request that has not been answered.
LEMMA Unanswered ==
  ASSUME TaskInv, NEW r \in Requests, pc[r] # "done"
  PROVE  /\ pc[r] \in UnderWay => context[r] = r
         /\ context[r] \in {r, None} /\ logged[r] \subseteq {r}
         /\ status[r] \notin {None, 500} => header[r] = r
  BY DEF TaskInv, Ids, GoodIds

LEMMA ArriveKeepsTasks ==
  ASSUME TaskInv, NEW r \in Requests, Arrive(r)
  PROVE  TaskInv'
<1>1. /\ pc[r] = "unsent"
      /\ UNCHANGED <<status, header, logged, error, locked, outage>>
  BY DEF Arrive
<1>2. PICK c \in {r, context[r]}, p \in {"handling", "unhandled"} :
        /\ context' = [context EXCEPT ![r] = c] /\ pc' = [pc EXCEPT ![r] = p]
        /\ p = "handling" => c = r
  BY DEF Arrive, Bind, TaskInv, TaskTypes
<1>3. TaskTypes'
  BY <1>1, <1>2 DEF TaskInv, TaskTypes, Points, UnderWay
<1>4. \A q \in Requests : q # r => Same(q)
  BY <1>1, <1>2 DEF TaskInv, TaskTypes, Same
<1>5. Ids(r)'
  <2>1. /\ pc'[r] = p /\ context'[r] = c /\ status'[r] = status[r]
        /\ header'[r] = header[r] /\ logged'[r] = logged[r]
    BY <1>1, <1>2 DEF TaskInv, TaskTypes
  <2>2. context[r] \in {r, None} /\ logged[r] \subseteq {r} /\ (status[r] \notin {None, 500} => header[r] = r)
    BY <1>1, Unanswered
  <2>3. (p \in UnderWay => c = r) /\ c \in {r, None}
    BY <1>2, <2>2 DEF UnderWay
  <2> QED
    BY <2>1, <2>2, <2>3 DEF Ids, GoodIds
<1> QED
  BY <1>3, <1>4, <1>5, OneTask

LEMMA RejectKeepsTasks ==
  ASSUME TaskInv, NEW r \in Requests, Reject(r)
  PROVE  TaskInv'
<1>1. /\ pc[r] = "handling" /\ pc' = [pc EXCEPT ![r] = "done"]
      /\ status' = [status EXCEPT ![r] = 422] /\ header' = [header EXCEPT ![r] = r]
      /\ context' = [context EXCEPT ![r] = None]
      /\ UNCHANGED <<logged, error, locked, outage>>
  BY DEF Reject, Send, Bind
<1>2. TaskTypes'
  BY <1>1 DEF TaskInv, TaskTypes, Points, Statuses
<1>3. \A q \in Requests : q # r => Same(q)
  BY <1>1 DEF TaskInv, TaskTypes, Same
<1>4. Ids(r)'
  <2>1. pc'[r] = "done" /\ context'[r] = None /\ header'[r] = r /\ logged'[r] = logged[r]
    BY <1>1 DEF TaskInv, TaskTypes
  <2>2. logged[r] \subseteq {r}
    BY <1>1, Unanswered
  <2> QED
    BY <2>1, <2>2 DEF Ids, GoodIds, UnderWay
<1> QED
  BY <1>2, <1>3, <1>4, OneTask

LEMMA RaiseKeepsTasks ==
  ASSUME TaskInv, NEW r \in Requests, NEW class \in Errors, pc[r] = "handling", Raise(r, class)
  PROVE  TaskInv'
<1>1. context[r] = r /\ logged[r] \subseteq {r} /\ (status[r] \notin {None, 500} => header[r] = r)
  BY Unanswered DEF UnderWay
<1>2. error' = [error EXCEPT ![r] = class] /\ UNCHANGED <<context, locked, outage>>
  BY DEF Raise
<1>3. CASE r \in Probes
  <2>1. /\ logged' = [logged EXCEPT ![r] = logged[r] \cup {r}]
        /\ status' = [status EXCEPT ![r] = 503] /\ header' = [header EXCEPT ![r] = r]
        /\ pc' = [pc EXCEPT ![r] = "responded"]
    BY <1>1, <1>3 DEF Raise, Send
  <2>2. TaskTypes'
    <3>1. /\ pc' \in [Requests -> Points] /\ context' \in [Requests -> Requests \cup {None}]
          /\ error' \in [Requests -> Errors \cup {None}]
          /\ locked' \in BOOLEAN /\ outage' \in BOOLEAN
      BY <1>2, <2>1 DEF TaskInv, TaskTypes, Points, UnderWay
    <3>2. status' \in [Requests -> Statuses] /\ header' \in [Requests -> Requests \cup {None}]
      BY <2>1 DEF TaskInv, TaskTypes, Statuses
    <3>3. logged' \in [Requests -> SUBSET (Requests \cup {None})]
      BY <2>1 DEF TaskInv, TaskTypes
    <3> QED
      BY <3>1, <3>2, <3>3 DEF TaskTypes
  <2>3. \A q \in Requests : q # r => Same(q)
    BY <1>2, <2>1 DEF TaskInv, TaskTypes, Same
  <2>4. Ids(r)'
    <3>1. /\ pc'[r] = "responded" /\ context'[r] = r /\ header'[r] = r
          /\ logged'[r] = logged[r] \cup {r}
      BY <1>1, <1>2, <2>1 DEF TaskInv, TaskTypes
    <3> QED
      BY <1>1, <3>1 DEF Ids, GoodIds, UnderWay
  <2> QED
    BY <2>2, <2>3, <2>4, OneTask
<1>4. CASE r \notin Probes
  <2>1. pc' = [pc EXCEPT ![r] = "failing"] /\ UNCHANGED <<logged, status, header>>
    BY <1>4 DEF Raise
  <2>2. TaskTypes'
    BY <1>2, <2>1 DEF TaskInv, TaskTypes, Points, UnderWay
  <2>3. \A q \in Requests : q # r => Same(q)
    BY <1>2, <2>1 DEF TaskInv, TaskTypes, Same
  <2>4. Ids(r)'
    <3>1. /\ pc'[r] = "failing" /\ context'[r] = r /\ status'[r] = status[r]
          /\ header'[r] = header[r] /\ logged'[r] = logged[r]
      BY <1>1, <1>2, <2>1 DEF TaskInv, TaskTypes
    <3> QED
      BY <1>1, <3>1 DEF Ids, GoodIds, UnderWay
  <2> QED
    BY <2>2, <2>3, <2>4, OneTask
<1> QED
  BY <1>3, <1>4

LEMMA AnswerKeepsTasks ==
  ASSUME TaskInv, NEW r \in Requests, Answer(r)
  PROVE  TaskInv'
<1>1. /\ pc[r] = "handling" /\ pc' = [pc EXCEPT ![r] = "responded"]
      /\ status' = [status EXCEPT ![r] = 200] /\ header' = [header EXCEPT ![r] = r]
      /\ UNCHANGED <<context, logged, error, locked, outage>>
  BY DEF Answer, Send
<1>2. TaskTypes'
  BY <1>1 DEF TaskInv, TaskTypes, Points, Statuses, UnderWay
<1>3. \A q \in Requests : q # r => Same(q)
  BY <1>1 DEF TaskInv, TaskTypes, Same
<1>4. Ids(r)'
  <2>1. pc'[r] = "responded" /\ context'[r] = context[r] /\ header'[r] = r /\ logged'[r] = logged[r]
    BY <1>1 DEF TaskInv, TaskTypes
  <2>2. context[r] = r /\ logged[r] \subseteq {r}
    BY <1>1, Unanswered DEF UnderWay
  <2> QED
    BY <2>1, <2>2 DEF Ids, GoodIds, UnderWay
<1> QED
  BY <1>2, <1>3, <1>4, OneTask

LEMMA NotFoundKeepsTasks ==
  ASSUME TaskInv, NEW r \in Requests, NotFound(r)
  PROVE  TaskInv'
<1>1. /\ pc[r] = "handling" /\ pc' = [pc EXCEPT ![r] = "not found"]
      /\ UNCHANGED <<context, status, header, logged, error, locked, outage>>
  BY DEF NotFound
<1>2. TaskTypes'
  BY <1>1 DEF TaskInv, TaskTypes, Points, UnderWay
<1>3. \A q \in Requests : q # r => Same(q)
  BY <1>1 DEF TaskInv, TaskTypes, Same
<1>4. Ids(r)'
  <2>1. /\ pc'[r] = "not found" /\ context'[r] = context[r] /\ status'[r] = status[r]
        /\ header'[r] = header[r] /\ logged'[r] = logged[r]
    BY <1>1 DEF TaskInv, TaskTypes
  <2>2. context[r] = r /\ logged[r] \subseteq {r} /\ (status[r] \notin {None, 500} => header[r] = r)
    BY <1>1, Unanswered DEF UnderWay
  <2>3. "not found" \in UnderWay /\ "not found" # "done"
    BY DEF UnderWay
  <2> QED
    BY <2>1, <2>2, <2>3 DEF Ids, GoodIds
<1> QED
  BY <1>2, <1>3, <1>4, OneTask

LEMMA CloseRespondedKeepsTasks ==
  ASSUME TaskInv, NEW r \in Requests, CloseResponded(r)
  PROVE  TaskInv'
<1>1. /\ pc[r] = "responded" /\ pc' = [pc EXCEPT ![r] = "done"]
      /\ context' = [context EXCEPT ![r] = None]
      /\ UNCHANGED <<status, header, logged, error, locked, outage>>
  BY DEF CloseResponded, Bind
<1>2. TaskTypes'
  BY <1>1 DEF TaskInv, TaskTypes, Points
<1>3. \A q \in Requests : q # r => Same(q)
  BY <1>1 DEF TaskInv, TaskTypes, Same
<1>4. Ids(r)'
  <2>1. /\ pc'[r] = "done" /\ context'[r] = None /\ status'[r] = status[r]
        /\ header'[r] = header[r] /\ logged'[r] = logged[r]
    BY <1>1 DEF TaskInv, TaskTypes
  <2>2. logged[r] \subseteq {r} /\ (status[r] \notin {None, 500} => header[r] = r)
    BY <1>1, Unanswered
  <2> QED
    BY <2>1, <2>2 DEF Ids, GoodIds, UnderWay
<1> QED
  BY <1>2, <1>3, <1>4, OneTask

LEMMA CloseNotFoundKeepsTasks ==
  ASSUME TaskInv, NEW r \in Requests, CloseNotFound(r)
  PROVE  TaskInv'
<1>1. /\ pc[r] = "not found" /\ pc' = [pc EXCEPT ![r] = "done"]
      /\ status' = [status EXCEPT ![r] = 404] /\ header' = [header EXCEPT ![r] = r]
      /\ context' = [context EXCEPT ![r] = None]
      /\ UNCHANGED <<logged, error, locked, outage>>
  BY DEF CloseNotFound, Send, Bind
<1>2. TaskTypes'
  BY <1>1 DEF TaskInv, TaskTypes, Points, Statuses
<1>3. \A q \in Requests : q # r => Same(q)
  BY <1>1 DEF TaskInv, TaskTypes, Same
<1>4. Ids(r)'
  <2>1. pc'[r] = "done" /\ context'[r] = None /\ header'[r] = r /\ logged'[r] = logged[r]
    BY <1>1 DEF TaskInv, TaskTypes
  <2>2. logged[r] \subseteq {r}
    BY <1>1, Unanswered
  <2> QED
    BY <2>1, <2>2 DEF Ids, GoodIds, UnderWay
<1> QED
  BY <1>2, <1>3, <1>4, OneTask

LEMMA CloseFailingKeepsTasks ==
  ASSUME TaskInv, NEW r \in Requests, CloseFailing(r)
  PROVE  TaskInv'
<1>1. /\ pc[r] = "failing" /\ pc' = [pc EXCEPT ![r] = "unhandled"]
      /\ context' = [context EXCEPT ![r] = None]
      /\ UNCHANGED <<status, header, logged, error, locked, outage>>
  BY DEF CloseFailing, Bind
<1>2. TaskTypes'
  BY <1>1 DEF TaskInv, TaskTypes, Points
<1>3. \A q \in Requests : q # r => Same(q)
  BY <1>1 DEF TaskInv, TaskTypes, Same
<1>4. Ids(r)'
  <2>1. /\ pc'[r] = "unhandled" /\ context'[r] = None /\ status'[r] = status[r]
        /\ header'[r] = header[r] /\ logged'[r] = logged[r]
    BY <1>1 DEF TaskInv, TaskTypes
  <2>2. logged[r] \subseteq {r} /\ (status[r] \notin {None, 500} => header[r] = r)
    BY <1>1, Unanswered
  <2> QED
    BY <2>1, <2>2 DEF Ids, GoodIds, UnderWay
<1> QED
  BY <1>2, <1>3, <1>4, OneTask

LEMMA HandleUnhandledKeepsTasks ==
  ASSUME TaskInv, NEW r \in Requests, HandleUnhandled(r)
  PROVE  TaskInv'
<1>1. /\ pc[r] = "unhandled" /\ pc' = [pc EXCEPT ![r] = "done"]
      /\ status' = [status EXCEPT ![r] = 500]
      /\ logged' = [logged EXCEPT ![r] = logged[r] \cup {context[r]}]
      /\ UNCHANGED <<context, header, error, locked, outage>>
  BY DEF HandleUnhandled
<1>2. context[r] \in {r, None} /\ logged[r] \subseteq {r}
  BY <1>1, Unanswered
<1>3. TaskTypes'
  <2>1. status' \in [Requests -> Statuses] /\ pc' \in [Requests -> Points]
    BY <1>1 DEF TaskInv, TaskTypes, Points, Statuses
  <2>2. logged' \in [Requests -> SUBSET (Requests \cup {None})]
    BY <1>1 DEF TaskInv, TaskTypes
  <2> QED
    BY <1>1, <2>1, <2>2 DEF TaskInv, TaskTypes
<1>4. \A q \in Requests : q # r => Same(q)
  BY <1>1 DEF TaskInv, TaskTypes, Same
<1>5. Ids(r)'
  <2>1. /\ pc'[r] = "done" /\ context'[r] = context[r] /\ status'[r] = 500
        /\ logged'[r] = logged[r] \cup {context[r]}
    BY <1>1 DEF TaskInv, TaskTypes
  <2> QED
    BY <1>2, <2>1 DEF Ids, GoodIds, UnderWay
<1> QED
  BY <1>3, <1>4, <1>5, OneTask

-----------------------------------------------------------------------------
(* Tasks and pool together. *)

\* A request has a share of the pool only until get_db closes its session.
HeldUnderWay == \A r \in Requests : conn[r] # "none" => pc[r] \in UnderWay

\* No connection breaks in anyone's hands while the server stays up.
Unbroken ==
  ~ outage => /\ database = "up"
              /\ \A r \in Requests : conn[r] # "lost" /\ error[r] # "ConnectionError"

PipelineInv == PoolInv /\ TaskInv /\ HeldUnderWay /\ Unbroken

LEMMA PipelineInitial == Init => PipelineInv
<1> SUFFICES ASSUME Init PROVE PipelineInv
  OBVIOUS
<1>1. TaskInv
  BY TaskInitial
<1>2. Holders = {}
  BY DEF Init, PoolInit, Holders, Held
<1>3. PoolInv
  BY <1>2, FS_EmptySet, Sizes DEF Init, PoolInit, PoolInv, PoolTypeOK, PoolAccounted
<1>4. HeldUnderWay /\ Unbroken
  <2>1. "ConnectionError" # None
    BY PipelineAssumption DEF PipelineAssumption, Errors
  <2> QED
    BY <2>1 DEF Init, PoolInit, HeldUnderWay, Unbroken
<1> QED
  BY <1>1, <1>3, <1>4 DEF PipelineInv

\* A step of one request: what it has to establish is about that request.
LEMMA OneStep ==
  ASSUME PipelineInv, PoolInv', TaskInv', NEW r \in Requests,
         \A q \in Requests : q # r => conn'[q] = conn[q] /\ pc'[q] = pc[q] /\ error'[q] = error[q],
         conn'[r] # "none" => pc'[r] \in UnderWay,
         ~ outage => conn'[r] # "lost" /\ error'[r] # "ConnectionError",
         UNCHANGED <<outage, database>>
  PROVE  PipelineInv'
<1>1. HeldUnderWay'
  BY DEF PipelineInv, HeldUnderWay
<1>2. Unbroken'
  BY DEF PipelineInv, Unbroken
<1> QED
  BY <1>1, <1>2 DEF PipelineInv

\* Arriving and answering leave the pool alone.
LEMMA PoolAloneStep ==
  ASSUME PipelineInv, TaskInv', NEW r \in Requests, UNCHANGED <<poolVars, outage>>,
         \A q \in Requests : q # r => pc'[q] = pc[q] /\ error'[q] = error[q],
         conn[r] # "none" => pc'[r] \in UnderWay,
         error'[r] = error[r] \/ error'[r] # "ConnectionError" \/ conn[r] = "lost"
  PROVE  PipelineInv'
<1>1. UNCHANGED <<conn, fresh, stale, opened, database>>
  BY DEF poolVars
<1>2. PoolInv'
  BY <1>1 DEF PipelineInv, PoolInv, PoolTypeOK, PoolAccounted, Holders
<1>3. ~ outage => conn'[r] # "lost" /\ error'[r] # "ConnectionError"
  BY <1>1 DEF PipelineInv, Unbroken
<1> QED
  BY <1>1, <1>2, <1>3, OneStep

LEMMA AloneKeeps ==
  ASSUME PipelineInv, NEW r \in Requests,
         \/ Arrive(r) \/ Reject(r) \/ Answer(r) \/ NotFound(r) \/ HandleUnhandled(r)
  PROVE  PipelineInv'
<1>1. TaskInv'
  BY ArriveKeepsTasks, RejectKeepsTasks, AnswerKeepsTasks, NotFoundKeepsTasks, HandleUnhandledKeepsTasks
     DEF PipelineInv
<1>2. UNCHANGED <<poolVars, outage, error>>
  BY DEF Arrive, Reject, Answer, NotFound, HandleUnhandled
<1>3. \A q \in Requests : q # r => pc'[q] = pc[q] /\ error'[q] = error[q]
  BY <1>2 DEF PipelineInv, TaskInv, TaskTypes, Arrive, Reject, Answer, NotFound, HandleUnhandled
<1>4. conn[r] # "none" => pc'[r] \in UnderWay
  <2>1. conn[r] # "none" => pc[r] \in UnderWay
    BY DEF PipelineInv, HeldUnderWay
  <2>2. CASE Answer(r) \/ NotFound(r)
    BY <2>2 DEF PipelineInv, TaskInv, TaskTypes, Answer, NotFound, UnderWay
  <2>3. CASE Reject(r)
    BY <2>3 DEF Reject
  <2>4. CASE Arrive(r) \/ HandleUnhandled(r)
    BY <2>1, <2>4 DEF Arrive, HandleUnhandled, UnderWay
  <2> QED
    BY <2>2, <2>3, <2>4
<1> QED
  BY <1>1, <1>2, <1>3, <1>4, PoolAloneStep

LEMMA CheckOutKeeps ==
  ASSUME PipelineInv, NEW r \in Requests, CheckOut(r)
  PROVE  PipelineInv'
<1>1. /\ TakeFresh(r) \/ TakeStale(r) \/ Grow(r) \/ Wait(r) \/ Connect(r)
      /\ pc[r] = "handling" /\ UNCHANGED <<pc, context, status, header, logged, error, locked, outage>>
  BY DEF CheckOut, taskVars
<1>2. PoolInv'
  BY <1>1, TakeKeepsPool DEF PipelineInv
<1>3. TaskInv'
  BY <1>1 DEF PipelineInv, TaskInv, TaskTypes, Ids, GoodIds
<1>4. PICK v \in {"live", "reopening", "opening", "waiting"} : conn' = [conn EXCEPT ![r] = v]
  BY <1>1 DEF TakeFresh, TakeStale, Grow, Wait, Connect, PrePing
<1>5. UNCHANGED database
  BY <1>1 DEF TakeFresh, TakeStale, Grow, Wait, Connect
<1>6. conn'[r] = v /\ \A q \in Requests : q # r => conn'[q] = conn[q]
  BY <1>4 DEF PipelineInv, PoolInv, PoolTypeOK
<1>7. "handling" \in UnderWay
  BY DEF UnderWay
<1> QED
  BY <1>1, <1>2, <1>3, <1>4, <1>5, <1>6, <1>7, OneStep DEF PipelineInv, Unbroken

LEMMA RaiseChanges ==
  ASSUME TaskInv, NEW r \in Requests, NEW class \in Errors, Raise(r, class)
  PROVE  /\ pc'[r] \in UnderWay /\ error'[r] = class /\ UNCHANGED outage
         /\ \A q \in Requests : q # r => pc'[q] = pc[q] /\ error'[q] = error[q]
  BY DEF Raise, TaskInv, TaskTypes, UnderWay

LEMMA CheckOutFailsKeeps ==
  ASSUME PipelineInv, NEW r \in Requests, CheckOutFails(r)
  PROVE  PipelineInv'
<1>1. PICK class \in Errors :
        /\ pc[r] = "handling" /\ Raise(r, class) /\ (TimeOut(r) \/ ConnectFails(r))
        /\ ~ outage => class # "ConnectionError"
  <2>1. ~ outage => ~ ConnectFails(r)
    BY DEF PipelineInv, Unbroken, ConnectFails
  <2> QED
    BY <2>1 DEF CheckOutFails, Errors
<1>2. PoolInv' /\ TaskInv'
  BY <1>1, FailKeepsPool, RaiseKeepsTasks DEF PipelineInv
<1>3. conn' = [conn EXCEPT ![r] = "none"] /\ UNCHANGED database
  BY <1>1 DEF TimeOut, ConnectFails
<1>4. conn'[r] = "none" /\ \A q \in Requests : q # r => conn'[q] = conn[q]
  BY <1>3 DEF PipelineInv, PoolInv, PoolTypeOK
<1>5. /\ pc'[r] \in UnderWay /\ error'[r] = class /\ UNCHANGED outage
      /\ \A q \in Requests : q # r => pc'[q] = pc[q] /\ error'[q] = error[q]
  BY <1>1, RaiseChanges DEF PipelineInv
<1> QED
  BY <1>1, <1>2, <1>3, <1>4, <1>5, OneStep

LEMMA RaisingKeeps ==
  ASSUME PipelineInv, NEW r \in Requests, ExecuteLost(r) \/ Aborted(r)
  PROVE  PipelineInv'
<1>1. PICK class \in Errors :
        /\ pc[r] = "handling" /\ Raise(r, class) /\ UNCHANGED poolVars
        /\ class = "ConnectionError" => conn[r] = "lost"
  BY DEF ExecuteLost, Aborted, Errors
<1>2. TaskInv'
  BY <1>1, RaiseKeepsTasks DEF PipelineInv
<1>3. /\ pc'[r] \in UnderWay /\ error'[r] = class /\ UNCHANGED outage
      /\ \A q \in Requests : q # r => pc'[q] = pc[q] /\ error'[q] = error[q]
  BY <1>1, RaiseChanges DEF PipelineInv
<1> QED
  BY <1>1, <1>2, <1>3, PoolAloneStep

LEMMA CloseKeeps ==
  ASSUME PipelineInv, NEW r \in Requests, CloseResponded(r) \/ CloseNotFound(r) \/ CloseFailing(r)
  PROVE  PipelineInv'
<1>1. Return(r) /\ UNCHANGED <<error, outage>>
  BY DEF CloseResponded, CloseNotFound, CloseFailing
<1>2. PoolInv' /\ conn' = [conn EXCEPT ![r] = "none"]
  BY <1>1, ReturnKeepsPool DEF PipelineInv
<1>3. TaskInv'
  BY CloseRespondedKeepsTasks, CloseNotFoundKeepsTasks, CloseFailingKeepsTasks DEF PipelineInv
<1>4. UNCHANGED database
  BY <1>1 DEF Return
<1>5. conn'[r] = "none" /\ \A q \in Requests : q # r => conn'[q] = conn[q]
  BY <1>2 DEF PipelineInv, PoolInv, PoolTypeOK
<1>6. \A q \in Requests : q # r => pc'[q] = pc[q] /\ error'[q] = error[q]
  BY <1>1 DEF PipelineInv, TaskInv, TaskTypes, CloseResponded, CloseNotFound, CloseFailing
<1>7. ~ outage => conn'[r] # "lost" /\ error'[r] # "ConnectionError"
  BY <1>1, <1>5 DEF PipelineInv, Unbroken
<1> QED
  BY <1>1, <1>2, <1>3, <1>4, <1>5, <1>6, <1>7, OneStep

LEMMA ServerKeeps ==
  ASSUME PipelineInv, Server
  PROVE  PipelineInv'
<1>1. /\ Suspend \/ GoDown \/ ComeUp
      /\ outage' = (outage \/ database' = "down")
      /\ UNCHANGED <<pc, context, status, header, logged, error, locked>>
  BY DEF Server, taskVars
<1>2. PoolInv' /\ \A r \in Requests : conn[r] = "none" => conn'[r] = "none"
  BY <1>1, ServerKeepsPool DEF PipelineInv
<1>3. TaskInv'
  <2>1. outage' \in BOOLEAN
    BY <1>1
  <2> QED
    BY <1>1, <2>1 DEF PipelineInv, TaskInv, TaskTypes, Ids
<1>4. HeldUnderWay'
  BY <1>1, <1>2 DEF PipelineInv, HeldUnderWay
<1>5. Unbroken'
  <2>1. CASE outage \/ database' = "down"
    BY <1>1, <2>1 DEF Unbroken
  <2>2. CASE ~ outage /\ database' # "down"
    <3>1. UNCHANGED <<conn, database>>
      BY <1>1, <2>2 DEF Suspend, GoDown, ComeUp, PipelineInv, Unbroken
    <3> QED
      BY <1>1, <2>2, <3>1 DEF PipelineInv, Unbroken
  <2> QED
    BY <2>1, <2>2
<1> QED
  BY <1>2, <1>3, <1>4, <1>5 DEF PipelineInv

\* Steps that move neither pool nor tasks: a re-seed's, and stuttering.
LEMMA OthersKeep ==
  ASSUME PipelineInv, Reseed \/ UNCHANGED vars
  PROVE  PipelineInv'
<1>1. /\ UNCHANGED <<conn, fresh, stale, opened, database>>
      /\ UNCHANGED <<pc, context, status, header, logged, error, outage>>
      /\ locked' \in BOOLEAN
  BY DEF Reseed, vars, poolVars, taskVars, PipelineInv, TaskInv, TaskTypes
<1>2. PoolInv'
  BY <1>1 DEF PipelineInv, PoolInv, PoolTypeOK, PoolAccounted, Holders
<1>3. TaskInv'
  BY <1>1 DEF PipelineInv, TaskInv, TaskTypes, Ids
<1> QED
  BY <1>1, <1>2, <1>3 DEF PipelineInv, HeldUnderWay, Unbroken

LEMMA PipelineStep ==
  ASSUME PipelineInv, [Next]_vars
  PROVE  PipelineInv'
<1>1. CASE \E r \in Requests : Arrive(r) \/ Step(r) \/ Aborted(r)
  <2>1. PICK r \in Requests : Arrive(r) \/ Step(r) \/ Aborted(r)
    BY <1>1
  <2> QED
    BY <2>1, AloneKeeps, CheckOutKeeps, CheckOutFailsKeeps, RaisingKeeps, CloseKeeps DEF Step
<1>2. CASE Server
  BY <1>2, ServerKeeps
<1>3. CASE Reseed \/ UNCHANGED vars
  BY <1>3, OthersKeep
<1> QED
  BY <1>1, <1>2, <1>3 DEF Next

LEMMA PipelineInvariant == Spec => []PipelineInv
<1>1. PipelineInv /\ [Next]_vars => PipelineInv'
  BY PipelineStep
<1> QED
  BY PipelineInitial, <1>1, PTL DEF Spec

-----------------------------------------------------------------------------
(* The theorems. *)

\* However many requests share a pool of whatever size, also when statements
\* raise and the server goes away, get_db gives every connection back, and the
\* pool keeps its books and its limits (core/deps.py, core/db.py).
THEOREM NothingLeaksEver == Spec => []NothingLeaks
<1>1. PipelineInv => NothingLeaks
  BY DEF PipelineInv, PoolInv, HeldUnderWay, NothingLeaks, UnderWay
<1> QED
  BY <1>1, PipelineInvariant, PTL

\* No request ever logs or answers with the id of another one, and all it logs
\* and answers before it is handled as an unhandled exception has its own
\* (core/middleware.py).
THEOREM OwnIdsEver == Spec => []OwnIds
<1>1. PipelineInv => OwnIds
  BY DEF PipelineInv, TaskInv, Ids, GoodIds, UnderWay, OwnIds
<1> QED
  BY <1>1, PipelineInvariant, PTL

\* With pool_pre_ping a suspended server fails no request (core/db.py).
THEOREM SuspendsUnnoticedEver == Spec => []SuspendsUnnoticed
<1>1. PipelineInv => SuspendsUnnoticed
  BY DEF PipelineInv, Unbroken, SuspendsUnnoticed
<1> QED
  BY <1>1, PipelineInvariant, PTL

\* Every variable keeps to its type.
THEOREM PipelineTypes == Spec => []TypeOK
<1>1. PipelineInv => TypeOK
  BY DEF PipelineInv, PoolInv, TaskInv, TaskTypes, TypeOK, Points, UnderWay, Statuses
<1> QED
  BY <1>1, PipelineInvariant, PTL
=============================================================================
