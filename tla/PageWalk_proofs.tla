-------------------------- MODULE PageWalk_proofs --------------------------
(***************************************************************************)
(* Walks over lists of any length, with pages of any size, while rows are  *)
(* stored anywhere in the list: a row is shown twice, or not at all, only  *)
(* if it is tied or changes places with another.                           *)
(***************************************************************************)
EXTENDS PageWalk, FiniteSetTheorems, TLAPS

-----------------------------------------------------------------------------
(* Arrangements. *)

\* As many rows have their place in an interval as the interval has places.
LEMMA PlacesInInterval ==
  ASSUME NEW rows, IsFiniteSet(rows), NEW a \in Nat \ {0}, NEW b \in Nat, b <= Cardinality(rows),
         a <= b + 1, NEW at \in Bijection(rows, 1..Cardinality(rows))
  PROVE  Cardinality({u \in rows : a <= at[u] /\ at[u] <= b}) = b + 1 - a
<1> DEFINE n == Cardinality(rows)
           S == {u \in rows : a <= at[u] /\ at[u] <= b}
           g == [u \in S |-> at[u]]
<1>1. n \in Nat
  BY FS_CardinalityType
<1>2. at \in [rows -> 1..n]
  BY DEF Bijection, Injection
<1>3. \A u, v \in rows : at[u] = at[v] => u = v
  BY <1>2 DEF Bijection, Injection, IsInjective
<1>4. \A k \in 1..n : \E u \in rows : at[u] = k
  BY DEF Bijection, Surjection
<1>5. g \in [S -> a..b]
  BY <1>1, <1>2
<1>6. g \in Injection(S, a..b)
  <2>1. \A u, v \in S : g[u] = g[v] => u = v
    BY <1>3
  <2> QED
    BY <1>5, <2>1 DEF Injection, IsInjective
<1>7. g \in Surjection(S, a..b)
  <2>1. ASSUME NEW k \in a..b
        PROVE  \E u \in S : g[u] = k
    <3>1. k \in 1..n
      BY <1>1
    <3>2. PICK u \in rows : at[u] = k
      BY <1>4, <3>1
    <3>3. u \in S
      BY <3>2
    <3> QED
      BY <3>2, <3>3
  <2> QED
    BY <1>5, <2>1 DEF Surjection
<1>8. ExistsBijection(S, a..b)
  BY <1>6, <1>7 DEF ExistsBijection, Bijection
<1>9. IsFiniteSet(S)
  BY FS_Subset
<1>10. Cardinality(a..b) = Cardinality(S)
  BY <1>8, <1>9, FS_Bijection
<1>11. Cardinality(a..b) = b + 1 - a
  <2>1. a \in Int /\ b \in Int
    OBVIOUS
  <2>2. Cardinality(a..b) = IF a > b THEN 0 ELSE b - a + 1
    BY <2>1, FS_Interval
  <2> QED
    BY <2>1, <2>2
<1> QED
  BY <1>10, <1>11

\* Every query puts a row that is tied with no other in the same place.
LEMMA PlaceIsRank ==
  ASSUME NEW l, IsFiniteSet(l.rows), IsOrderBy(l.ahead, l.rows),
         NEW at \in Arrangements(l), NEW r \in l.rows, Untied(l, r)
  PROVE  at[r] = Rank(l.ahead, r)
<1> DEFINE n == Cardinality(l.rows)
<1>1. n \in Nat
  BY FS_CardinalityType
<1>2. /\ at \in Bijection(l.rows, 1..n)
      /\ \A p \in l.ahead : at[p[1]] < at[p[2]]
  BY DEF Arrangements
<1>3. at \in [l.rows -> 1..n] /\ \A u, v \in l.rows : at[u] = at[v] => u = v
  BY <1>2 DEF Bijection, Injection, IsInjective
<1>4. at[r] \in 1..n
  BY <1>3
<1>5. \A u \in l.rows : <<u, r>> \in l.ahead <=> at[u] < at[r]
  <2>1. \A u, v \in l.rows : <<u, v>> \in l.ahead => at[u] < at[v]
    BY <1>2
  <2>2. ASSUME NEW u \in l.rows, at[u] < at[r]
        PROVE  <<u, r>> \in l.ahead
    <3>1. at[u] \in Int /\ at[r] \in Int
      BY <1>1, <1>3
    <3>2. u # r /\ ~ at[r] < at[u]
      BY <2>2, <3>1
    <3> QED
      BY <2>1, <3>2 DEF Untied
  <2> QED
    BY <2>1, <2>2
<1>6. Before(l.ahead, r) = {u \in l.rows : <<u, r>> \in l.ahead}
  BY DEF Before, IsOrderBy
<1>7. Before(l.ahead, r) = {u \in l.rows : 1 <= at[u] /\ at[u] <= at[r] - 1}
  BY <1>1, <1>3, <1>5, <1>6
<1>8. at[r] - 1 \in Nat /\ at[r] - 1 <= n /\ 1 <= (at[r] - 1) + 1
  BY <1>1, <1>4
<1>9. Cardinality({u \in l.rows : 1 <= at[u] /\ at[u] <= at[r] - 1}) = (at[r] - 1) + 1 - 1
  BY <1>2, <1>8, PlacesInInterval
<1> QED
  BY <1>1, <1>4, <1>7, <1>9 DEF Rank

\* A page that is not full reaches the end of the list.
LEMMA ShortPageIsLast ==
  ASSUME NEW l, IsFiniteSet(l.rows), NEW at \in Arrangements(l), NEW from \in Nat,
         NEW size \in Nat, Cardinality(Page(at, from, size)) < size
  PROVE  Cardinality(l.rows) < from + size
<1> DEFINE n == Cardinality(l.rows)
<1>1. n \in Nat
  BY FS_CardinalityType
<1>2. at \in Bijection(l.rows, 1..n)
  BY DEF Arrangements
<1>3. at \in [l.rows -> 1..n]
  BY <1>2 DEF Bijection, Injection
<1>4. SUFFICES ASSUME from + size <= n
               PROVE  Cardinality(Page(at, from, size)) = size
  BY <1>1
<1>5. Page(at, from, size) = {u \in l.rows : from + 1 <= at[u] /\ at[u] <= from + size}
  BY <1>1, <1>3 DEF Page
<1>6. from + 1 \in Nat \ {0} /\ from + size \in Nat /\ from + 1 <= (from + size) + 1
  OBVIOUS
<1>7. Cardinality({u \in l.rows : from + 1 <= at[u] /\ at[u] <= from + size}) = (from + size) + 1 - (from + 1)
  BY <1>2, <1>4, <1>6, PlacesInInterval
<1> QED
  BY <1>5, <1>7

-----------------------------------------------------------------------------
(* Ranks. *)

\* Fewer rows ahead, a better rank.
LEMMA RankGrows ==
  ASSUME NEW l, NEW k, IsFiniteSet(k.rows), IsOrderBy(k.ahead, k.rows), NEW r,
         \A p \in l.ahead : p[2] = r => p \in k.ahead
  PROVE  /\ Rank(l.ahead, r) \in Nat /\ Rank(k.ahead, r) \in Nat
         /\ Rank(l.ahead, r) <= Rank(k.ahead, r)
<1>1. Before(l.ahead, r) \subseteq Before(k.ahead, r)
  BY DEF Before
<1>2. Before(k.ahead, r) \subseteq k.rows
  BY DEF Before, IsOrderBy
<1>3. IsFiniteSet(Before(k.ahead, r))
  BY <1>2, FS_Subset
<1>4. /\ IsFiniteSet(Before(l.ahead, r))
      /\ Cardinality(Before(l.ahead, r)) <= Cardinality(Before(k.ahead, r))
  BY <1>1, <1>3, FS_Subset
<1>5. Cardinality(Before(l.ahead, r)) \in Nat /\ Cardinality(Before(k.ahead, r)) \in Nat
  BY <1>3, <1>4, FS_CardinalityType
<1> QED
  BY <1>4, <1>5 DEF Rank

-----------------------------------------------------------------------------
(* The walk. *)

\* The walk has shown rows with a rank up to the offset: if nobody came ahead of a
\* row that was shown, it is still among them; if nobody fell behind a row that was not,
\* it still is not.
ShownInv ==
  \A r \in shown \ (tied \cup pushed) : Rank(list.ahead, r) <= offset

AwaitedInv ==
  \A r \in first \ (tied \cup pulled) :
    /\ ended => r \in shown
    /\ r \notin shown => Rank(list.ahead, r) > offset

WalkInv ==
  /\ list \in Lists
  /\ offset \in Nat
  /\ first \subseteq list.rows /\ shown \subseteq list.rows
  /\ Tied(list) \subseteq tied
  /\ again \subseteq tied \cup pushed
  /\ ShownInv
  /\ AwaitedInv

LEMMA ListsAreSorted ==
  ASSUME NEW l \in Lists
  PROVE  IsFiniteSet(l.rows) /\ IsOrderBy(l.ahead, l.rows)
BY WalkAssumption DEF WalkAssumption

LEMMA WalkInitial == WalkInit => WalkInv
<1> SUFFICES ASSUME WalkInit PROVE WalkInv
  OBVIOUS
<1>1. list \in Lists /\ IsFiniteSet(list.rows) /\ IsOrderBy(list.ahead, list.rows)
  BY ListsAreSorted DEF WalkInit
<1>2. \A r : Rank(list.ahead, r) > 0
  <2> TAKE r
  <2>1. Before(list.ahead, r) \subseteq list.rows
    BY <1>1 DEF Before, IsOrderBy
  <2>2. Cardinality(Before(list.ahead, r)) \in Nat
    BY <1>1, <2>1, FS_Subset, FS_CardinalityType
  <2> QED
    BY <2>2 DEF Rank
<1> QED
  BY <1>1, <1>2 DEF WalkInit, WalkInv, ShownInv, AwaitedInv

LEMMA PageKeeps ==
  ASSUME WalkInv, ReadPage
  PROVE  WalkInv'
<1>1. PICK at \in Arrangements(list) :
        /\ shown' = shown \cup Page(at, offset, Limit)
        /\ again' = again \cup (shown \cap Page(at, offset, Limit))
        /\ ended' = (Cardinality(Page(at, offset, Limit)) < Limit)
  BY DEF ReadPage
<1> DEFINE page == Page(at, offset, Limit)
           n    == Cardinality(list.rows)
<1>2. IsFiniteSet(list.rows) /\ IsOrderBy(list.ahead, list.rows) /\ offset \in Nat
  BY ListsAreSorted DEF WalkInv
<1>3. n \in Nat /\ Limit \in Nat /\ Limit > 0
  BY <1>2, FS_CardinalityType, WalkAssumption DEF WalkAssumption
<1>4. at \in [list.rows -> 1..n]
  BY DEF Arrangements, Bijection, Injection
<1>5. ~ ended /\ offset' = offset + Limit /\ UNCHANGED <<list, first, tied, pushed, pulled>>
  BY DEF ReadPage
<1>6. \A r \in list.rows \ tied : at[r] = Rank(list.ahead, r) /\ at[r] \in 1..n
  BY <1>2, <1>4, PlaceIsRank DEF WalkInv, Tied
<1>7. /\ page \subseteq list.rows
      /\ \A r \in list.rows : r \in page <=> offset < at[r] /\ at[r] <= offset + Limit
  BY <1>4 DEF Page
<1>8. ended' => n < offset + Limit
  BY <1>1, <1>2, <1>3, ShortPageIsLast
<1>9. shown \subseteq list.rows /\ first \subseteq list.rows
  BY DEF WalkInv
<1> HIDE DEF page
<1>10. again' \subseteq tied' \cup pushed'
  <2>1. ASSUME NEW r \in shown \cap page, r \notin tied \cup pushed
        PROVE  FALSE
    <3>1. at[r] <= offset
      BY <1>6, <1>9, <2>1 DEF WalkInv, ShownInv
    <3> QED
      BY <1>2, <1>3, <1>6, <1>7, <1>9, <2>1, <3>1
  <2> QED
    BY <1>1, <1>5, <2>1 DEF WalkInv, page
<1>11. ShownInv'
  <2>1. ASSUME NEW r \in shown \cup page, r \notin tied \cup pushed
        PROVE  Rank(list.ahead, r) <= offset + Limit
    <3>1. r \in list.rows
      BY <1>7, <1>9
    <3>2. CASE r \in shown
      BY <1>2, <1>3, <1>6, <2>1, <3>1, <3>2 DEF WalkInv, ShownInv
    <3>3. CASE r \in page
      BY <1>6, <1>7, <2>1, <3>1, <3>3
    <3> QED
      BY <2>1, <3>2, <3>3
  <2> QED
    BY <1>1, <1>5, <2>1 DEF ShownInv, page
<1>12. AwaitedInv'
  <2>1. ASSUME NEW r \in first, r \notin tied \cup pulled
        PROVE  /\ ended' => r \in shown \cup page
               /\ r \notin shown \cup page => Rank(list.ahead, r) > offset + Limit
    <3>1. r \in list.rows /\ at[r] = Rank(list.ahead, r) /\ at[r] \in 1..n
      BY <1>6, <1>9, <2>1
    <3>2. r \notin shown => at[r] > offset
      BY <2>1, <3>1 DEF WalkInv, AwaitedInv
    <3>3. r \notin shown \cup page => at[r] > offset + Limit
      BY <1>2, <1>3, <1>7, <3>1, <3>2
    <3> QED
      BY <1>2, <1>3, <1>8, <3>1, <3>3
  <2> QED
    BY <1>1, <1>5, <2>1 DEF AwaitedInv, page
<1>13. shown' \subseteq list.rows /\ offset' \in Nat
  BY <1>1, <1>2, <1>3, <1>5, <1>7, <1>9 DEF page
<1>14. Tied(list') \subseteq tied'
  BY <1>5 DEF WalkInv
<1> QED
  BY <1>5, <1>10, <1>11, <1>12, <1>13, <1>14 DEF WalkInv

LEMMA StoreKeeps ==
  ASSUME WalkInv, NEW l \in Lists, Store(l)
  PROVE  WalkInv'
<1>1. /\ list' = l /\ list.rows \subseteq l.rows
      /\ tied' = tied \cup Tied(l)
      /\ pushed' = pushed \cup {p[2] : p \in l.ahead \ list.ahead}
      /\ pulled' = pulled \cup {p[2] : p \in list.ahead \ l.ahead}
      /\ UNCHANGED <<first, offset, shown, again, ended>>
  BY DEF Store
<1>2. /\ list \in Lists /\ offset \in Nat
      /\ first \subseteq list.rows /\ shown \subseteq list.rows
      /\ again \subseteq tied \cup pushed
  BY DEF WalkInv
<1>3. /\ IsFiniteSet(list.rows) /\ IsOrderBy(list.ahead, list.rows)
      /\ IsFiniteSet(l.rows) /\ IsOrderBy(l.ahead, l.rows)
  BY <1>2, ListsAreSorted
<1>4. ShownInv'
  <2>1. ASSUME NEW r \in shown, r \notin tied' \cup pushed'
        PROVE  Rank(l.ahead, r) <= offset
    <3>1. \A p \in l.ahead : p[2] = r => p \in list.ahead
      BY <1>1, <2>1
    <3>2. /\ Rank(l.ahead, r) \in Nat /\ Rank(list.ahead, r) \in Nat
          /\ Rank(l.ahead, r) <= Rank(list.ahead, r)
      BY <1>3, <3>1, RankGrows
    <3>3. Rank(list.ahead, r) <= offset
      BY <1>1, <2>1 DEF WalkInv, ShownInv
    <3> QED
      BY <1>2, <3>2, <3>3
  <2> QED
    BY <1>1, <2>1 DEF ShownInv
<1>5. AwaitedInv'
  <2>1. ASSUME NEW r \in first, r \notin tied' \cup pulled'
        PROVE  /\ ended => r \in shown
               /\ r \notin shown => Rank(l.ahead, r) > offset
    <3>1. \A p \in list.ahead : p[2] = r => p \in l.ahead
      BY <1>1, <2>1
    <3>2. /\ Rank(l.ahead, r) \in Nat /\ Rank(list.ahead, r) \in Nat
          /\ Rank(list.ahead, r) <= Rank(l.ahead, r)
      BY <1>3, <3>1, RankGrows
    <3>3. /\ ended => r \in shown
          /\ r \notin shown => Rank(list.ahead, r) > offset
      BY <1>1, <2>1 DEF WalkInv, AwaitedInv
    <3> QED
      BY <1>2, <3>2, <3>3
  <2> QED
    BY <1>1, <2>1 DEF AwaitedInv
<1>6. Tied(list') \subseteq tied'
  BY <1>1
<1> QED
  BY <1>1, <1>2, <1>4, <1>5, <1>6 DEF WalkInv

LEMMA StepKeeps == WalkInv /\ [WalkNext]_walkVars => WalkInv'
<1>1. ASSUME WalkInv, UNCHANGED walkVars
      PROVE  WalkInv'
  BY <1>1 DEF WalkInv, ShownInv, AwaitedInv, Tied, Untied, walkVars
<1> QED
  BY <1>1, PageKeeps, StoreKeeps DEF WalkNext

\* Whatever is stored meanwhile, at whatever place: a walk doubles only rows that were
\* tied or that another came ahead of, and loses only rows that were tied or that
\* another fell behind.
THEOREM SteadyShownOnceAlways == WalkSpec => []SteadyShownOnce
<1>1. WalkInv => SteadyShownOnce
  BY DEF WalkInv, AwaitedInv, SteadyShownOnce
<1> QED
  BY <1>1, WalkInitial, StepKeeps, PTL DEF WalkSpec
=============================================================================
