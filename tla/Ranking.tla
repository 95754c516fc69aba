------------------------------ MODULE Ranking ------------------------------
(***************************************************************************)
(* RANK() OVER (ORDER BY ...), the window function behind the standings    *)
(* and the leaderboards.  An ORDER BY over the rows of a partition is the  *)
(* set `ahead' of the pairs <<t, u>> of rows such that t sorts before u.   *)
(***************************************************************************)
EXTENDS Integers, FiniteSets

Before(ahead, t) == {p[1] : p \in {q \in ahead : q[2] = t}}

\* Variant: DENSE_RANK(), which numbers 1, 1, 2.
DenseRank(ahead, t) == 1 + Cardinality({Before(ahead, u) : u \in Before(ahead, t)})

\* Variant: positions that count from zero.
RankFromZero(ahead, t) == Cardinality(Before(ahead, t))

\* One more than the number of rows that sort before this one.
Rank(ahead, t) == 1 + Cardinality(Before(ahead, t))

(***************************************************************************)
(* What a reader of a table expects of its positions: a row is placed      *)
(* before another exactly if it sorts before it, so rows share a position  *)
(* only if neither sorts before the other; and a position says how many    *)
(* rows are placed better, so that a shared place is skipped after: 1, 1,  *)
(* 3.  This is docs/adr/0004-standings-tie-breaker.md, lines 55-58.        *)
(***************************************************************************)
FollowsOrder(ahead, rows) ==
  \A t, u \in rows : Rank(ahead, t) < Rank(ahead, u) <=> <<t, u>> \in ahead

CountsBetter(ahead, rows) ==
  \A t \in rows :
    Rank(ahead, t) = 1 + Cardinality({u \in rows : Rank(ahead, u) < Rank(ahead, t)})

ProperRanking(ahead, rows) == FollowsOrder(ahead, rows) /\ CountsBetter(ahead, rows)

\* An ORDER BY sorts by keys: no row sorts before itself, and a row that sorts
\* before another sorts before, or the other before, any third.
IsOrderBy(ahead, rows) ==
  /\ ahead \subseteq rows \X rows
  /\ \A t \in rows : <<t, t>> \notin ahead
  /\ \A t, u, v \in rows : <<t, u>> \in ahead /\ <<u, v>> \in ahead => <<t, v>> \in ahead
  /\ \A t, u, v \in rows : <<t, u>> \in ahead => <<t, v>> \in ahead \/ <<v, u>> \in ahead
=============================================================================
