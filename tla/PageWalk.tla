------------------------------ MODULE PageWalk ------------------------------
(***************************************************************************)
(* A client that reads a list page by page, with the offset and limit of   *)
(* api/v1/deps.py.  Each page is a query of its own, sorted by an ORDER BY *)
(* that may leave rows tied (leaderboards by position, games by date,      *)
(* competitions by id), and how tied rows are arranged is decided anew for *)
(* each query.  Between two pages rows may be stored: a new game comes     *)
(* first, a competition last, and box scores move players on a             *)
(* leaderboard.                                                            *)
(*                                                                         *)
(* A list is the set of its rows and the pairs of rows its ORDER BY tells  *)
(* apart.                                                                  *)
(***************************************************************************)
EXTENDS Ranking, Functions

CONSTANTS
  Lists,     \* the contents of the lists that may be walked
  Limit      \* of each page

WalkAssumption ==
  /\ Limit \in Nat \ {0}
  /\ \A l \in Lists : IsFiniteSet(l.rows) /\ IsOrderBy(l.ahead, l.rows)
ASSUME WalkAssumption

VARIABLES
  list,      \* the list as it is now
  first,     \* history: the rows it had at first
  offset,    \* of the next page
  shown,     \* rows that were on some page
  again,     \* those that were on another one, too
  ended,     \* whether the last page has been read
  tied,      \* history: rows that were tied with another at some time,
  pushed,    \* that another came ahead of,
  pulled     \* that another fell behind

walkVars == <<list, first, offset, shown, again, ended, tied, pushed, pulled>>

Untied(l, r) == \A u \in l.rows \ {r} : <<r, u>> \in l.ahead \/ <<u, r>> \in l.ahead
Tied(l)      == {r \in l.rows : ~ Untied(l, r)}

\* The ways to sort a list: the place of each row.
Arrangements(l) ==
  {at \in Bijection(l.rows, 1..Cardinality(l.rows)) : \A p \in l.ahead : at[p[1]] < at[p[2]]}

\* Variant: an offset that counts from one.
PageOverlapping(at, from, size) == {r \in DOMAIN at : from <= at[r] /\ at[r] <= from + size}

\* LIMIT and OFFSET.
Page(at, from, size) == {r \in DOMAIN at : from < at[r] /\ at[r] <= from + size}

WalkInit ==
  /\ list \in Lists
  /\ first = list.rows
  /\ offset = 0
  /\ shown = {} /\ again = {}
  /\ ended = FALSE
  /\ tied = Tied(list) /\ pushed = {} /\ pulled = {}

\* A page that is not full is the last one.
ReadPage ==
  /\ ~ ended
  /\ \E at \in Arrangements(list) :
       LET page == Page(at, offset, Limit) IN
         /\ shown' = shown \cup page
         /\ again' = again \cup (shown \cap page)
         /\ ended' = (Cardinality(page) < Limit)
  /\ offset' = offset + Limit
  /\ UNCHANGED <<list, first, tied, pushed, pulled>>

\* A commit stores rows: the list becomes l, of the old rows, which it may move, and
\* of new ones anywhere among them.  Nothing is ever deleted for good.
Store(l) ==
  /\ ~ ended
  /\ list.rows \subseteq l.rows
  /\ list' = l
  /\ tied' = tied \cup Tied(l)
  /\ pushed' = pushed \cup {p[2] : p \in l.ahead \ list.ahead}
  /\ pulled' = pulled \cup {p[2] : p \in list.ahead \ l.ahead}
  /\ UNCHANGED <<first, offset, shown, again, ended>>

WalkNext == ReadPage \/ \E l \in Lists : Store(l)

WalkSpec == WalkInit /\ [][WalkNext]_walkVars

-----------------------------------------------------------------------------
\* Whatever is stored between two pages, and however ties are arranged: a walk shows
\* a row twice only if it was tied or another row came ahead of it, such as a game of
\* a later date, and misses a row that was there at first only if it was tied or one
\* ahead of it fell behind, as only players on a leaderboard do.
SteadyShownOnce ==
  /\ again \subseteq tied \cup pushed
  /\ ended => first \ shown \subseteq tied \cup pulled
=============================================================================
