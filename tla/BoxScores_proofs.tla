-------------------------- MODULE BoxScores_proofs --------------------------
(***************************************************************************)
(* The leaderboards and the stats of any number of players, games and box  *)
(* scores: RANK() over averages, and two ways to add up the same lines.    *)
(***************************************************************************)
EXTENDS BoxScores, Queries_proofs

\* The contents the table may have.
Tables ==
  {table \in SUBSET [game : Games, player : Players, act : Acts] : IsFiniteSet(table)}

ScoresInv == box_scores \in Tables

\* The table is a finite set of box scores, whatever has been entered.
THEOREM ScoresInvariant == ScoresSpec => []ScoresInv
<1>1. ScoresInit => ScoresInv
  BY FS_EmptySet DEF ScoresInit, ScoresInv, Tables
<1>2. ScoresInv /\ [ScoresNext]_box_scores => ScoresInv'
  <2> SUFFICES ASSUME ScoresInv, [ScoresNext]_box_scores PROVE ScoresInv'  OBVIOUS
  <2>1. ASSUME NEW g \in Games, NEW p \in Players, Enter(g, p) PROVE ScoresInv'
    <3>1. PICK act \in Acts :
            box_scores' = box_scores \cup {[game |-> g, player |-> p, act |-> act]}
      BY <2>1 DEF Enter
    <3>2. IsFiniteSet(box_scores')  BY <3>1, FS_AddElement DEF ScoresInv, Tables
    <3>3. QED BY <3>1, <3>2 DEF ScoresInv, Tables
  <2>2. CASE UNCHANGED box_scores  BY <2>2 DEF ScoresInv, Tables
  <2>3. QED BY <2>1, <2>2 DEF ScoresNext
<1>3. QED BY <1>1, <1>2, PTL DEF ScoresSpec

-----------------------------------------------------------------------------
(* Totals. *)

LEMMA ColumnsAreIntegers ==
  ASSUME NEW act \in Acts, NEW stat \in Stats PROVE Column(act, stat) \in Int
<1>1. act \in [BoxColumns -> Int]  BY BoxScoresAssumption DEF BoxScoresAssumption
<1>2. \A f \in BoxColumns : act[f] \in Int  BY <1>1
<1>3. reb(act) \in Int  BY <1>2 DEF reb, BoxColumns
<1>4. val(act) \in Int  BY <1>2 DEF val, BoxColumns
<1>5. stat \notin {"val", "reb"} => act[stat] \in Int  BY <1>2 DEF Stats, BoxColumns
<1>6. QED BY <1>3, <1>4, <1>5 DEF Column

Columns(lines, stat) == [x \in lines |-> Column(x.act, stat)]

LEMMA TotalIs ==
  ASSUME NEW lines, NEW stat
  PROVE  Total(lines, stat) = SumOf(Columns(lines, stat), lines)
<1> DEFINE w == Columns(lines, stat)
<1>1. \A g : (g = [s \in SUBSET lines |->
                     IF s = {} THEN 0
                     ELSE Column((CHOOSE x \in s : TRUE).act, stat)
                            + g[s \ {CHOOSE x \in s : TRUE}]])
             <=> IsSum(g, w, lines)
  <2>1. \A s \in SUBSET lines :
          s # {} => Column((CHOOSE x \in s : TRUE).act, stat) = w[First(s)]
    BY DEF First, Columns
  <2> HIDE DEF w
  <2>2. QED BY <2>1 DEF IsSum, First
<1>2. QED BY <1>1 DEF Total, MapThenSumSet, MapThenFoldSet, SumOf

LEMMA LinesAreSummable ==
  ASSUME NEW table \in Tables, NEW lines, lines \subseteq table, NEW stat \in Stats
  PROVE  /\ IsFiniteSet(lines) /\ Summable(Ones(lines), lines)
         /\ Summable(Columns(lines, stat), lines)
<1>1. IsFiniteSet(lines)  BY FS_Subset DEF Tables
<1>2. \A x \in lines : x.act \in Acts  BY DEF Tables
<1>3. \A x \in lines : Column(x.act, stat) \in Int  BY <1>2, ColumnsAreIntegers
<1>4. QED BY <1>1, <1>3 DEF Summable, Ones, Columns

\* A row's total and count are sums over its lines of functions of all lines.
LEMMA AggregateIs ==
  ASSUME NEW table \in Tables, NEW lines, lines \subseteq table, NEW stat \in Stats, NEW p
  PROVE  /\ Aggregate(lines, p, stat).total = SumOf(Columns(table, stat), lines)
         /\ Aggregate(lines, p, stat).games_played = SumOf(Ones(table), lines)
         /\ Total(lines, stat) = SumOf(Columns(table, stat), lines)
         /\ Cardinality(lines) = SumOf(Ones(table), lines)
<1>1. IsFiniteSet(lines)  BY LinesAreSummable
<1>2. /\ \A x \in lines : Columns(lines, stat)[x] = Columns(table, stat)[x]
      /\ \A x \in lines : Ones(lines)[x] = Ones(table)[x]
  BY DEF Columns, Ones
<1>3. SumOf(Columns(lines, stat), lines) = SumOf(Columns(table, stat), lines)
  BY <1>1, <1>2, SumEqual
<1>4. SumOf(Ones(lines), lines) = SumOf(Ones(table), lines)
  BY <1>1, <1>2, SumEqual
<1>5. Total(lines, stat) = SumOf(Columns(table, stat), lines)  BY <1>3, TotalIs
<1>6. Cardinality(lines) = SumOf(Ones(table), lines)  BY <1>1, <1>4, SumOfOnes
<1>7. QED BY <1>5, <1>6 DEF Aggregate

-----------------------------------------------------------------------------
(* The leaderboard of a competition. *)

OwnLines(table, c, p) == {l \in LinesOf(table, c) : l.player = p}

\* Whoever has a line in the competition has one row there, and nobody else has.
LEMMA RowsOnAre ==
  ASSUME NEW table, NEW c, NEW stat, NEW p
  PROVE  RowsOn(table, c, stat, p) =
           IF OwnLines(table, c, p) = {} THEN {} ELSE {Aggregate(OwnLines(table, c, p), p, stat)}
<1>1. \A r \in PerPlayer(table, c, stat) :
        \E u \in {line.player : line \in LinesOf(table, c)} :
          r = Aggregate(OwnLines(table, c, u), u, stat)
  BY DEF PerPlayer, OwnLines
<1>2. \A lines, u : Aggregate(lines, u, stat).player = u  BY DEF Aggregate
<1>3. \A r \in RowsOn(table, c, stat, p) :
        /\ OwnLines(table, c, p) # {}
        /\ r = Aggregate(OwnLines(table, c, p), p, stat)
  <2>1. SUFFICES ASSUME NEW r \in RowsOn(table, c, stat, p)
                 PROVE  /\ OwnLines(table, c, p) # {}
                        /\ r = Aggregate(OwnLines(table, c, p), p, stat)
    OBVIOUS
  <2>2. r \in PerPlayer(table, c, stat) /\ r.player = p  BY DEF RowsOn
  <2>3. PICK u \in {line.player : line \in LinesOf(table, c)} :
          r = Aggregate(OwnLines(table, c, u), u, stat)
    BY <1>1, <2>2
  <2>4. u = p  BY <1>2, <2>2, <2>3
  <2>5. OwnLines(table, c, p) # {}  BY <2>3, <2>4 DEF OwnLines
  <2>6. QED BY <2>3, <2>4, <2>5
<1>4. ASSUME OwnLines(table, c, p) # {}
      PROVE  Aggregate(OwnLines(table, c, p), p, stat) \in RowsOn(table, c, stat, p)
  <2>1. p \in {line.player : line \in LinesOf(table, c)}  BY <1>4 DEF OwnLines
  <2>2. Aggregate(OwnLines(table, c, p), p, stat) \in PerPlayer(table, c, stat)
    BY <2>1 DEF PerPlayer, OwnLines
  <2>3. QED BY <1>2, <2>2 DEF RowsOn
<1>5. QED BY <1>3, <1>4

LEMMA BoardsFinite ==
  ASSUME NEW table \in Tables, NEW c, NEW stat
  PROVE  IsFiniteSet(PerPlayer(table, c, stat))
<1> DEFINE lines == LinesOf(table, c)
           player == [line \in lines |-> line.player]
           players == {line.player : line \in lines}
           row == [p \in players |-> Aggregate({l \in LinesOf(table, c) : l.player = p}, p, stat)]
<1>1. IsFiniteSet(lines)  BY FS_Subset DEF LinesOf, Tables
<1>2. players = {player[line] : line \in lines}  OBVIOUS
<1>3. PerPlayer(table, c, stat) = {row[p] : p \in players}  BY DEF PerPlayer
<1> HIDE DEF lines, player, players, row
<1>4. IsFiniteSet(players)  BY <1>1, <1>2, FiniteImage
<1>5. QED BY <1>3, <1>4, FiniteImage

\* A row stands for an average: a total, and a number of games that is not zero.
LEMMA RowsAreAverages ==
  ASSUME NEW table \in Tables, NEW c, NEW stat \in Stats, NEW r \in PerPlayer(table, c, stat)
  PROVE  r.total \in Int /\ r.games_played \in Nat \ {0}
<1>1. PICK p \in {line.player : line \in LinesOf(table, c)} :
        r = Aggregate(OwnLines(table, c, p), p, stat)
  BY DEF PerPlayer, OwnLines
<1> DEFINE lines == OwnLines(table, c, p)
<1>2. lines \subseteq table /\ lines # {}  BY <1>1 DEF OwnLines, LinesOf
<1> HIDE DEF lines
<1>3. IsFiniteSet(lines) /\ Summable(Columns(lines, stat), lines)
  BY <1>2, LinesAreSummable
<1>4. Cardinality(lines) \in Nat \ {0}  BY <1>2, <1>3, FS_EmptySet, FS_CardinalityType
<1>5. Total(lines, stat) \in Int  BY <1>3, SumType, TotalIs
<1>6. r.total = Total(lines, stat) /\ r.games_played = Cardinality(lines)
  BY <1>1 DEF Aggregate, lines
<1>7. QED BY <1>4, <1>5, <1>6

\* A factor that is positive can be taken from both sides.
LEMMA Scaling ==
  ASSUME NEW x \in Int, NEW y \in Int, NEW k \in Nat \ {0}
  PROVE  x > y <=> x * k > y * k
OBVIOUS

\* Averages are compared by multiplying out.
LEMMA AveragesAreAnOrder ==
  ASSUME NEW rows, \A r \in rows : r.total \in Int /\ r.games_played \in Nat \ {0}
  PROVE  IsOrderBy(ByAverage(rows), rows)
<1> DEFINE Better(a, b) == a.total * b.games_played > b.total * a.games_played
<1>1. ByAverage(rows) \subseteq rows \X rows  BY DEF ByAverage
<1>2. \A a, b \in rows : <<a, b>> \in ByAverage(rows) <=> Better(a, b)  BY DEF ByAverage
<1>3. \A a \in rows : ~ Better(a, a)  OBVIOUS
\* What one comparison says of a third row.
<1>4. ASSUME NEW a \in rows, NEW b \in rows, NEW d \in rows
      PROVE  Better(a, b) <=> (a.total * b.games_played) * d.games_played
                                > (b.total * a.games_played) * d.games_played
  <2>1. /\ a.total * b.games_played \in Int /\ b.total * a.games_played \in Int
        /\ d.games_played \in Nat \ {0}
    OBVIOUS
  <2>2. QED BY <2>1, Scaling
<1>5. ASSUME NEW a \in rows, NEW b \in rows, NEW d \in rows
      PROVE  /\ Better(a, b) /\ Better(b, d) => Better(a, d)
             /\ Better(a, b) => Better(a, d) \/ Better(d, b)
  <2> DEFINE x == (a.total * b.games_played) * d.games_played
             y == (b.total * a.games_played) * d.games_played
             z == (d.total * a.games_played) * b.games_played
  <2>1. /\ (b.total * d.games_played) * a.games_played = y
        /\ (d.total * b.games_played) * a.games_played = z
        /\ (a.total * d.games_played) * b.games_played = x
    OBVIOUS
  <2>2. x \in Int /\ y \in Int /\ z \in Int  OBVIOUS
  <2>3. /\ Better(a, b) <=> x > y
        /\ Better(b, d) <=> y > z
        /\ Better(a, d) <=> x > z
        /\ Better(d, b) <=> z > y
    BY <1>4, <2>1
  <2> HIDE DEF x, y, z, Better
  <2>4. QED BY <2>2, <2>3
<1> HIDE DEF Better
<1>6. /\ \A t, u, v \in rows : Better(t, u) /\ Better(u, v) => Better(t, v)
      /\ \A t, u, v \in rows : Better(t, u) => Better(t, v) \/ Better(v, u)
  BY <1>5
<1>7. QED BY <1>1, <1>2, <1>3, <1>6 DEF IsOrderBy

\* However many players, games and equal averages there are: whoever has played is on
\* the leaderboard, once, and the positions are those of RANK().
THEOREM OnePlaceEachAlways == ScoresSpec => []OnePlaceEach
<1>1. ScoresInv => OnePlaceEach
  <2> SUFFICES ASSUME box_scores \in Tables, NEW c \in Competitions,
                      NEW stat \in {"val", "plus_minus"}
               PROVE  LET rows == PerPlayer(box_scores, c, stat)
                      IN  /\ \A line \in LinesOf(box_scores, c) :
                               Cardinality({r \in rows : r.player = line.player}) = 1
                          /\ ProperRanking(ByAverage(rows), rows)
    BY DEF OnePlaceEach, ScoresInv
  <2> DEFINE rows == PerPlayer(box_scores, c, stat)
  <2>1. ASSUME NEW line \in LinesOf(box_scores, c)
        PROVE  Cardinality({r \in rows : r.player = line.player}) = 1
    <3> DEFINE p == line.player
    <3>1. OwnLines(box_scores, c, p) # {}  BY DEF OwnLines
    <3>2. {r \in rows : r.player = p} = {Aggregate(OwnLines(box_scores, c, p), p, stat)}
      <4>1. {r \in rows : r.player = p} = RowsOn(box_scores, c, stat, p)  BY DEF RowsOn
      <4>2. QED BY <3>1, <4>1, RowsOnAre
    <3>3. QED BY <3>2, FS_Singleton
  <2>2. stat \in Stats  BY DEF Stats
  <2>3. \A r \in rows : r.total \in Int /\ r.games_played \in Nat \ {0}
    BY <2>2, RowsAreAverages
  <2>4. IsFiniteSet(rows)  BY BoardsFinite
  <2> HIDE DEF rows
  <2>5. IsOrderBy(ByAverage(rows), rows)  BY <2>3, AveragesAreAnOrder
  <2>6. ProperRanking(ByAverage(rows), rows)  BY <2>4, <2>5, RankIsProper
  <2>7. QED BY <2>1, <2>6 DEF rows
<1>2. QED BY <1>1, ScoresInvariant, PTL

-----------------------------------------------------------------------------
(* The leaderboards and the stats of a player. *)

\* What a leaderboard says of a player is a sum over the player's lines, be there
\* any or none.
LEMMA OnBoard ==
  ASSUME NEW table \in Tables, NEW c, NEW stat \in Stats, NEW p
  PROVE  /\ TotalOn(table, c, stat, p) = SumOf(Columns(table, stat), OwnLines(table, c, p))
         /\ GamesOn(table, c, p) = SumOf(Ones(table), OwnLines(table, c, p))
<1> DEFINE own == OwnLines(table, c, p)
           row(st) == Aggregate(own, p, st)
<1>1. own \subseteq table  BY DEF OwnLines, LinesOf
<1>2. ASSUME NEW rows, NEW field
      PROVE  MapThenSumSet(LAMBDA r : r[field], rows) = SumOf([x \in rows |-> x[field]], rows)
  <2> DEFINE w == [x \in rows |-> x[field]]
  <2>1. \A g : (g = [s \in SUBSET rows |->
                       IF s = {} THEN 0
                       ELSE (CHOOSE x \in s : TRUE)[field] + g[s \ {CHOOSE x \in s : TRUE}]])
               <=> IsSum(g, w, rows)
    <3>1. \A s \in SUBSET rows : s # {} => (CHOOSE x \in s : TRUE)[field] = w[First(s)]
      BY DEF First
    <3>2. QED BY <3>1 DEF IsSum, First
  <2>2. QED BY <2>1 DEF MapThenSumSet, MapThenFoldSet, SumOf
<1>3. \A v : SumOf(v, {}) = 0  BY SumEmpty
<1>4. \A v, r : v[r] \in Int => SumOf(v, {r}) = v[r]
  <2> SUFFICES ASSUME NEW v, NEW r, v[r] \in Int PROVE SumOf(v, {r}) = v[r]  OBVIOUS
  <2>1. Summable(v, {r})  BY FS_Singleton DEF Summable
  <2>2. SumOf(v, {r}) = v[r] + SumOf(v, {r} \ {r})  BY <2>1, SumRemove
  <2>3. {r} \ {r} = {}  OBVIOUS
  <2>4. QED BY <1>3, <2>2, <2>3
<1>5. "pts" \in Stats  BY DEF Stats
<1>6. /\ Summable(Columns(own, stat), own) /\ Summable(Ones(own), own) /\ IsFiniteSet(own)
  BY <1>1, LinesAreSummable
<1>7. /\ row(stat).total = SumOf(Columns(table, stat), own)
      /\ row("pts").games_played = SumOf(Ones(table), own)
      /\ Total(own, stat) = SumOf(Columns(table, stat), own)
      /\ Cardinality(own) = SumOf(Ones(table), own)
  BY <1>1, <1>5, AggregateIs
<1>8. SumOf(Columns(table, stat), own) \in Int /\ SumOf(Ones(table), own) \in Int
  <2>1. Total(own, stat) \in Int  BY <1>6, SumType, TotalIs
  <2>2. Cardinality(own) \in Int  BY <1>6, FS_CardinalityType
  <2>3. QED BY <1>7, <2>1, <2>2
<1>9. /\ RowsOn(table, c, stat, p) = IF own = {} THEN {} ELSE {row(stat)}
      /\ RowsOn(table, c, "pts", p) = IF own = {} THEN {} ELSE {row("pts")}
  BY RowsOnAre
<1>10. TotalOn(table, c, stat, p) = SumOf(Columns(table, stat), own)
  <2> DEFINE rows == RowsOn(table, c, stat, p)
             v == [x \in rows |-> x["total"]]
  <2>1. TotalOn(table, c, stat, p) = SumOf(v, rows)  BY <1>2 DEF TotalOn
  <2>2. CASE own = {}
    <3>1. rows = {}  BY <1>9, <2>2
    <3> HIDE DEF rows, own, v
    <3>2. QED BY <1>3, <2>1, <2>2, <3>1
  <2>3. CASE own # {}
    <3>1. rows = {row(stat)}  BY <1>9, <2>3
    <3>2. v[row(stat)] = row(stat).total  BY <3>1
    <3> HIDE DEF rows, own, row, v
    <3>3. QED BY <1>4, <1>7, <1>8, <2>1, <3>1, <3>2
  <2>4. QED BY <2>2, <2>3
<1>11. GamesOn(table, c, p) = SumOf(Ones(table), own)
  <2> DEFINE rows == RowsOn(table, c, "pts", p)
             v == [x \in rows |-> x["games_played"]]
  <2>1. GamesOn(table, c, p) = SumOf(v, rows)  BY <1>2 DEF GamesOn
  <2>2. CASE own = {}
    <3>1. rows = {}  BY <1>9, <2>2
    <3> HIDE DEF rows, own, v
    <3>2. QED BY <1>3, <2>1, <2>2, <3>1
  <2>3. CASE own # {}
    <3>1. rows = {row("pts")}  BY <1>9, <2>3
    <3>2. v[row("pts")] = row("pts").games_played  BY <3>1
    <3> HIDE DEF rows, own, row, v
    <3>3. QED BY <1>4, <1>7, <1>8, <2>1, <3>1, <3>2
  <2>4. QED BY <2>2, <2>3
<1>12. QED BY <1>10, <1>11

\* Sums over the lines of each competition add up to the sum over all of a player's.
AllLines(table, p) == {line \in table : line.player = p}

\* All the player's lines are in some of these competitions.
AllOn(table, boards, p) ==
  \A line \in table : line.player = p => competition_id[line.game] \in boards

LEMMA BoardsAddUp ==
  ASSUME NEW table \in Tables, NEW p, NEW w, NEW t, Summable(w, table),
         NEW boards \in SUBSET Competitions, AllOn(table, boards, p),
         \A c \in boards : t[c] = SumOf(w, OwnLines(table, c, p))
  PROVE  SumOf(t, boards) = SumOf(w, AllLines(table, p))
<1> DEFINE lines == AllLines(table, p)
           f == [line \in lines |-> competition_id[line.game]]
           group == [c \in boards |-> OwnLines(table, c, p)]
           id == [g \in Games |-> competition_id[g]]
<1>1. IsFiniteSet(boards)
  <2>1. Competitions = {id[g] : g \in Games}  BY DEF Competitions
  <2>2. IsFiniteSet(Games)  BY BoxScoresAssumption DEF BoxScoresAssumption
  <2> HIDE DEF id
  <2>3. IsFiniteSet(Competitions)  BY <2>1, <2>2, FiniteImage
  <2>4. QED BY <2>3, FS_Subset
<1>2. \A line \in lines : f[line] \in boards  BY DEF AllOn, AllLines
<1>3. /\ \A c \in boards : group[c] \subseteq lines
      /\ \A c \in boards, line \in lines : line \in group[c] <=> f[line] = c
  BY DEF OwnLines, LinesOf, AllLines
<1>4. \A c \in boards : t[c] = SumOf(w, group[c])  OBVIOUS
<1>5. lines \subseteq table  BY DEF AllLines
<1> HIDE DEF lines, f, group
<1>6. Summable(w, lines)  BY <1>5, SummableSubset
<1>7. SumOf(t, boards) = SumOf(w, lines)
  BY <1>1, <1>2, <1>3, <1>4, <1>6, SumGroups
<1>8. QED BY <1>7 DEF lines

\* The outer sums of the property.
LEMMA SumsOverBoards ==
  ASSUME NEW table, NEW stat, NEW p, NEW boards
  PROVE  /\ MapThenSumSet(LAMBDA c : TotalOn(table, c, stat, p), boards)
              = SumOf([c \in boards |-> TotalOn(table, c, stat, p)], boards)
         /\ MapThenSumSet(LAMBDA c : GamesOn(table, c, p), boards)
              = SumOf([c \in boards |-> GamesOn(table, c, p)], boards)
<1> DEFINE v == [c \in boards |-> TotalOn(table, c, stat, p)]
           n == [c \in boards |-> GamesOn(table, c, p)]
<1>1. \A g : (g = [s \in SUBSET boards |->
                     IF s = {} THEN 0
                     ELSE TotalOn(table, CHOOSE x \in s : TRUE, stat, p)
                            + g[s \ {CHOOSE x \in s : TRUE}]])
             <=> IsSum(g, v, boards)
  <2>1. \A s \in SUBSET boards :
          s # {} => TotalOn(table, CHOOSE x \in s : TRUE, stat, p) = v[First(s)]
    BY DEF First
  <2> HIDE DEF v
  <2>2. QED BY <2>1 DEF IsSum, First
<1>2. \A g : (g = [s \in SUBSET boards |->
                     IF s = {} THEN 0
                     ELSE GamesOn(table, CHOOSE x \in s : TRUE, p)
                            + g[s \ {CHOOSE x \in s : TRUE}]])
             <=> IsSum(g, n, boards)
  <2>1. \A s \in SUBSET boards :
          s # {} => GamesOn(table, CHOOSE x \in s : TRUE, p) = n[First(s)]
    BY DEF First
  <2> HIDE DEF n
  <2>2. QED BY <2>1 DEF IsSum, First
<1>3. MapThenSumSet(LAMBDA c : TotalOn(table, c, stat, p), boards) = SumOf(v, boards)
  BY <1>1 DEF MapThenSumSet, MapThenFoldSet, SumOf
<1>4. MapThenSumSet(LAMBDA c : GamesOn(table, c, p), boards) = SumOf(n, boards)
  BY <1>2 DEF MapThenSumSet, MapThenFoldSet, SumOf
<1>5. QED BY <1>3, <1>4

\* The totals over the leaderboards are those over all the lines of the player.
LEMMA BoardsTotal ==
  ASSUME NEW table \in Tables, NEW stat \in Stats, NEW p,
         NEW boards \in SUBSET Competitions, AllOn(table, boards, p)
  PROVE  LET own == AllLines(table, p)
         IN  /\ MapThenSumSet(LAMBDA c : TotalOn(table, c, stat, p), boards)
                  = Total(own, stat)
             /\ MapThenSumSet(LAMBDA c : GamesOn(table, c, p), boards)
                  = Cardinality(own)
<1> DEFINE own == AllLines(table, p)
           v == [c \in boards |-> TotalOn(table, c, stat, p)]
           n == [c \in boards |-> GamesOn(table, c, p)]
<1>1. /\ \A c \in boards : v[c] = SumOf(Columns(table, stat), OwnLines(table, c, p))
      /\ \A c \in boards : n[c] = SumOf(Ones(table), OwnLines(table, c, p))
  BY OnBoard
<1>2. Summable(Columns(table, stat), table) /\ Summable(Ones(table), table)
  BY LinesAreSummable
<1>3. own \subseteq table  BY DEF AllLines
<1>4. /\ MapThenSumSet(LAMBDA c : TotalOn(table, c, stat, p), boards)
           = SumOf(v, boards)
      /\ MapThenSumSet(LAMBDA c : GamesOn(table, c, p), boards)
           = SumOf(n, boards)
  BY SumsOverBoards
<1> HIDE DEF v, n
<1>5. /\ SumOf(v, boards) = SumOf(Columns(table, stat), own)
      /\ SumOf(n, boards) = SumOf(Ones(table), own)
  BY <1>1, <1>2, BoardsAddUp
<1> HIDE DEF own
<1>6. /\ Total(own, stat) = SumOf(Columns(table, stat), own)
      /\ Cardinality(own) = SumOf(Ones(table), own)
  BY <1>3, AggregateIs
<1>7. QED BY <1>4, <1>5, <1>6 DEF own

\* However many players, games and competitions there are, the leaderboards of a season
\* say of a player of that season, together, what the player's stats say.
THEOREM LeaderboardsAddUpAlways == ScoresSpec => []LeaderboardsAddUp
<1>1. ASSUME box_scores \in Tables, NEW p \in Players, NEW s \in Seasons, PlaysOnlyIn(p, s)
      PROVE  LET stats == SeasonStats(box_scores, p, s)
                 sum(stat) ==
                   MapThenSumSet(LAMBDA c : TotalOn(box_scores, c, stat, p), CompetitionsOf(s))
                 games == MapThenSumSet(LAMBDA c : GamesOn(box_scores, c, p), CompetitionsOf(s))
             IN  IF stats = NoStats THEN games = 0
                 ELSE /\ stats.games_played = games
                      /\ stats.pts_total = sum("pts") /\ stats.val_total = sum("val")
  <2> DEFINE own == AllLines(box_scores, p)
             boards == CompetitionsOf(s)
             stats == SeasonStats(box_scores, p, s)
  <2>1. "pts" \in Stats /\ "val" \in Stats /\ "reb" \in Stats /\ "ast" \in Stats
    BY DEF Stats
  <2>2. boards \in SUBSET Competitions /\ AllOn(box_scores, boards, p)
    BY <1>1 DEF CompetitionsOf, PlaysOnlyIn, AllOn
  <2>3. /\ MapThenSumSet(LAMBDA c : GamesOn(box_scores, c, p), boards) = Cardinality(own)
        /\ MapThenSumSet(LAMBDA c : TotalOn(box_scores, c, "pts", p), boards)
             = Total(own, "pts")
        /\ MapThenSumSet(LAMBDA c : TotalOn(box_scores, c, "val", p), boards)
             = Total(own, "val")
    <3> HIDE DEF boards
    <3>1. QED BY <1>1, <2>1, <2>2, BoardsTotal
  <2>4. CASE own = {}
    <3>1. stats = NoStats  BY <2>4 DEF SeasonStats, PlayerLines, AllLines
    <3>2. Cardinality(own) = 0  BY <2>4, FS_EmptySet
    <3>3. QED BY <2>3, <3>1, <3>2
  <2>5. CASE own # {}
    <3>1. stats = [games_played |-> Cardinality(own), pts_total |-> Total(own, "pts"),
                   reb_total |-> Total(own, "reb"), ast_total |-> Total(own, "ast"),
                   val_total |-> Total(own, "val")]
      BY <2>5 DEF SeasonStats, PlayerLines, AllLines
    <3>2. own \subseteq box_scores  BY DEF AllLines
    <3> HIDE DEF own, stats
    <3>3. \A stat \in Stats : Total(own, stat) \in Int
      <4> SUFFICES ASSUME NEW stat \in Stats PROVE Total(own, stat) \in Int  OBVIOUS
      <4>1. Summable(Columns(own, stat), own)  BY <1>1, <3>2, LinesAreSummable
      <4>2. QED BY <4>1, SumType, TotalIs
    <3>4. Cardinality(own) \in Int
      <4>1. IsFiniteSet(own)  BY <1>1, <2>1, <3>2, LinesAreSummable
      <4>2. QED BY <4>1, FS_CardinalityType
    <3>5. stats # NoStats
      BY <2>1, <3>1, <3>3, <3>4, BoxScoresAssumption DEF BoxScoresAssumption
    <3>6. QED BY <2>3, <3>1, <3>5 DEF stats
  <2>6. QED BY <2>4, <2>5
<1>2. ScoresInv => LeaderboardsAddUp
  BY <1>1 DEF LeaderboardsAddUp, ScoresInv
<1>3. QED BY <1>2, ScoresInvariant, PTL
=============================================================================
