-------------------------- MODULE Standings_proofs --------------------------
(***************************************************************************)
(* The standings of any number of teams after any results: RANK() over the *)
(* three keys, and the sums of GROUP BY over the lines of UNION ALL.       *)
(***************************************************************************)
EXTENDS Standings, Queries_proofs

\* The part of an aggregated row the ORDER BY looks at.
HasKeys(row) == row.wins \in Int /\ row.point_diff \in Int /\ row.points_for \in Int

\* The three keys of the standings are such an ORDER BY.
LEMMA KeysAreAnOrder ==
  ASSUME NEW rows, \A row \in rows : HasKeys(row)
  PROVE  IsOrderBy(Ahead(rows), rows)
<1>1. Ahead(rows) \subseteq rows \X rows
  BY DEF Ahead
<1>2. \A t, u \in rows : <<t, u>> \in Ahead(rows) <=> SortsBefore(t, u)
  BY DEF Ahead
<1>3. \A t \in rows : ~ SortsBefore(t, t)
  BY DEF SortsBefore, HasKeys
<1>4. \A t, u, v \in rows : SortsBefore(t, u) /\ SortsBefore(u, v) => SortsBefore(t, v)
  BY DEF SortsBefore, HasKeys
<1>5. \A t, u, v \in rows : SortsBefore(t, u) => SortsBefore(t, v) \/ SortsBefore(v, u)
  BY DEF SortsBefore, HasKeys
<1> QED
  BY <1>1, <1>2, <1>3, <1>4, <1>5 DEF IsOrderBy

\* The positions of any standings follow wins, point difference and points for,
\* in this order, and are numbered 1, 1, 3 (ADR-0004; the RANK() of the query).
THEOREM StandingsAreRanked ==
  ASSUME NEW rows, IsFiniteSet(rows), \A row \in rows : HasKeys(row)
  PROVE  ProperRanking(Ahead(rows), rows)
  BY KeysAreAnOrder, RankIsProper

\* Two teams share a position exactly if they agree in all three keys: ADR-0004
\* promises no draw "unless every field matches exactly".
THEOREM SharedOnlyByEquals ==
  ASSUME NEW rows, IsFiniteSet(rows), \A row \in rows : HasKeys(row),
         NEW t \in rows, NEW u \in rows
  PROVE  Rank(Ahead(rows), t) = Rank(Ahead(rows), u)
           <=> /\ t.wins = u.wins
               /\ t.point_diff = u.point_diff
               /\ t.points_for = u.points_for
<1>1. FollowsOrder(Ahead(rows), rows)
  BY StandingsAreRanked DEF ProperRanking
<1>2. /\ Rank(Ahead(rows), t) < Rank(Ahead(rows), u) <=> SortsBefore(t, u)
      /\ Rank(Ahead(rows), u) < Rank(Ahead(rows), t) <=> SortsBefore(u, t)
  BY <1>1 DEF FollowsOrder, Ahead
<1>3. Ahead(rows) \subseteq rows \X rows
  BY DEF Ahead
<1>4. Rank(Ahead(rows), t) \in Nat /\ Rank(Ahead(rows), u) \in Nat
  <2>1. \A r : Cardinality(Before(Ahead(rows), r)) \in Nat
    BY <1>3, BeforeFinite
  <2> QED
    BY <2>1 DEF Rank
<1>5. HasKeys(t) /\ HasKeys(u)
  OBVIOUS
<1> QED
  BY <1>2, <1>4, <1>5 DEF SortsBefore, HasKeys

-----------------------------------------------------------------------------
(* The lines of the query. *)

\* The contents the table may have.
Tables ==
  {table \in [Games -> Game \cup {NoGame}] :
     \A g \in Games : table[g] # NoGame => table[g].home # table[g].away}

\* The groups of GROUP BY, and their keys.
LinesOf(table, c, t) == {line \in PerTeam(table, c) : line.team = t}
TeamsOf(table, c)    == {line.team : line \in PerTeam(table, c)}

LEMMA GamesAre ==
  ASSUME NEW table \in Tables, NEW c, NEW g \in GamesOf(table, c)
  PROVE  /\ g \in Games /\ table[g] \in Game /\ table[g].home # table[g].away
         /\ table[g].total_home \in Nat /\ table[g].total_away \in Nat
<1>1. g \in Games /\ table[g] # NoGame  BY DEF GamesOf
<1>2. table[g] \in Game /\ table[g].home # table[g].away  BY <1>1 DEF Tables
<1>3. QED BY <1>1, <1>2, ScoresAssumption DEF Game, ScoresAssumption

LEMMA GamesFinite == ASSUME NEW table, NEW c PROVE IsFiniteSet(GamesOf(table, c))
BY ScoresAssumption, FS_Subset DEF ScoresAssumption, GamesOf

\* The two lines of a game.
LEMMA LinesAre ==
  ASSUME NEW table \in Tables, NEW c, NEW g \in GamesOf(table, c)
  PROVE  LET home == HomeLine(g, table[g])
             away == AwayLine(g, table[g])
         IN  /\ home # away /\ {home, away} \subseteq PerTeam(table, c)
             /\ {line \in PerTeam(table, c) : line.game = g} = {home, away}
             /\ \A line \in {home, away} :
                  /\ line.game = g /\ line.win \in {0, 1}
                  /\ line.points_for \in Nat /\ line.points_against \in Nat
<1> DEFINE home == HomeLine(g, table[g])
           away == AwayLine(g, table[g])
<1>1. table[g].home # table[g].away
  BY GamesAre
<1>2. home.team = table[g].home /\ away.team = table[g].away
  BY DEF HomeLine, AwayLine
<1>3. home # away  BY <1>1, <1>2
<1>4. {home, away} \subseteq PerTeam(table, c)  BY DEF PerTeam
<1>5. \A h : HomeLine(h, table[h]).game = h /\ AwayLine(h, table[h]).game = h
  BY DEF HomeLine, AwayLine
<1>6. ASSUME NEW line \in PerTeam(table, c), line.game = g PROVE line \in {home, away}
  <2>1. PICK h \in GamesOf(table, c) :
          line = HomeLine(h, table[h]) \/ line = AwayLine(h, table[h])
    BY DEF PerTeam
  <2>2. h = g  BY <1>5, <1>6, <2>1
  <2>3. QED BY <2>1, <2>2
<1>7. table[g].total_home \in Nat /\ table[g].total_away \in Nat  BY GamesAre
<1>8. /\ home.win \in {0, 1} /\ home.points_for \in Nat /\ home.points_against \in Nat
      /\ away.win \in {0, 1} /\ away.points_for \in Nat /\ away.points_against \in Nat
  BY <1>7 DEF HomeLine, AwayLine, CaseWin
<1>9. home.game = g /\ away.game = g  BY <1>5
<1> HIDE DEF home, away
<1>10. {line \in PerTeam(table, c) : line.game = g} = {home, away}
  BY <1>4, <1>6, <1>9
<1>11. QED BY <1>3, <1>4, <1>8, <1>9, <1>10 DEF home, away

\* Every line is of a game.
LEMMA LineTypes ==
  ASSUME NEW table \in Tables, NEW c, NEW line \in PerTeam(table, c)
  PROVE  /\ line.game \in GamesOf(table, c) /\ line.win \in {0, 1}
         /\ line.points_for \in Nat /\ line.points_against \in Nat
<1>1. PICK g \in GamesOf(table, c) :
        line = HomeLine(g, table[g]) \/ line = AwayLine(g, table[g])
  BY DEF PerTeam
<1>2. QED BY <1>1, LinesAre

LEMMA LinesFinite ==
  ASSUME NEW table \in Tables, NEW c
  PROVE  IsFiniteSet(PerTeam(table, c))
<1> DEFINE homes == {HomeLine(g, table[g]) : g \in GamesOf(table, c)}
           aways == {AwayLine(g, table[g]) : g \in GamesOf(table, c)}
           home  == [g \in Games |-> HomeLine(g, table[g])]
           away  == [g \in Games |-> AwayLine(g, table[g])]
<1>1. GamesOf(table, c) \subseteq Games  BY DEF GamesOf
<1>2. homes = {home[g] : g \in GamesOf(table, c)} /\ aways = {away[g] : g \in GamesOf(table, c)}
  BY <1>1
<1>3. IsFiniteSet(homes) /\ IsFiniteSet(aways)
  <2> HIDE DEF home, away, homes, aways
  <2>1. IsFiniteSet({home[g] : g \in GamesOf(table, c)})  BY GamesFinite, FiniteImage
  <2>2. IsFiniteSet({away[g] : g \in GamesOf(table, c)})  BY GamesFinite, FiniteImage
  <2>3. QED BY <1>2, <2>1, <2>2
<1>4. PerTeam(table, c) = homes \cup aways  BY DEF PerTeam
<1>5. QED BY <1>3, <1>4, FS_Union

-----------------------------------------------------------------------------
(* The aggregates. *)

\* SUM over the lines of a group.
LEMMA WinsAre ==
  ASSUME NEW lines
  PROVE  MapThenSumSet(LAMBDA line : line.win, lines) = SumOf([x \in lines |-> x.win], lines)
<1> DEFINE w == [x \in lines |-> x.win]
<1>1. \A g : (g = [s \in SUBSET lines |->
                     IF s = {} THEN 0
                     ELSE (CHOOSE x \in s : TRUE).win + g[s \ {CHOOSE x \in s : TRUE}]])
             <=> IsSum(g, w, lines)
  <2>1. \A s \in SUBSET lines : s # {} => (CHOOSE x \in s : TRUE).win = w[First(s)]
    BY DEF First
  <2>2. QED BY <2>1 DEF IsSum, First
<1>2. QED BY <1>1 DEF MapThenSumSet, MapThenFoldSet, SumOf

LEMMA ScoredAre ==
  ASSUME NEW lines
  PROVE  MapThenSumSet(LAMBDA line : line.points_for, lines)
           = SumOf([x \in lines |-> x.points_for], lines)
<1> DEFINE w == [x \in lines |-> x.points_for]
<1>1. \A g : (g = [s \in SUBSET lines |->
                     IF s = {} THEN 0
                     ELSE (CHOOSE x \in s : TRUE).points_for + g[s \ {CHOOSE x \in s : TRUE}]])
             <=> IsSum(g, w, lines)
  <2>1. \A s \in SUBSET lines : s # {} => (CHOOSE x \in s : TRUE).points_for = w[First(s)]
    BY DEF First
  <2>2. QED BY <2>1 DEF IsSum, First
<1>2. QED BY <1>1 DEF MapThenSumSet, MapThenFoldSet, SumOf

LEMMA TakenAre ==
  ASSUME NEW lines
  PROVE  MapThenSumSet(LAMBDA line : line.points_against, lines)
           = SumOf([x \in lines |-> x.points_against], lines)
<1> DEFINE w == [x \in lines |-> x.points_against]
<1>1. \A g : (g = [s \in SUBSET lines |->
                     IF s = {} THEN 0
                     ELSE (CHOOSE x \in s : TRUE).points_against + g[s \ {CHOOSE x \in s : TRUE}]])
             <=> IsSum(g, w, lines)
  <2>1. \A s \in SUBSET lines : s # {} => (CHOOSE x \in s : TRUE).points_against = w[First(s)]
    BY DEF First
  <2>2. QED BY <2>1 DEF IsSum, First
<1>2. QED BY <1>1 DEF MapThenSumSet, MapThenFoldSet, SumOf

\* What the aggregates add up, line by line.
Wins(lines)   == [x \in lines |-> x.win]
Scored(lines) == [x \in lines |-> x.points_for]
Taken(lines)  == [x \in lines |-> x.points_against]
Owed(lines)   == [x \in lines |-> -x.points_against]
Diffs(lines)  == [x \in lines |-> x.points_for + -x.points_against]

LEMMA LinesSummable ==
  ASSUME NEW table \in Tables, NEW c, NEW lines, lines \subseteq PerTeam(table, c)
  PROVE  /\ IsFiniteSet(lines)
         /\ Summable(Ones(lines), lines) /\ Summable(Wins(lines), lines)
         /\ Summable(Scored(lines), lines) /\ Summable(Taken(lines), lines)
         /\ Summable(Owed(lines), lines) /\ Summable(Diffs(lines), lines)
<1>1. IsFiniteSet(lines)  BY LinesFinite, FS_Subset
<1>2. \A x \in lines : x.win \in Int /\ x.points_for \in Int /\ x.points_against \in Int
  BY LineTypes
<1>3. QED BY <1>1, <1>2 DEF Summable, Ones, Wins, Scored, Taken, Owed, Diffs

\* The difference of two sums is the sum of the differences.
LEMMA DiffIs ==
  ASSUME NEW table \in Tables, NEW c, NEW lines, lines \subseteq PerTeam(table, c)
  PROVE  SumOf(Scored(lines), lines) - SumOf(Taken(lines), lines) = SumOf(Diffs(lines), lines)
<1> DEFINE zeros == [x \in lines |-> 0]
<1>1. /\ IsFiniteSet(lines) /\ Summable(Scored(lines), lines)
      /\ Summable(Taken(lines), lines) /\ Summable(Owed(lines), lines)
  BY LinesSummable
<1>2. SumOf(Diffs(lines), lines) = SumOf(Scored(lines), lines) + SumOf(Owed(lines), lines)
  <2>1. \A x \in lines : Diffs(lines)[x] = Scored(lines)[x] + Owed(lines)[x]
    BY DEF Diffs, Scored, Owed
  <2>2. QED BY <1>1, <2>1, SumPlus
<1>3. SumOf(zeros, lines) = SumOf(Taken(lines), lines) + SumOf(Owed(lines), lines)
  <2>1. \A x \in lines : x.points_against \in Int  BY LineTypes
  <2>2. \A x \in lines : zeros[x] = Taken(lines)[x] + Owed(lines)[x]
    BY <2>1 DEF Taken, Owed
  <2> HIDE DEF zeros
  <2>3. QED BY <1>1, <2>2, SumPlus
<1>4. SumOf(zeros, lines) = 0
  <2>1. \A x \in lines : zeros[x] = IF x \in {} THEN 1 ELSE 0  OBVIOUS
  <2> HIDE DEF zeros
  <2>2. SumOf(zeros, lines) = Cardinality(lines \cap {})  BY <1>1, <2>1, SumCounts
  <2>3. lines \cap {} = {} /\ Cardinality({}) = 0  BY FS_EmptySet
  <2>4. QED BY <2>2, <2>3
<1>5. /\ SumOf(Scored(lines), lines) \in Int /\ SumOf(Taken(lines), lines) \in Int
      /\ SumOf(Owed(lines), lines) \in Int
  BY <1>1, SumType
<1>6. QED BY <1>2, <1>3, <1>4, <1>5

\* A row of the standings: sums over its lines, and no more wins than games.
LEMMA RowsAre ==
  ASSUME NEW table \in Tables, NEW c, NEW lines, lines \subseteq PerTeam(table, c), NEW t
  PROVE  LET row == Aggregate(lines, t)
         IN  /\ row.team = t
             /\ row.played = SumOf(Ones(lines), lines)
             /\ row.wins = SumOf(Wins(lines), lines)
             /\ row.points_for = SumOf(Scored(lines), lines)
             /\ row.point_diff = SumOf(Diffs(lines), lines)
             /\ row.losses \in Nat
             /\ HasKeys(row)
<1> DEFINE row == Aggregate(lines, t)
<1>1. /\ IsFiniteSet(lines) /\ Summable(Ones(lines), lines) /\ Summable(Wins(lines), lines)
      /\ Summable(Scored(lines), lines) /\ Summable(Diffs(lines), lines)
  BY LinesSummable
<1>2. /\ row.team = t /\ row.played = Cardinality(lines)
      /\ row.wins = SumOf(Wins(lines), lines)
      /\ row.losses = Cardinality(lines) - SumOf(Wins(lines), lines)
      /\ row.points_for = SumOf(Scored(lines), lines)
      /\ row.point_diff = SumOf(Scored(lines), lines) - SumOf(Taken(lines), lines)
  BY WinsAre, ScoredAre, TakenAre DEF Aggregate, Wins, Scored, Taken
<1> HIDE DEF row
<1>3. Cardinality(lines) = SumOf(Ones(lines), lines)  BY <1>1, SumOfOnes
<1>4. row.point_diff = SumOf(Diffs(lines), lines)  BY <1>2, DiffIs
<1>5. /\ SumOf(Ones(lines), lines) \in Int /\ SumOf(Wins(lines), lines) \in Int
      /\ SumOf(Scored(lines), lines) \in Int /\ SumOf(Diffs(lines), lines) \in Int
  BY <1>1, SumType
<1>6. SumOf(Wins(lines), lines) <= SumOf(Ones(lines), lines)
  <2>1. \A x \in lines : x.win \in {0, 1}  BY LineTypes
  <2>2. \A x \in lines : Wins(lines)[x] <= Ones(lines)[x]  BY <2>1 DEF Wins, Ones
  <2>3. QED BY <1>1, <2>2, SumLessOrEqual
<1>7. row.losses \in Nat  BY <1>2, <1>3, <1>5, <1>6
<1>8. HasKeys(row)  BY <1>2, <1>4, <1>5 DEF HasKeys
<1>9. QED BY <1>2, <1>3, <1>4, <1>7, <1>8 DEF row

-----------------------------------------------------------------------------
(* The rows of a competition. *)

\* The row of each team.
RowOf(table, c) ==
  [t \in TeamsOf(table, c) |-> Aggregate(LinesOf(table, c, t), t)]

\* GROUP BY yields a row for each team with a line, and no two for one.
LEMMA OneRowEach ==
  ASSUME NEW table \in Tables, NEW c
  PROVE  /\ IsFiniteSet(TeamsOf(table, c)) /\ IsFiniteSet(Aggregated(table, c))
         /\ Aggregated(table, c) = {RowOf(table, c)[t] : t \in TeamsOf(table, c)}
         /\ \A t \in TeamsOf(table, c) :
              /\ LinesOf(table, c, t) \subseteq PerTeam(table, c)
              /\ RowOf(table, c)[t] = Aggregate(LinesOf(table, c, t), t)
              /\ RowOf(table, c)[t].team = t
         /\ \A t, u \in TeamsOf(table, c) : RowOf(table, c)[t] = RowOf(table, c)[u] => t = u
<1> DEFINE team == [line \in PerTeam(table, c) |-> line.team]
<1>1. IsFiniteSet(TeamsOf(table, c))
  <2>1. TeamsOf(table, c) = {team[line] : line \in PerTeam(table, c)}  BY DEF TeamsOf
  <2> HIDE DEF team
  <2>2. QED BY <2>1, LinesFinite, FiniteImage
<1>2. \A t : LinesOf(table, c, t) \subseteq PerTeam(table, c)  BY DEF LinesOf
<1>3. \A t \in TeamsOf(table, c) : RowOf(table, c)[t] = Aggregate(LinesOf(table, c, t), t)
  BY DEF RowOf
<1>4. \A t \in TeamsOf(table, c) : RowOf(table, c)[t].team = t
  <2>1. \A lines, t : Aggregate(lines, t).team = t  BY DEF Aggregate
  <2>2. QED BY <1>3, <2>1
<1>5. Aggregated(table, c) = {RowOf(table, c)[t] : t \in TeamsOf(table, c)}
  <2>1. Aggregated(table, c) = {Aggregate(LinesOf(table, c, t), t) : t \in TeamsOf(table, c)}
    BY DEF Aggregated, LinesOf, TeamsOf
  <2>2. QED BY <1>3, <2>1
<1>6. IsFiniteSet(Aggregated(table, c))  BY <1>1, <1>5, FiniteImage
<1>7. QED BY <1>1, <1>2, <1>3, <1>4, <1>5, <1>6

LEMMA RowsHaveKeys ==
  ASSUME NEW table \in Tables, NEW c, NEW row \in Aggregated(table, c)
  PROVE  HasKeys(row) /\ row.losses \in Nat
<1>1. PICK t \in TeamsOf(table, c) : row = RowOf(table, c)[t]  BY OneRowEach
<1>2. LinesOf(table, c, t) \subseteq PerTeam(table, c)
      /\ row = Aggregate(LinesOf(table, c, t), t)
  BY <1>1, OneRowEach
<1>3. QED BY <1>2, RowsAre

\* The answer has as many rows as the aggregate, whatever positions they share.
LEMMA AnswerCounts ==
  ASSUME NEW table \in Tables, NEW c
  PROVE  Cardinality(Standings(table, c)) = Cardinality(Aggregated(table, c))
<1> DEFINE rows == Aggregated(table, c)
           f    == [r \in rows |-> [row |-> r, position |-> Rank(Ahead(rows), r)]]
<1>1. Standings(table, c) = {f[r] : r \in rows}  BY DEF Standings
<1>2. f \in Bijection(rows, {f[r] : r \in rows})
  <2>1. \A r \in rows : f[r].row = r  OBVIOUS
  <2>2. \A r, s \in rows : f[r] = f[s] => r = s  BY <2>1
  <2>3. f \in [rows -> {f[r] : r \in rows}]  OBVIOUS
  <2> HIDE DEF f
  <2>4. QED BY <2>2, <2>3 DEF Bijection, Injection, IsInjective, Surjection
<1>3. IsFiniteSet(rows)  BY OneRowEach
<1> HIDE DEF f
<1>4. Cardinality({f[r] : r \in rows}) = Cardinality(rows)
  BY <1>2, <1>3, FS_Bijection DEF ExistsBijection
<1>5. QED BY <1>1, <1>4

\* A position is among 1 .. number of rows.
LEMMA PlacesAreBounded ==
  ASSUME NEW rows, IsFiniteSet(rows), NEW r \in rows, \A row \in rows : HasKeys(row)
  PROVE  Rank(Ahead(rows), r) \in 1 .. Cardinality(rows)
<1>1. Ahead(rows) \subseteq rows \X rows  BY DEF Ahead
<1>2. Before(Ahead(rows), r) \subseteq rows  BY <1>1, BeforeFinite
<1>3. r \notin Before(Ahead(rows), r)
  BY <1>1, BeforeMember, KeysAreAnOrder DEF IsOrderBy
<1>4. /\ Cardinality(Before(Ahead(rows), r)) < Cardinality(rows)
      /\ Cardinality(Before(Ahead(rows), r)) \in Nat /\ Cardinality(rows) \in Nat
  <2>1. Before(Ahead(rows), r) # rows  BY <1>3
  <2>2. IsFiniteSet(Before(Ahead(rows), r))  BY <1>1, BeforeFinite
  <2>3. QED BY <1>2, <2>1, <2>2, FS_Subset, FS_CardinalityType
<1>5. QED BY <1>4 DEF Rank

\* The two lines of a game, added up.
LEMMA SumByGame ==
  ASSUME NEW table \in Tables, NEW c, NEW u, Summable(u, PerTeam(table, c)),
         NEW g \in GamesOf(table, c)
  PROVE  SumOf(u, {line \in PerTeam(table, c) : line.game = g})
           = u[HomeLine(g, table[g])] + u[AwayLine(g, table[g])]
<1> DEFINE home == HomeLine(g, table[g])
           away == AwayLine(g, table[g])
<1>1. /\ home # away /\ home \in PerTeam(table, c) /\ away \in PerTeam(table, c)
      /\ {line \in PerTeam(table, c) : line.game = g} = {home, away}
  BY LinesAre
<1>2. u[home] \in Int /\ u[away] \in Int  BY <1>1 DEF Summable
<1> HIDE DEF home, away
<1>3. SumOf(u, {home, away}) = u[home] + u[away]  BY <1>1, <1>2, SumOfTwo
<1>4. SumOf(u, {line \in PerTeam(table, c) : line.game = g}) = u[home] + u[away]
  BY <1>1, <1>3
<1>5. QED BY <1>4 DEF home, away

\* The lines of a table, added up team by team.
LEMMA SumByTeam ==
  ASSUME NEW table \in Tables, NEW c, NEW u, Summable(u, PerTeam(table, c)), NEW sums,
         \A t \in TeamsOf(table, c) : sums[t] = SumOf(u, LinesOf(table, c, t))
  PROVE  SumOf(sums, TeamsOf(table, c)) = SumOf(u, PerTeam(table, c))
<1> DEFINE lines == PerTeam(table, c)
           teams == TeamsOf(table, c)
           team  == [line \in lines |-> line.team]
           group == [t \in teams |-> LinesOf(table, c, t)]
<1>1. IsFiniteSet(teams)  BY OneRowEach
<1>2. /\ \A t \in teams : group[t] \subseteq lines
      /\ \A t \in teams, line \in lines : line \in group[t] <=> team[line] = t
  BY DEF LinesOf
<1>3. \A t \in teams : sums[t] = SumOf(u, group[t])  OBVIOUS
<1>4. \A line \in lines : team[line] \in teams  BY DEF TeamsOf
<1> HIDE DEF lines, teams, team, group
<1>5. Summable(u, lines)  BY DEF lines
<1>6. SumOf(sums, teams) = SumOf(u, lines)
  BY <1>1, <1>2, <1>3, <1>4, <1>5, SumGroups
<1>7. QED BY <1>6 DEF lines, teams

\* The totals over the rows are those over the games: a line is grouped with the
\* others of its team in the answer and with the other one of its game in the table.
LEMMA Totals ==
  ASSUME NEW table \in Tables, NEW c, NEW u, NEW v, NEW q,
         Summable(u, PerTeam(table, c)),
         \A t \in TeamsOf(table, c) :
           v[RowOf(table, c)[t]] = SumOf(u, LinesOf(table, c, t)),
         \A g \in GamesOf(table, c) :
           q[g] = u[HomeLine(g, table[g])] + u[AwayLine(g, table[g])]
  PROVE  SumOf(v, Aggregated(table, c)) = SumOf(q, GamesOf(table, c))
<1> DEFINE lines == PerTeam(table, c)
           teams == TeamsOf(table, c)
           game  == [line \in lines |-> line.game]
           group == [g \in GamesOf(table, c) |-> {line \in lines : line.game = g}]
           sums  == [t \in teams |-> SumOf(u, LinesOf(table, c, t))]
<1>1. \A t \in teams : sums[t] = SumOf(u, LinesOf(table, c, t))  OBVIOUS
<1>2. \A t \in teams : v[RowOf(table, c)[t]] = sums[t]  OBVIOUS
<1>3. \A t \in teams : sums[t] \in Int
  <2>1. \A t \in teams : Summable(u, LinesOf(table, c, t))  BY OneRowEach, SummableSubset
  <2>2. QED BY <2>1, SumType
<1>4. \A line \in lines : game[line] \in GamesOf(table, c)  BY LineTypes
<1>5. ASSUME NEW g \in GamesOf(table, c)
      PROVE  /\ group[g] \subseteq lines
             /\ \A line \in lines : line \in group[g] <=> game[line] = g
             /\ q[g] = SumOf(u, group[g])
  <2>1. SumOf(u, {line \in lines : line.game = g})
          = u[HomeLine(g, table[g])] + u[AwayLine(g, table[g])]
    BY SumByGame
  <2>2. group[g] = {line \in lines : line.game = g}  OBVIOUS
  <2>3. QED BY <2>1, <2>2
<1>6. IsFiniteSet(GamesOf(table, c)) /\ IsFiniteSet(teams)  BY GamesFinite, OneRowEach
<1> HIDE DEF lines, teams, game, group, sums
<1>7. SumOf(sums, teams) = SumOf(u, lines)
  BY <1>1, SumByTeam DEF lines, teams
<1>8. SumOf(q, GamesOf(table, c)) = SumOf(u, lines)
  <2>1. Summable(u, lines)  BY DEF lines
  <2>2. QED BY <1>4, <1>5, <1>6, <2>1, SumGroups
<1>9. SumOf(v, {RowOf(table, c)[t] : t \in teams}) = SumOf(sums, teams)
  <2>1. Summable(sums, teams)  BY <1>3, <1>6 DEF Summable
  <2>2. \A t, s \in teams : RowOf(table, c)[t] = RowOf(table, c)[s] => t = s
    BY OneRowEach DEF teams
  <2>3. QED BY <1>2, <2>1, <2>2, SumOverKeys
<1>10. Aggregated(table, c) = {RowOf(table, c)[t] : t \in teams}  BY OneRowEach DEF teams
<1>11. QED BY <1>7, <1>8, <1>9, <1>10

-----------------------------------------------------------------------------
(* The books balance. *)

\* A row adds up functions of all lines over the lines of its team.
LEMMA RowsAddUp ==
  ASSUME NEW table \in Tables, NEW c, NEW t \in TeamsOf(table, c)
  PROVE  LET row == RowOf(table, c)[t]
             own == LinesOf(table, c, t)
             all == PerTeam(table, c)
         IN  /\ row \in Aggregated(table, c)
             /\ row.played = SumOf(Ones(all), own)
             /\ row.wins = SumOf(Wins(all), own)
             /\ row.point_diff = SumOf(Diffs(all), own)
<1> DEFINE row == RowOf(table, c)[t]
           own == LinesOf(table, c, t)
           all == PerTeam(table, c)
<1>1. own \subseteq all /\ row \in Aggregated(table, c) /\ row = Aggregate(own, t)
  BY OneRowEach
<1>2. IsFiniteSet(own)  BY <1>1, LinesFinite, FS_Subset
<1>3. /\ row.played = SumOf(Ones(own), own) /\ row.wins = SumOf(Wins(own), own)
      /\ row.point_diff = SumOf(Diffs(own), own)
  BY <1>1, RowsAre
<1>4. /\ \A x \in own : Ones(own)[x] = Ones(all)[x]
      /\ \A x \in own : Wins(own)[x] = Wins(all)[x]
      /\ \A x \in own : Diffs(own)[x] = Diffs(all)[x]
  BY <1>1 DEF Ones, Wins, Diffs
<1> HIDE DEF row, own, all
<1>5. /\ SumOf(Ones(own), own) = SumOf(Ones(all), own)
      /\ SumOf(Wins(own), own) = SumOf(Wins(all), own)
      /\ SumOf(Diffs(own), own) = SumOf(Diffs(all), own)
  BY <1>2, <1>4, SumEqual
<1>6. QED BY <1>1, <1>3, <1>5 DEF row, own, all

\* Total(field) of the property.
LEMMA TotalIs ==
  ASSUME NEW rows, NEW field
  PROVE  MapThenSumSet(LAMBDA r : r[field], rows) = SumOf([x \in rows |-> x[field]], rows)
<1> DEFINE w == [x \in rows |-> x[field]]
<1>1. \A g : (g = [s \in SUBSET rows |->
                     IF s = {} THEN 0
                     ELSE (CHOOSE x \in s : TRUE)[field] + g[s \ {CHOOSE x \in s : TRUE}]])
             <=> IsSum(g, w, rows)
  <2>1. \A s \in SUBSET rows : s # {} => (CHOOSE x \in s : TRUE)[field] = w[First(s)]
    BY DEF First
  <2>2. QED BY <2>1 DEF IsSum, First
<1>2. QED BY <1>1 DEF MapThenSumSet, MapThenFoldSet, SumOf

LEMMA PlayedByTwo ==
  ASSUME NEW table \in Tables, NEW c
  PROVE  MapThenSumSet(LAMBDA r : r["played"], Aggregated(table, c))
           = 2 * Cardinality(GamesOf(table, c))
<1> DEFINE all == PerTeam(table, c)
           rows == Aggregated(table, c)
           played == GamesOf(table, c)
           v   == [x \in rows |-> x["played"]]
           one == [g \in played |-> 1]
           q   == [g \in played |-> 2]
<1>1. \A t \in TeamsOf(table, c) :
        v[RowOf(table, c)[t]] = SumOf(Ones(all), LinesOf(table, c, t))
  BY RowsAddUp
<1>2. \A g \in played : q[g] = Ones(all)[HomeLine(g, table[g])] + Ones(all)[AwayLine(g, table[g])]
  <2>1. \A g \in played : HomeLine(g, table[g]) \in all /\ AwayLine(g, table[g]) \in all
    BY LinesAre
  <2>2. QED BY <2>1 DEF Ones
<1>3. Summable(Ones(all), all)  BY LinesSummable
<1>4. \A g \in played : q[g] = one[g] + one[g]  OBVIOUS
<1>5. Summable(one, played) /\ IsFiniteSet(played)  BY GamesFinite DEF Summable
<1>6. \A g \in played : one[g] = IF g \in played THEN 1 ELSE 0  OBVIOUS
<1>7. MapThenSumSet(LAMBDA r : r["played"], rows) = SumOf(v, rows)  BY TotalIs
<1> HIDE DEF v, q, one
<1>8. SumOf(v, rows) = SumOf(q, played)  BY <1>1, <1>2, <1>3, Totals
<1> HIDE DEF played
<1>9. SumOf(q, played) = SumOf(one, played) + SumOf(one, played)  BY <1>4, <1>5, SumPlus
<1>10. SumOf(one, played) = Cardinality(played)
  <2>1. SumOf(one, played) = Cardinality(played \cap played)  BY <1>5, <1>6, SumCounts
  <2>2. played \cap played = played  OBVIOUS
  <2>3. QED BY <2>1, <2>2
<1>11. Cardinality(played) \in Nat  BY <1>5, FS_CardinalityType
<1>12. QED BY <1>7, <1>8, <1>9, <1>10, <1>11 DEF played

LEMMA WonByOne ==
  ASSUME NEW table \in Tables, NEW c
  PROVE  MapThenSumSet(LAMBDA r : r["wins"], Aggregated(table, c))
           = Cardinality({g \in GamesOf(table, c) : table[g].total_home # table[g].total_away})
<1> DEFINE all == PerTeam(table, c)
           rows == Aggregated(table, c)
           played == GamesOf(table, c)
           decided == {g \in played : table[g].total_home # table[g].total_away}
           v == [x \in rows |-> x["wins"]]
           q == [g \in played |-> IF g \in decided THEN 1 ELSE 0]
<1>1. \A t \in TeamsOf(table, c) :
        v[RowOf(table, c)[t]] = SumOf(Wins(all), LinesOf(table, c, t))
  BY RowsAddUp
<1>2. ASSUME NEW g \in played
      PROVE  q[g] = Wins(all)[HomeLine(g, table[g])] + Wins(all)[AwayLine(g, table[g])]
  <2>1. HomeLine(g, table[g]) \in all /\ AwayLine(g, table[g]) \in all  BY LinesAre
  <2>2. /\ Wins(all)[HomeLine(g, table[g])] = CaseWin(table[g].total_home > table[g].total_away)
        /\ Wins(all)[AwayLine(g, table[g])] = CaseWin(table[g].total_away > table[g].total_home)
    BY <2>1 DEF Wins, HomeLine, AwayLine
  <2>3. table[g].total_home \in Nat /\ table[g].total_away \in Nat  BY GamesAre
  <2>4. QED BY <2>2, <2>3 DEF CaseWin
<1>3. Summable(Wins(all), all)  BY LinesSummable
<1>4. \A g \in played : q[g] = IF g \in decided THEN 1 ELSE 0  OBVIOUS
<1>5. MapThenSumSet(LAMBDA r : r["wins"], rows) = SumOf(v, rows)  BY TotalIs
<1>6. played \cap decided = decided /\ IsFiniteSet(played)  BY GamesFinite
<1> HIDE DEF v, q, decided
<1>7. SumOf(v, rows) = SumOf(q, played)  BY <1>1, <1>2, <1>3, Totals
<1>8. SumOf(q, played) = Cardinality(played \cap decided)  BY <1>4, <1>6, SumCounts
<1>9. QED BY <1>5, <1>6, <1>7, <1>8 DEF decided

LEMMA PointsCancel ==
  ASSUME NEW table \in Tables, NEW c
  PROVE  MapThenSumSet(LAMBDA r : r["point_diff"], Aggregated(table, c)) = 0
<1> DEFINE all == PerTeam(table, c)
           rows == Aggregated(table, c)
           played == GamesOf(table, c)
           v == [x \in rows |-> x["point_diff"]]
           q == [g \in played |-> 0]
<1>1. \A t \in TeamsOf(table, c) :
        v[RowOf(table, c)[t]] = SumOf(Diffs(all), LinesOf(table, c, t))
  BY RowsAddUp
<1>2. ASSUME NEW g \in played
      PROVE  q[g] = Diffs(all)[HomeLine(g, table[g])] + Diffs(all)[AwayLine(g, table[g])]
  <2>1. HomeLine(g, table[g]) \in all /\ AwayLine(g, table[g]) \in all  BY LinesAre
  <2>2. /\ Diffs(all)[HomeLine(g, table[g])] = table[g].total_home + -table[g].total_away
        /\ Diffs(all)[AwayLine(g, table[g])] = table[g].total_away + -table[g].total_home
    BY <2>1 DEF Diffs, HomeLine, AwayLine
  <2>3. table[g].total_home \in Nat /\ table[g].total_away \in Nat  BY GamesAre
  <2>4. QED BY <2>2, <2>3
<1>3. Summable(Diffs(all), all)  BY LinesSummable
<1>4. \A g \in played : q[g] = IF g \in {} THEN 1 ELSE 0  OBVIOUS
<1>5. MapThenSumSet(LAMBDA r : r["point_diff"], rows) = SumOf(v, rows)  BY TotalIs
<1>6. IsFiniteSet(played)  BY GamesFinite
<1> HIDE DEF v, q
<1>7. SumOf(v, rows) = SumOf(q, played)  BY <1>1, <1>2, <1>3, Totals
<1>8. SumOf(q, played) = Cardinality(played \cap {})  BY <1>4, <1>6, SumCounts
<1>9. played \cap {} = {} /\ Cardinality({}) = 0  BY FS_EmptySet
<1>10. QED BY <1>5, <1>7, <1>8, <1>9

-----------------------------------------------------------------------------
(* The specification. *)

\* The table holds games of two different teams and nothing else.
PairsInv == games \in Tables

\* However games are stored, the table never holds a game of a team against itself.
THEOREM TableInvariant == Spec => []PairsInv
<1>1. Init => PairsInv
  BY DEF Init, PairsInv, Tables
<1>2. PairsInv /\ [Next]_games => PairsInv'
  <2> SUFFICES ASSUME games \in Tables, [Next]_games PROVE games' \in Tables  BY DEF PairsInv
  <2>1. ASSUME NEW g \in Games, Record(g) PROVE games' \in Tables
    <3>1. PICK row \in Game : row.home # row.away /\ games' = [games EXCEPT ![g] = row]
      BY <2>1 DEF Record
    <3>2. QED BY <3>1 DEF Tables
  <2>2. CASE UNCHANGED games  BY <2>2
  <2>3. QED BY <2>1, <2>2 DEF Next
<1>3. QED BY <1>1, <1>2, PTL DEF Spec

\* However many teams and games there are: the table and every standings have their
\* types, nobody has won more than it played, and no position is past the last row.
THEOREM TypeOKAlways == Spec => []TypeOK
<1>1. PairsInv => TypeOK
  <2> SUFFICES ASSUME games \in Tables PROVE TypeOK  BY DEF PairsInv
  <2>1. games \in [Games -> Game \cup {NoGame}]  BY DEF Tables
  <2>2. ASSUME NEW c, NEW a \in Standings(games, c)
        PROVE  a.row.losses \in Nat /\ a.position \in 1 .. Cardinality(Standings(games, c))
    <3> DEFINE rows == Aggregated(games, c)
    <3>1. PICK r \in rows : a.row = r /\ a.position = Rank(Ahead(rows), r)
      BY DEF Standings
    <3>2. IsFiniteSet(rows) /\ \A row \in rows : HasKeys(row)  BY OneRowEach, RowsHaveKeys
    <3>3. r.losses \in Nat  BY RowsHaveKeys
    <3>4. Rank(Ahead(rows), r) \in 1 .. Cardinality(rows)  BY <3>2, PlacesAreBounded
    <3>5. Cardinality(Standings(games, c)) = Cardinality(rows)  BY AnswerCounts
    <3>6. QED BY <3>1, <3>3, <3>4, <3>5
  <2>3. QED BY <2>1, <2>2 DEF TypeOK
<1>2. QED BY <1>1, TableInvariant, PTL

\* The positions of every standings follow the three keys and are numbered 1, 1, 3.
THEOREM CompetitionRankingAlways == Spec => []CompetitionRanking
<1>1. PairsInv => CompetitionRanking
  <2> SUFFICES ASSUME games \in Tables, NEW c \in Competitions
               PROVE  ProperRanking(Ahead(Aggregated(games, c)), Aggregated(games, c))
    BY DEF CompetitionRanking, PairsInv
  <2>1. /\ IsFiniteSet(Aggregated(games, c))
        /\ \A row \in Aggregated(games, c) : HasKeys(row)
    BY OneRowEach, RowsHaveKeys
  <2>2. QED BY <2>1, StandingsAreRanked
<1>2. QED BY <1>1, TableInvariant, PTL

\* The totals over a standings are those over the games it is computed from.
THEOREM BalancedAlways == Spec => []Balanced
<1>1. PairsInv => Balanced
  BY PlayedByTwo, WonByOne, PointsCancel DEF Balanced, PairsInv
<1>2. QED BY <1>1, TableInvariant, PTL

-----------------------------------------------------------------------------
(* A new result. *)

\* The row a team has, or would have without a line.
RowFor(table, c, t) == Aggregate(LinesOf(table, c, t), t)

LEMMA RowForIs ==
  ASSUME NEW table \in Tables, NEW c, NEW t
  PROVE  /\ RowFor(table, c, t).team = t /\ HasKeys(RowFor(table, c, t))
         /\ RowFor(table, c, t).wins \in Nat
         /\ t \in TeamsOf(table, c) => RowFor(table, c, t) \in Aggregated(table, c)
         /\ t \notin TeamsOf(table, c) => RowFor(table, c, t).wins = 0
<1> DEFINE own == LinesOf(table, c, t)
           row == RowFor(table, c, t)
           zeros == [x \in own |-> 0]
<1>1. own \subseteq PerTeam(table, c)  BY DEF LinesOf
<1>2. row = Aggregate(own, t)  BY DEF RowFor
<1>3. row.team = t /\ HasKeys(row) /\ row.wins = SumOf(Wins(own), own)
  <2>1. row.team = t  BY DEF RowFor, Aggregate
  <2>2. /\ HasKeys(Aggregate(own, t))
        /\ Aggregate(own, t).wins = SumOf(Wins(own), own)
    <3> HIDE DEF own
    <3>1. QED BY <1>1, RowsAre
  <2>3. QED BY <1>2, <2>1, <2>2
<1>4. row.wins \in Nat
  <2>1. IsFiniteSet(own) /\ Summable(Wins(own), own)  BY <1>1, LinesSummable
  <2>2. \A x \in own : x.win \in {0, 1}  BY <1>1, LineTypes
  <2>3. \A x \in own : zeros[x] <= Wins(own)[x]  BY <2>2 DEF Wins
  <2>4. Summable(zeros, own)  BY <2>1 DEF Summable
  <2>5. \A x \in own : zeros[x] = IF x \in {} THEN 1 ELSE 0  OBVIOUS
  <2> HIDE DEF zeros, own
  <2>6. SumOf(zeros, own) <= SumOf(Wins(own), own)  BY <2>1, <2>3, <2>4, SumLessOrEqual
  <2>7. SumOf(zeros, own) = Cardinality(own \cap {})  BY <2>1, <2>5, SumCounts
  <2>8. own \cap {} = {} /\ Cardinality({}) = 0  BY FS_EmptySet
  <2>9. SumOf(Wins(own), own) \in Int  BY <2>1, SumType
  <2>10. QED BY <1>3, <2>6, <2>7, <2>8, <2>9
<1>5. t \in TeamsOf(table, c) => row \in Aggregated(table, c)
  <2>1. t \in TeamsOf(table, c) => RowOf(table, c)[t] = row /\ RowOf(table, c)[t] \in Aggregated(table, c)
    BY OneRowEach DEF RowFor
  <2>2. QED BY <2>1
<1>6. t \notin TeamsOf(table, c) => row.wins = 0
  <2>1. t \notin TeamsOf(table, c) => own = {}  BY DEF TeamsOf, LinesOf
  <2> HIDE DEF own
  <2>2. SumOf(Wins(own), {}) = 0  BY SumEmpty
  <2>3. QED BY <1>3, <2>1, <2>2
<1>7. QED BY <1>3, <1>4, <1>5, <1>6

\* A team's row is found by its team, and its position is the rank of its row.
LEMMA PlaceIs ==
  ASSUME NEW table \in Tables, NEW c
  PROVE  /\ \A t \in TeamsOf(table, c) :
              PositionOf(Standings(table, c), t)
                = Rank(Ahead(Aggregated(table, c)), RowFor(table, c, t))
         /\ \A a \in Standings(table, c) :
              /\ a.row.team \in TeamsOf(table, c)
              /\ a.row = RowFor(table, c, a.row.team)
              /\ a.position = PositionOf(Standings(table, c), a.row.team)
<1> DEFINE rows == Aggregated(table, c)
           answer == Standings(table, c)
<1>1. ASSUME NEW a \in answer
      PROVE  /\ a.row.team \in TeamsOf(table, c) /\ a.row = RowFor(table, c, a.row.team)
             /\ a.position = Rank(Ahead(rows), a.row)
  <2>1. PICK r \in rows : a.row = r /\ a.position = Rank(Ahead(rows), r)
    BY DEF Standings
  <2>2. PICK t \in TeamsOf(table, c) : r = RowOf(table, c)[t]  BY OneRowEach
  <2>3. r = RowFor(table, c, t)  BY <2>2, OneRowEach DEF RowFor
  <2>4. r.team = t  BY <2>3, RowForIs
  <2>5. QED BY <2>1, <2>3, <2>4
<1>2. ASSUME NEW t \in TeamsOf(table, c)
      PROVE  PositionOf(answer, t) = Rank(Ahead(rows), RowFor(table, c, t))
  <2>1. RowFor(table, c, t) \in rows /\ RowFor(table, c, t).team = t  BY RowForIs
  <2>2. \E a \in answer : a.row.team = t
    <3>1. [row |-> RowFor(table, c, t), position |-> Rank(Ahead(rows), RowFor(table, c, t))]
            \in answer
      BY <2>1 DEF Standings
    <3>2. QED BY <2>1, <3>1
  <2>3. PICK a \in answer : a.row.team = t /\ PositionOf(answer, t) = a.position
    <3> HIDE DEF answer
    <3>1. QED BY <2>2 DEF PositionOf
  <2>4. QED BY <1>1, <2>3
<1>3. QED BY <1>1, <1>2

\* The teams placed before another.
AheadOf(table, c, t) ==
  {u \in TeamsOf(table, c) : SortsBefore(RowFor(table, c, u), RowFor(table, c, t))}

LEMMA PlacesCount ==
  ASSUME NEW table \in Tables, NEW c, NEW t \in TeamsOf(table, c)
  PROVE  /\ IsFiniteSet(AheadOf(table, c, t)) /\ Cardinality(AheadOf(table, c, t)) \in Nat
         /\ PositionOf(Standings(table, c), t) = 1 + Cardinality(AheadOf(table, c, t))
<1> DEFINE rows == Aggregated(table, c)
           U == AheadOf(table, c, t)
           f == [u \in U |-> RowFor(table, c, u)]
           B == Before(Ahead(rows), RowFor(table, c, t))
<1>1. IsFiniteSet(U)  BY OneRowEach, FS_Subset DEF AheadOf
<1>2. Ahead(rows) \subseteq rows \X rows  BY DEF Ahead
<1>3. \A u \in TeamsOf(table, c) : RowFor(table, c, u) \in rows /\ RowFor(table, c, u).team = u
  BY RowForIs
<1>4. \A r \in rows : \E u \in TeamsOf(table, c) : r = RowFor(table, c, u)
  BY OneRowEach DEF RowFor
<1>5. \A r : r \in B <=> r \in rows /\ SortsBefore(r, RowFor(table, c, t))
  <2>1. \A r : r \in B <=> <<r, RowFor(table, c, t)>> \in Ahead(rows)
    BY <1>2, BeforeMember
  <2>2. QED BY <1>3, <2>1 DEF Ahead
<1>6. f \in Bijection(U, B)
  <2>1. U \subseteq TeamsOf(table, c)  BY DEF AheadOf
  <2>2. \A u \in U : f[u] \in B  BY <1>3, <1>5 DEF AheadOf
  <2>3. \A u, w \in U : f[u] = f[w] => u = w
    <3>1. \A u \in U : f[u].team = u  BY <1>3, <2>1
    <3>2. QED BY <3>1
  <2>4. \A r \in B : \E u \in U : f[u] = r  BY <1>4, <1>5 DEF AheadOf
  <2>5. f \in [U -> B]  BY <2>2
  <2> HIDE DEF f, U, B
  <2>6. QED BY <2>3, <2>4, <2>5 DEF Bijection, Injection, IsInjective, Surjection
<1>7. PositionOf(Standings(table, c), t) = 1 + Cardinality(B)  BY PlaceIs DEF Rank
<1> HIDE DEF f, U, B
<1>8. Cardinality(U) \in Nat /\ Cardinality(B) = Cardinality(U)
  BY <1>1, <1>6, FS_Bijection, FS_CardinalityType DEF ExistsBijection
<1>9. QED BY <1>1, <1>7, <1>8 DEF U

LEMMA PlacesFollow ==
  ASSUME NEW table \in Tables, NEW c, NEW t \in TeamsOf(table, c), NEW u \in TeamsOf(table, c)
  PROVE  PositionOf(Standings(table, c), t) < PositionOf(Standings(table, c), u)
           <=> SortsBefore(RowFor(table, c, t), RowFor(table, c, u))
<1> DEFINE rows == Aggregated(table, c)
<1>1. RowFor(table, c, t) \in rows /\ RowFor(table, c, u) \in rows  BY RowForIs
<1>2. IsFiniteSet(rows) /\ \A row \in rows : HasKeys(row)  BY OneRowEach, RowsHaveKeys
<1>3. FollowsOrder(Ahead(rows), rows)  BY <1>2, StandingsAreRanked DEF ProperRanking
<1>4. Rank(Ahead(rows), RowFor(table, c, t)) < Rank(Ahead(rows), RowFor(table, c, u))
        <=> SortsBefore(RowFor(table, c, t), RowFor(table, c, u))
  BY <1>1, <1>3 DEF FollowsOrder, Ahead
<1>5. QED BY <1>4, PlaceIs

\* What Record does to the table.
Recorded(table, next, g) ==
  /\ g \in Games /\ table[g] = NoGame /\ next[g] # NoGame
  /\ \A h \in Games : h # g => next[h] = table[h]

LEMMA OtherCompetitions ==
  ASSUME NEW table, NEW next, NEW g, Recorded(table, next, g),
         NEW c, next[g].competition # c
  PROVE  Standings(next, c) = Standings(table, c)
<1>1. GamesOf(next, c) = GamesOf(table, c)  BY DEF Recorded, GamesOf
<1>2. \A h \in GamesOf(table, c) : next[h] = table[h]  BY DEF Recorded, GamesOf
<1>3. \A line : line \in PerTeam(next, c) <=> line \in PerTeam(table, c)
  BY <1>1, <1>2 DEF PerTeam
<1>4. PerTeam(next, c) = PerTeam(table, c)  BY <1>3
<1>5. QED BY <1>4 DEF Standings, Aggregated

LEMMA TwoLinesMore ==
  ASSUME NEW table \in Tables, NEW next \in Tables, NEW g, Recorded(table, next, g),
         NEW c, next[g].competition = c
  PROVE  LET home == HomeLine(g, next[g])
             away == AwayLine(g, next[g])
         IN  /\ PerTeam(next, c) = PerTeam(table, c) \cup {home, away}
             /\ home \notin PerTeam(table, c) /\ away \notin PerTeam(table, c)
<1> DEFINE home == HomeLine(g, next[g])
           away == AwayLine(g, next[g])
<1>1. GamesOf(next, c) = GamesOf(table, c) \cup {g} /\ g \notin GamesOf(table, c)
  BY DEF Recorded, GamesOf
<1>2. \A h \in GamesOf(table, c) : next[h] = table[h]  BY DEF Recorded, GamesOf
<1>3. \A line : line \in PerTeam(next, c) <=> line \in PerTeam(table, c) \cup {home, away}
  BY <1>1, <1>2 DEF PerTeam
<1>4. home.game = g /\ away.game = g  BY DEF HomeLine, AwayLine
<1>5. \A line \in PerTeam(table, c) : line.game \in GamesOf(table, c)  BY LineTypes
<1> HIDE DEF home, away
<1>6. PerTeam(next, c) = PerTeam(table, c) \cup {home, away}  BY <1>3
<1>7. home \notin PerTeam(table, c) /\ away \notin PerTeam(table, c)  BY <1>1, <1>4, <1>5
<1>8. QED BY <1>6, <1>7 DEF home, away

\* The teams and lines after a result.
LEMMA LinesAfter ==
  ASSUME NEW table \in Tables, NEW next \in Tables, NEW g, Recorded(table, next, g),
         NEW c, next[g].competition = c
  PROVE  /\ TeamsOf(next, c) = TeamsOf(table, c) \cup {next[g].home, next[g].away}
         /\ \A t : t \notin {next[g].home, next[g].away} =>
              LinesOf(next, c, t) = LinesOf(table, c, t)
         /\ LinesOf(next, c, next[g].home)
              = LinesOf(table, c, next[g].home) \cup {HomeLine(g, next[g])}
         /\ LinesOf(next, c, next[g].away)
              = LinesOf(table, c, next[g].away) \cup {AwayLine(g, next[g])}
<1> DEFINE home == HomeLine(g, next[g])
           away == AwayLine(g, next[g])
<1>1. PerTeam(next, c) = PerTeam(table, c) \cup {home, away}  BY TwoLinesMore
<1>2. home.team = next[g].home /\ away.team = next[g].away  BY DEF HomeLine, AwayLine
<1>3. next[g].home # next[g].away  BY DEF Recorded, Tables
<1> HIDE DEF home, away
<1>4. TeamsOf(next, c) = TeamsOf(table, c) \cup {next[g].home, next[g].away}
  BY <1>1, <1>2 DEF TeamsOf
<1>5. \A t : t \notin {next[g].home, next[g].away} => LinesOf(next, c, t) = LinesOf(table, c, t)
  BY <1>1, <1>2 DEF LinesOf
<1>6. LinesOf(next, c, next[g].home) = LinesOf(table, c, next[g].home) \cup {home}
  BY <1>1, <1>2, <1>3 DEF LinesOf
<1>7. LinesOf(next, c, next[g].away) = LinesOf(table, c, next[g].away) \cup {away}
  BY <1>1, <1>2, <1>3 DEF LinesOf
<1>8. QED BY <1>4, <1>5, <1>6, <1>7 DEF home, away

\* A line more adds what it says to the row.
LEMMA LineAdds ==
  ASSUME NEW next \in Tables, NEW c, NEW lines, lines \subseteq PerTeam(next, c),
         NEW line \in PerTeam(next, c), line \notin lines, NEW t
  PROVE  LET old == Aggregate(lines, t)
             new == Aggregate(lines \cup {line}, t)
         IN  /\ new.wins = old.wins + line.win
             /\ new.point_diff = old.point_diff + line.points_for - line.points_against
<1> DEFINE more == lines \cup {line}
<1>1. more \subseteq PerTeam(next, c) /\ line \in more /\ more \ {line} = lines  OBVIOUS
<1> HIDE DEF more
<1>2. /\ IsFiniteSet(lines) /\ Summable(Wins(more), more) /\ Summable(Diffs(more), more)
  BY <1>1, LinesSummable
<1>3. /\ SumOf(Wins(more), more) = Wins(more)[line] + SumOf(Wins(more), lines)
      /\ SumOf(Diffs(more), more) = Diffs(more)[line] + SumOf(Diffs(more), lines)
  BY <1>1, <1>2, SumRemove
<1>4. /\ \A x \in lines : Wins(more)[x] = Wins(lines)[x]
      /\ \A x \in lines : Diffs(more)[x] = Diffs(lines)[x]
  BY <1>1 DEF Wins, Diffs
<1>5. /\ SumOf(Wins(more), lines) = SumOf(Wins(lines), lines)
      /\ SumOf(Diffs(more), lines) = SumOf(Diffs(lines), lines)
  BY <1>2, <1>4, SumEqual
<1>6. /\ Aggregate(lines, t).wins = SumOf(Wins(lines), lines)
      /\ Aggregate(lines, t).point_diff = SumOf(Diffs(lines), lines)
      /\ HasKeys(Aggregate(lines, t))
  BY RowsAre
<1>7. /\ Aggregate(more, t).wins = SumOf(Wins(more), more)
      /\ Aggregate(more, t).point_diff = SumOf(Diffs(more), more)
  BY <1>1, RowsAre
<1>8. /\ Wins(more)[line] = line.win
      /\ Diffs(more)[line] = line.points_for + -line.points_against
  BY <1>1 DEF Wins, Diffs
<1>9. line.win \in Int /\ line.points_for \in Int /\ line.points_against \in Int  BY LineTypes
<1>10. /\ Aggregate(more, t).wins = Aggregate(lines, t).wins + line.win
       /\ Aggregate(more, t).point_diff
            = Aggregate(lines, t).point_diff + line.points_for - line.points_against
  BY <1>3, <1>5, <1>6, <1>7, <1>8, <1>9 DEF HasKeys
<1>11. QED BY <1>10 DEF more

\* What a decided game changes: w has beaten l.
Beaten(table, next, c, w, l) ==
  /\ TeamsOf(next, c) = TeamsOf(table, c) \cup {w, l}
  /\ \A u : u \notin {w, l} => RowFor(next, c, u) = RowFor(table, c, u)
  /\ RowFor(next, c, w).wins = RowFor(table, c, w).wins + 1
  /\ RowFor(next, c, l).wins = RowFor(table, c, l).wins
  /\ RowFor(next, c, l).point_diff < RowFor(table, c, l).point_diff

LEMMA ResultIs ==
  ASSUME NEW table \in Tables, NEW next \in Tables, NEW g, Recorded(table, next, g),
         NEW c, next[g].competition = c
  PROVE  LET home == next[g].home
             away == next[g].away
         IN  /\ TeamsOf(next, c) = TeamsOf(table, c) \cup {home, away}
             /\ \A u : u \notin {home, away} => RowFor(next, c, u) = RowFor(table, c, u)
             /\ next[g].total_home > next[g].total_away => Beaten(table, next, c, home, away)
             /\ next[g].total_home < next[g].total_away => Beaten(table, next, c, away, home)
<1> DEFINE home == next[g].home
           away == next[g].away
           hl == HomeLine(g, next[g])
           al == AwayLine(g, next[g])
<1>1. /\ TeamsOf(next, c) = TeamsOf(table, c) \cup {home, away}
      /\ \A u : u \notin {home, away} => RowFor(next, c, u) = RowFor(table, c, u)
  BY LinesAfter DEF RowFor
<1>2. PerTeam(next, c) = PerTeam(table, c) \cup {hl, al}
      /\ hl \notin PerTeam(table, c) /\ al \notin PerTeam(table, c)
  BY TwoLinesMore
<1>3. \A t : /\ LinesOf(table, c, t) \subseteq PerTeam(next, c)
             /\ hl \notin LinesOf(table, c, t) /\ al \notin LinesOf(table, c, t)
  BY <1>2 DEF LinesOf
<1>4. next[g].total_home \in Nat /\ next[g].total_away \in Nat
  <2>1. g \in GamesOf(next, c)  BY DEF Recorded, GamesOf
  <2>2. QED BY <2>1, GamesAre
<1>5. /\ hl.win = CaseWin(next[g].total_home > next[g].total_away)
      /\ al.win = CaseWin(next[g].total_away > next[g].total_home)
      /\ hl.points_for = next[g].total_home /\ hl.points_against = next[g].total_away
      /\ al.points_for = next[g].total_away /\ al.points_against = next[g].total_home
  BY DEF HomeLine, AwayLine
<1>6. /\ HasKeys(RowFor(table, c, home)) /\ HasKeys(RowFor(table, c, away))
  BY RowForIs
<1> DEFINE old(t) == RowFor(table, c, t)
           new(t) == RowFor(next, c, t)
<1> HIDE DEF hl, al
<1>7. new(home).wins = old(home).wins + hl.win
      /\ new(home).point_diff = old(home).point_diff + hl.points_for - hl.points_against
  <2>1. LinesOf(next, c, home) = LinesOf(table, c, home) \cup {hl}  BY LinesAfter DEF hl
  <2>2. hl \in PerTeam(next, c)  BY <1>2
  <2>3. QED BY <1>3, <2>1, <2>2, LineAdds DEF RowFor
<1>8. new(away).wins = old(away).wins + al.win
      /\ new(away).point_diff = old(away).point_diff + al.points_for - al.points_against
  <2>1. LinesOf(next, c, away) = LinesOf(table, c, away) \cup {al}  BY LinesAfter DEF al
  <2>2. al \in PerTeam(next, c)  BY <1>2
  <2>3. QED BY <1>3, <2>1, <2>2, LineAdds DEF RowFor
<1> HIDE DEF old, new
<1>9. ASSUME next[g].total_home > next[g].total_away
      PROVE  /\ new(home).wins = old(home).wins + 1 /\ new(away).wins = old(away).wins
             /\ new(away).point_diff < old(away).point_diff
  BY <1>4, <1>5, <1>6, <1>7, <1>8, <1>9 DEF CaseWin, HasKeys, old
<1>10. ASSUME next[g].total_home < next[g].total_away
       PROVE  /\ new(away).wins = old(away).wins + 1 /\ new(home).wins = old(home).wins
              /\ new(home).point_diff < old(home).point_diff
  BY <1>4, <1>5, <1>6, <1>7, <1>8, <1>10 DEF CaseWin, HasKeys, old
<1>11. QED BY <1>1, <1>9, <1>10 DEF Beaten, old, new

LEMMA WinnerUp ==
  ASSUME NEW table \in Tables, NEW next \in Tables, NEW c, NEW w, NEW l,
         Beaten(table, next, c, w, l), w \in TeamsOf(table, c)
  PROVE  PositionOf(Standings(next, c), w) <= PositionOf(Standings(table, c), w)
<1>1. ASSUME NEW u \in AheadOf(next, c, w) PROVE u \in AheadOf(table, c, w)
  <2>1. u \in TeamsOf(next, c) /\ SortsBefore(RowFor(next, c, u), RowFor(next, c, w))
    BY DEF AheadOf
  <2>2. /\ HasKeys(RowFor(table, c, u)) /\ HasKeys(RowFor(table, c, w))
        /\ HasKeys(RowFor(next, c, u)) /\ HasKeys(RowFor(next, c, w))
        /\ RowFor(table, c, w).wins \in Nat
        /\ u \notin TeamsOf(table, c) => RowFor(table, c, u).wins = 0
    BY RowForIs
  <2>3. u # w  BY <2>1, <2>2 DEF SortsBefore, HasKeys
  <2>4. RowFor(next, c, u).wins = RowFor(table, c, u).wins  BY <2>3 DEF Beaten
  <2>5. RowFor(table, c, u).wins > RowFor(table, c, w).wins
    BY <2>1, <2>2, <2>4 DEF Beaten, SortsBefore, HasKeys
  <2>6. u \in TeamsOf(table, c)  BY <2>2, <2>5
  <2>7. QED BY <2>5, <2>6 DEF AheadOf, SortsBefore
<1>2. AheadOf(next, c, w) \subseteq AheadOf(table, c, w)  BY <1>1
<1>3. w \in TeamsOf(next, c)  BY DEF Beaten
<1>4. /\ IsFiniteSet(AheadOf(table, c, w)) /\ Cardinality(AheadOf(table, c, w)) \in Nat
      /\ Cardinality(AheadOf(next, c, w)) \in Nat
  BY <1>3, PlacesCount
<1>5. Cardinality(AheadOf(next, c, w)) <= Cardinality(AheadOf(table, c, w))
  BY <1>2, <1>4, FS_Subset
<1>6. /\ PositionOf(Standings(table, c), w) = 1 + Cardinality(AheadOf(table, c, w))
      /\ PositionOf(Standings(next, c), w) = 1 + Cardinality(AheadOf(next, c, w))
  BY <1>3, PlacesCount
<1>7. QED BY <1>4, <1>5, <1>6

LEMMA LoserDown ==
  ASSUME NEW table \in Tables, NEW next \in Tables, NEW c, NEW w, NEW l,
         Beaten(table, next, c, w, l), l \in TeamsOf(table, c)
  PROVE  PositionOf(Standings(next, c), l) >= PositionOf(Standings(table, c), l)
<1>1. ASSUME NEW u \in AheadOf(table, c, l) PROVE u \in AheadOf(next, c, l)
  <2>1. u \in TeamsOf(table, c) /\ SortsBefore(RowFor(table, c, u), RowFor(table, c, l))
    BY DEF AheadOf
  <2>2. /\ HasKeys(RowFor(table, c, u)) /\ HasKeys(RowFor(table, c, l))
        /\ HasKeys(RowFor(next, c, u)) /\ HasKeys(RowFor(next, c, l))
    BY RowForIs
  <2>3. u # l  BY <2>1, <2>2 DEF SortsBefore, HasKeys
  <2>4. u = w \/ RowFor(next, c, u) = RowFor(table, c, u)  BY <2>3 DEF Beaten
  <2>5. SortsBefore(RowFor(next, c, u), RowFor(next, c, l))
    BY <2>1, <2>2, <2>4 DEF Beaten, SortsBefore, HasKeys
  <2>6. u \in TeamsOf(next, c)  BY <2>1 DEF Beaten
  <2>7. QED BY <2>5, <2>6 DEF AheadOf
<1>2. AheadOf(table, c, l) \subseteq AheadOf(next, c, l)  BY <1>1
<1>3. l \in TeamsOf(next, c)  BY DEF Beaten
<1>4. /\ IsFiniteSet(AheadOf(next, c, l)) /\ Cardinality(AheadOf(table, c, l)) \in Nat
      /\ Cardinality(AheadOf(next, c, l)) \in Nat
  BY <1>3, PlacesCount
<1>5. Cardinality(AheadOf(table, c, l)) <= Cardinality(AheadOf(next, c, l))
  BY <1>2, <1>4, FS_Subset
<1>6. /\ PositionOf(Standings(table, c), l) = 1 + Cardinality(AheadOf(table, c, l))
      /\ PositionOf(Standings(next, c), l) = 1 + Cardinality(AheadOf(next, c, l))
  BY <1>3, PlacesCount
<1>7. QED BY <1>4, <1>5, <1>6

\* Teams that did not play the game keep their order.
LEMMA OthersKeep ==
  ASSUME NEW table \in Tables, NEW next \in Tables, NEW g, Recorded(table, next, g),
         NEW c, next[g].competition = c,
         NEW a \in Standings(table, c), NEW b \in Standings(table, c),
         {a.row.team, b.row.team} \cap {next[g].home, next[g].away} = {}
  PROVE  a.position < b.position
           <=> PositionOf(Standings(next, c), a.row.team)
                 < PositionOf(Standings(next, c), b.row.team)
<1> DEFINE t == a.row.team
           u == b.row.team
<1>1. /\ t \in TeamsOf(table, c) /\ a.position = PositionOf(Standings(table, c), t)
      /\ u \in TeamsOf(table, c) /\ b.position = PositionOf(Standings(table, c), u)
  BY PlaceIs
<1>2. t \notin {next[g].home, next[g].away} /\ u \notin {next[g].home, next[g].away}
  OBVIOUS
<1> HIDE DEF t, u
<1>3. /\ t \in TeamsOf(next, c) /\ u \in TeamsOf(next, c)
      /\ RowFor(next, c, t) = RowFor(table, c, t) /\ RowFor(next, c, u) = RowFor(table, c, u)
  BY <1>1, <1>2, ResultIs
<1>4. PositionOf(Standings(table, c), t) < PositionOf(Standings(table, c), u)
        <=> SortsBefore(RowFor(table, c, t), RowFor(table, c, u))
  BY <1>1, PlacesFollow
<1>5. PositionOf(Standings(next, c), t) < PositionOf(Standings(next, c), u)
        <=> SortsBefore(RowFor(next, c, t), RowFor(next, c, u))
  BY <1>3, PlacesFollow
<1>6. QED BY <1>1, <1>3, <1>4, <1>5 DEF t, u

LEMMA ResultIsPlaced ==
  ASSUME PairsInv, PairsInv', NEW g \in Games, NEW c \in Competitions,
         Recorded(games, games', g), games'[g].competition = c
  PROVE  ResultPlaces(Standings(games, c), Standings(games', c), g)
<1> DEFINE before == Standings(games, c)
           after == Standings(games', c)
           home == games'[g].home
           away == games'[g].away
           Up(t)   == PositionOf(after, t) <= PositionOf(before, t)
           Down(t) == PositionOf(after, t) >= PositionOf(before, t)
           In(t)   == \E a \in before : a.row.team = t
<1>1. games \in Tables /\ games' \in Tables
  <2>1. games \in Tables  BY DEF PairsInv
  <2>2. games' \in Tables  BY DEF PairsInv, Tables, Game
  <2>3. QED BY <2>1, <2>2
<1>2. \A t : In(t) => t \in TeamsOf(games, c)  BY <1>1, PlaceIs
<1>3. ASSUME games'[g].total_home > games'[g].total_away
      PROVE  (In(home) => Up(home)) /\ (In(away) => Down(away))
  <2>1. Beaten(games, games', c, home, away)  BY <1>1, <1>3, ResultIs
  <2>2. home \in TeamsOf(games, c) => Up(home)  BY <1>1, <2>1, WinnerUp
  <2>3. away \in TeamsOf(games, c) => Down(away)  BY <1>1, <2>1, LoserDown
  <2>4. QED BY <1>2, <2>2, <2>3
<1>4. ASSUME games'[g].total_home < games'[g].total_away
      PROVE  (In(away) => Up(away)) /\ (In(home) => Down(home))
  <2>1. Beaten(games, games', c, away, home)  BY <1>1, <1>4, ResultIs
  <2>2. away \in TeamsOf(games, c) => Up(away)  BY <1>1, <2>1, WinnerUp
  <2>3. home \in TeamsOf(games, c) => Down(home)  BY <1>1, <2>1, LoserDown
  <2>4. QED BY <1>2, <2>2, <2>3
<1>5. \A a, b \in before :
        {a.row.team, b.row.team} \cap {home, away} = {} =>
          (a.position < b.position
             <=> PositionOf(after, a.row.team) < PositionOf(after, b.row.team))
  BY <1>1, OthersKeep
<1>6. QED BY <1>3, <1>4, <1>5 DEF ResultPlaces

\* No result places its winner worse or its loser better, none changes the order of
\* the other teams, and none changes another competition.
THEOREM ResultMovesItsTeamsAlways == Spec => ResultMovesItsTeams
<1>1. ASSUME PairsInv, PairsInv', Next, NEW g \in Games, NEW c \in Competitions,
             games[g] = NoGame, games'[g] # NoGame
      PROVE  \A before \in {Standings(games, c)}, after \in {Standings(games', c)} :
               IF games'[g].competition = c THEN ResultPlaces(before, after, g)
                                            ELSE after = before
  <2>1. Recorded(games, games', g)
    <3>1. PICK h \in Games : Record(h)  BY <1>1 DEF Next
    <3>2. PICK row \in Game : games' = [games EXCEPT ![h] = row]  BY <3>1 DEF Record
    <3>3. games \in [Games -> Game \cup {NoGame}]  BY <1>1 DEF PairsInv, Tables
    <3>4. h = g  BY <1>1, <3>2, <3>3
    <3>5. QED BY <1>1, <3>2, <3>3, <3>4 DEF Recorded
  <2>2. CASE games'[g].competition = c
    BY <1>1, <2>1, <2>2, ResultIsPlaced
  <2>3. CASE games'[g].competition # c
    BY <2>1, <2>3, OtherCompetitions
  <2>4. QED BY <2>2, <2>3
<1>2. PairsInv /\ PairsInv' /\ [Next]_games =>
        [\A g \in Games, c \in Competitions :
           games[g] = NoGame /\ games'[g] # NoGame =>
             \A before \in {Standings(games, c)}, after \in {Standings(games', c)} :
               IF games'[g].competition = c THEN ResultPlaces(before, after, g)
                                            ELSE after = before]_games
  BY <1>1
<1>3. QED BY <1>2, TableInvariant, PTL DEF Spec, ResultMovesItsTeams
=============================================================================
