----------------------------- MODULE Standings -----------------------------
(***************************************************************************)
(* The standings of a competition: repositories/standings.py computes them *)
(* from the table games with one SELECT, and nothing is stored.  The state *)
(* is that table.  Games enter it one by one, complete with their scores   *)
(* or with the default totals of 0, as a game does that is yet to be       *)
(* played; the loader writes one and imports will write more.              *)
(***************************************************************************)
EXTENDS Ranking, FiniteSetsExt

CONSTANTS Teams, Games, Competitions, Scores, NoGame

ScoresAssumption == Scores \subseteq Nat /\ IsFiniteSet(Games)
ASSUME ScoresAssumption

VARIABLE games

Game == [competition : Competitions, home : Teams, away : Teams,
         total_home : Scores, total_away : Scores]

\* WHERE competition_id = :competition_id
GamesOf(table, c) == {g \in Games : table[g] # NoGame /\ table[g].competition = c}

-----------------------------------------------------------------------------
(* The query, on the contents of the table games. *)

CaseWin(won) == IF won THEN 1 ELSE 0

HomeLine(g, row) ==
  [game |-> g, team |-> row.home, win |-> CaseWin(row.total_home > row.total_away),
   points_for |-> row.total_home, points_against |-> row.total_away]

\* Variant: the CASE of the first SELECT, pasted unchanged into the second.
AwayLinePasted(g, row) ==
  [game |-> g, team |-> row.away, win |-> CaseWin(row.total_home > row.total_away),
   points_for |-> row.total_away, points_against |-> row.total_home]

AwayLine(g, row) ==
  [game |-> g, team |-> row.away, win |-> CaseWin(row.total_away > row.total_home),
   points_for |-> row.total_away, points_against |-> row.total_home]

\* Variant: UNION instead of UNION ALL, which drops equal lines.
PerTeamUnion(table, c) ==
  {[line EXCEPT !.game = NoGame] :
     line \in UNION {{HomeLine(g, table[g]), AwayLine(g, table[g])} : g \in GamesOf(table, c)}}

\* per_team: two lines for each game.  UNION ALL keeps lines that are equal,
\* so a line carries its game.
PerTeam(table, c) ==
  UNION {{HomeLine(g, table[g]), AwayLine(g, table[g])} : g \in GamesOf(table, c)}

Aggregate(lines, t) ==
  LET played == Cardinality(lines)
      wins   == MapThenSumSet(LAMBDA line : line.win, lines)
      scored == MapThenSumSet(LAMBDA line : line.points_for, lines)
      taken  == MapThenSumSet(LAMBDA line : line.points_against, lines)
  IN [team |-> t, played |-> played, wins |-> wins, losses |-> played - wins,
      points_for |-> scored, points_against |-> taken, point_diff |-> scored - taken]

\* aggregated: GROUP BY yields a row for a team with a line, and for no other.
Aggregated(table, c) ==
  LET per_team == PerTeam(table, c)
  IN {Aggregate({line \in per_team : line.team = t}, t) : t \in {line.team : line \in per_team}}

\* ORDER BY wins DESC, point_diff DESC, points_for DESC
SortsBefore(a, b) ==
  \/ a.wins > b.wins
  \/ a.wins = b.wins /\ a.point_diff > b.point_diff
  \/ a.wins = b.wins /\ a.point_diff = b.point_diff /\ a.points_for > b.points_for

\* The pairs of rows the ORDER BY tells apart.
Ahead(rows) == {p \in rows \X rows : SortsBefore(p[1], p[2])}

\* The answer: each row with its position.
Standings(table, c) ==
  LET rows  == Aggregated(table, c)
      ahead == Ahead(rows)
  IN {[row |-> r, position |-> Rank(ahead, r)] : r \in rows}

-----------------------------------------------------------------------------
Init == games = [g \in Games |-> NoGame]

Record(g) ==
  /\ games[g] = NoGame
  /\ \E row \in Game :
       /\ row.home # row.away
       /\ games' = [games EXCEPT ![g] = row]

Next == \E g \in Games : Record(g)

Spec == Init /\ [][Next]_games

-----------------------------------------------------------------------------
(* Properties. *)

\* The table has its type, and so has every standings: nobody has won more than
\* it played, and the positions are among 1 .. number of rows.
TypeOK ==
  /\ games \in [Games -> Game \cup {NoGame}]
  /\ \A c \in Competitions :
       LET answer == Standings(games, c)
       IN \A a \in answer : a.row.losses \in Nat /\ a.position \in 1 .. Cardinality(answer)

\* The books balance, however many games a team has at home and away and however
\* equal their scores: every game is played by two, every decided game is won by
\* one, a point for someone is a point against someone (the SUMs over per_team).
\* tests/integration/test_standings_rank.py:22 asserts it for one game.
Balanced ==
  \A c \in Competitions :
    LET rows         == Aggregated(games, c)
        Total(field) == MapThenSumSet(LAMBDA r : r[field], rows)
        decided      == {g \in GamesOf(games, c) : games[g].total_home # games[g].total_away}
    IN /\ Total("played") = 2 * Cardinality(GamesOf(games, c))
       /\ Total("wins") = Cardinality(decided)
       /\ Total("point_diff") = 0

\* Positions follow the keys and number as ADR-0004 says, 1, 1, 3.
CompetitionRanking ==
  \A c \in Competitions :
    LET rows == Aggregated(games, c) IN ProperRanking(Ahead(rows), rows)

PositionOf(answer, t) == (CHOOSE a \in answer : a.row.team = t).position

ResultPlaces(before, after, g) ==
  LET home == games'[g].home
      away == games'[g].away
      won  == games'[g].total_home > games'[g].total_away
      lost == games'[g].total_home < games'[g].total_away
      Up(t)   == PositionOf(after, t) <= PositionOf(before, t)
      Down(t) == PositionOf(after, t) >= PositionOf(before, t)
      In(t)   == \E a \in before : a.row.team = t
  IN /\ won  => (In(home) => Up(home)) /\ (In(away) => Down(away))
     /\ lost => (In(away) => Up(away)) /\ (In(home) => Down(home))
     /\ \A a, b \in before :
          {a.row.team, b.row.team} \cap {home, away} = {} =>
            (a.position < b.position
               <=> PositionOf(after, a.row.team) < PositionOf(after, b.row.team))

\* A new result never places its winner worse or its loser better, leaves the
\* other teams in the order they had, and changes no other competition at all.
ResultMovesItsTeams ==
  [][\A g \in Games, c \in Competitions :
       games[g] = NoGame /\ games'[g] # NoGame =>
         \A before \in {Standings(games, c)}, after \in {Standings(games', c)} :
           IF games'[g].competition = c THEN ResultPlaces(before, after, g)
                                        ELSE after = before]_games

\* README.md:62 orders the standings by wins and point difference only.
ReadmeRanking ==
  \A c \in Competitions : \A a, b \in Standings(games, c) :
    a.row.wins = b.row.wins /\ a.row.point_diff = b.row.point_diff
      => a.position = b.position
=============================================================================
