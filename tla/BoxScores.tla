----------------------------- MODULE BoxScores -----------------------------
(***************************************************************************)
(* What the API computes from the table box_scores: the generated columns  *)
(* reb and val, the leaderboards of a competition and the season stats of  *)
(* a player.  Box scores enter the table one by one.                       *)
(***************************************************************************)
EXTENDS Ranking, FiniteSetsExt

CONSTANTS
  Players, Games,
  competition_id,   \* of each game
  season_id,        \* of each competition
  Acts,             \* the contents a box score may have
  NoStats

BoxColumns ==
  {"pts", "plus_minus", "fg2m", "fg2a", "fg3m", "fg3a", "ftm", "fta", "reb_of", "reb_def",
   "ast", "rec", "tap", "per", "fc", "fouls_drawn", "blocks_received"}

BoxScoresAssumption ==
  /\ IsFiniteSet(Games)
  /\ Acts \subseteq [BoxColumns -> Int]
  /\ NoStats \notin [games_played : Int, pts_total : Int, reb_total : Int, ast_total : Int,
                     val_total : Int]
ASSUME BoxScoresAssumption

Competitions == {competition_id[g] : g \in Games}
Seasons      == {season_id[c] : c \in Competitions}

VARIABLE box_scores

-----------------------------------------------------------------------------
(* Columns of a box score. *)

reb(b) == b.reb_of + b.reb_def

val(b) ==
  b.pts + (b.reb_of + b.reb_def) + b.ast + b.rec + b.tap + b.fouls_drawn
    - (b.fg2a - b.fg2m) - (b.fg3a - b.fg3m) - (b.fta - b.ftm)
    - b.per - b.fc - b.blocks_received

Stats == {"val", "pts", "reb", "ast", "rec", "tap", "plus_minus"}

Column(b, stat) == CASE stat = "val" -> val(b) [] stat = "reb" -> reb(b) [] OTHER -> b[stat]

Total(lines, stat) == MapThenSumSet(LAMBDA line : Column(line.act, stat), lines)

-----------------------------------------------------------------------------
(* The leaderboard query.  An average is kept as a total and a count. *)

LinesOf(table, c) == {line \in table : competition_id[line.game] = c}

Aggregate(lines, p, stat) ==
  [player |-> p, games_played |-> Cardinality(lines), total |-> Total(lines, stat)]

\* Variant: a window over the box scores of a player in one game only.
PerPlayerAndGame(table, c, stat) ==
  {Aggregate({line}, line.player, stat) : line \in LinesOf(table, c)}

\* Variant: without WHERE the averages are over all competitions.
PerPlayerAnywhere(table, c, stat) ==
  {Aggregate({l \in table : l.player = p}, p, stat) : p \in {line.player : line \in LinesOf(table, c)}}

\* per_player: the window functions average over all games of a player in the
\* competition, and DISTINCT leaves one row of them.
PerPlayer(table, c, stat) ==
  {Aggregate({l \in LinesOf(table, c) : l.player = p}, p, stat) :
     p \in {line.player : line \in LinesOf(table, c)}}

\* ORDER BY avg_stat DESC
ByAverage(rows) ==
  {pair \in rows \X rows :
     pair[1].total * pair[2].games_played > pair[2].total * pair[1].games_played}

Leaderboard(table, c, stat) ==
  LET rows  == PerPlayer(table, c, stat)
      ahead == ByAverage(rows)
  IN {[row |-> r, position |-> Rank(ahead, r)] : r \in rows}

-----------------------------------------------------------------------------
(* The season stats query: it has no condition on the season. *)

\* Variant: what it would be with one.
SeasonLines(table, p, s) ==
  {line \in table : line.player = p /\ season_id[competition_id[line.game]] = s}

PlayerLines(table, p, s) == {line \in table : line.player = p}

SeasonStats(table, p, s) ==
  LET lines == PlayerLines(table, p, s) IN
    IF lines = {} THEN NoStats
    ELSE [games_played |-> Cardinality(lines), pts_total |-> Total(lines, "pts"),
          reb_total |-> Total(lines, "reb"), ast_total |-> Total(lines, "ast"),
          val_total |-> Total(lines, "val")]

-----------------------------------------------------------------------------
ScoresInit == box_scores = {}

\* The primary key is game and player.
Enter(g, p) ==
  /\ \A line \in box_scores : line.game # g \/ line.player # p
  /\ \E act \in Acts : box_scores' = box_scores \cup {[game |-> g, player |-> p, act |-> act]}

ScoresNext == \E g \in Games, p \in Players : Enter(g, p)

ScoresSpec == ScoresInit /\ [][ScoresNext]_box_scores

-----------------------------------------------------------------------------
(* Properties. *)

\* Whoever has played in a competition is on its leaderboard, once, below exactly
\* those with a better average.
OnePlaceEach ==
  \A c \in Competitions : \A stat \in {"val", "plus_minus"} :
    \A rows \in {PerPlayer(box_scores, c, stat)} :
      /\ \A line \in LinesOf(box_scores, c) :
           Cardinality({r \in rows : r.player = line.player}) = 1
      /\ ProperRanking(ByAverage(rows), rows)

\* A player's rows on a leaderboard, and what they say of the player.
RowsOn(table, c, stat, p) == {r \in PerPlayer(table, c, stat) : r.player = p}
TotalOn(table, c, stat, p) == MapThenSumSet(LAMBDA r : r.total, RowsOn(table, c, stat, p))
GamesOn(table, c, p) == MapThenSumSet(LAMBDA r : r.games_played, RowsOn(table, c, "pts", p))

CompetitionsOf(s) == {c \in Competitions : season_id[c] = s}

PlaysOnlyIn(p, s) ==
  \A line \in box_scores : line.player = p => competition_id[line.game] \in CompetitionsOf(s)

\* The two aggregations of the same box scores agree: what a season's leaderboards say
\* of a player adds up to the player's stats of the season.  Of a player who has played
\* in another season, too, nothing is said here; StatsOfTheSeason is about those.
LeaderboardsAddUp ==
  \A p \in Players, s \in Seasons :
    PlaysOnlyIn(p, s) =>
      LET stats == SeasonStats(box_scores, p, s)
          sum(stat) == MapThenSumSet(LAMBDA c : TotalOn(box_scores, c, stat, p), CompetitionsOf(s))
          games == MapThenSumSet(LAMBDA c : GamesOn(box_scores, c, p), CompetitionsOf(s))
      IN IF stats = NoStats THEN games = 0
         ELSE /\ stats.games_played = games
              /\ stats.pts_total = sum("pts") /\ stats.val_total = sum("val")

\* api/v1/players.py:47 documents 404 for a player without box scores in the
\* season asked for.
StatsOfTheSeason ==
  \A p \in Players, s \in Seasons :
    SeasonLines(box_scores, p, s) = {} => SeasonStats(box_scores, p, s) = NoStats
=============================================================================
