----------------------------- MODULE TeamDetail -----------------------------
(***************************************************************************)
(* The calendar of a team (repositories/teams.py): its recent games, then  *)
(* its upcoming ones, each query with a date of its own.  Midnight may     *)
(* fall between the two.                                                   *)
(***************************************************************************)
EXTENDS PageWalk

CONSTANTS
  Calendars,    \* sets of games: [game, home, away, game_date]
  team_id,      \* the team asked for
  LastDay,      \* bound on the days that pass
  DetailLimit   \* of each list

DetailAssumption ==
  /\ LastDay \in Nat /\ DetailLimit \in Nat
  /\ \A games \in Calendars : IsFiniteSet(games) /\ \A g \in games : g.game_date \in Int
ASSUME DetailAssumption

VARIABLES
  calendar,     \* the games of the database
  today,
  asked,        \* history: the day the recent games were read
  recent, upcoming,
  stage

detailVars == <<calendar, today, asked, recent, upcoming, stage>>

OfTeam == {g \in calendar : team_id \in {g.home, g.away}}

\* Variant: recent games are those before today.
RecentGamesBefore(day) ==
  LET rows == {g \in OfTeam : g.game_date < day} IN
    [rows |-> rows, ahead |-> {p \in rows \X rows : p[1].game_date > p[2].game_date}]

\* WHERE game_date <= today ORDER BY game_date DESC
RecentGames(day) ==
  LET rows == {g \in OfTeam : g.game_date <= day} IN
    [rows |-> rows, ahead |-> {p \in rows \X rows : p[1].game_date > p[2].game_date}]

\* Variant: upcoming games include those of today.
UpcomingGamesFrom(day) ==
  LET rows == {g \in OfTeam : g.game_date >= day} IN
    [rows |-> rows, ahead |-> {p \in rows \X rows : p[1].game_date < p[2].game_date}]

\* WHERE game_date > today ORDER BY game_date
UpcomingGames(day) ==
  LET rows == {g \in OfTeam : g.game_date > day} IN
    [rows |-> rows, ahead |-> {p \in rows \X rows : p[1].game_date < p[2].game_date}]

DetailInit ==
  /\ calendar \in Calendars
  /\ today = 0 /\ asked = 0
  /\ recent = {} /\ upcoming = {}
  /\ stage = "season"

ReadRecent ==
  /\ stage = "season"
  /\ \E at \in Arrangements(RecentGames(today)) : recent' = Page(at, 0, DetailLimit)
  /\ asked' = today
  /\ stage' = "recent"
  /\ UNCHANGED <<calendar, today, upcoming>>

ReadUpcoming ==
  /\ stage = "recent"
  /\ \E at \in Arrangements(UpcomingGames(today)) : upcoming' = Page(at, 0, DetailLimit)
  /\ stage' = "answered"
  /\ UNCHANGED <<calendar, today, asked, recent>>

Midnight ==
  /\ stage # "answered"
  /\ today < LastDay
  /\ today' = today + 1
  /\ UNCHANGED <<calendar, asked, recent, upcoming, stage>>

DetailNext == ReadRecent \/ ReadUpcoming \/ Midnight

DetailSpec == DetailInit /\ [][DetailNext]_detailVars

-----------------------------------------------------------------------------
(* Properties. *)

\* No game is both recent and upcoming, whenever midnight falls.
NeverInBoth == recent \cap upcoming = {}

\* A game of the team is in one of the lists, unless the list has room for nearer
\* ones only, or its day began between the two reads.
LostOnlyAtMidnight ==
  stage = "answered"
    => \A g \in OfTeam \ (recent \cup upcoming) :
         \/ g.game_date \in (asked + 1)..today
         \/ /\ g.game_date <= asked /\ Cardinality(recent) = DetailLimit
            /\ \A r \in recent : r.game_date >= g.game_date
         \/ /\ g.game_date > today /\ Cardinality(upcoming) = DetailLimit
            /\ \A u \in upcoming : u.game_date <= g.game_date
=============================================================================
