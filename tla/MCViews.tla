------------------------------ MODULE MCViews ------------------------------
(* An instance of each of three specifications that share no state.  They are *)
(* checked side by side: one of them moves, the others stay where they began. *)
EXTENDS TeamDetail, BoxScores, TLC

CONSTANTS ann, bea, cam, NoAnswer

VARIABLE moving

mcVars == <<moving, walkVars, detailVars, box_scores>>

-----------------------------------------------------------------------------
(* Box scores: four games, three of them in the two competitions of one season, *)
(* and acts with a positive, a negative and no val.                             *)

MCGames          == 1..4
MCCompetitionOf  == <<1, 1, 2, 3>>
MCSeasonOf       == <<1, 1, 2>>

Blank == [f \in BoxColumns |-> 0]
Scored == [Blank EXCEPT !.pts = 2, !.fg2m = 1, !.fg2a = 1, !.reb_def = 1, !.plus_minus = 1]
Missed == [Blank EXCEPT !.fg3a = 1, !.fc = 1, !.plus_minus = -1]
MCActs == {Blank, Scored, Missed}

-----------------------------------------------------------------------------
(* Lists: leaderboards of three players over two games, games of a competition *)
(* on two days, competitions; any of them may grow into another.               *)

Played(f) == {[game |-> k[1], player |-> k[2], act |-> f[k]] :
                k \in {j \in {1, 2} \X {ann, bea, cam} : f[j] # NoAnswer}}

MCLeaderboards ==
  LET Listed(f) == {Aggregate({line \in Played(f) : line.player = p}, p, "val") :
                      p \in {line.player : line \in Played(f)}}
  IN {[rows |-> {r.player : r \in Listed(f)},
       ahead |-> {<<p[1].player, p[2].player>> : p \in ByAverage(Listed(f))}] :
        f \in [{1, 2} \X {ann, bea, cam} -> MCActs \cup {NoAnswer}]}

MCGameLists ==
  LET Row(date, games) == {[game |-> g, game_date |-> date[g]] : g \in games}
      Later(rows) == {p \in rows \X rows : p[1].game_date > p[2].game_date}
  IN {[rows |-> Row(date, games), ahead |-> Later(Row(date, games))] :
        date \in [1..4 -> 1..2], games \in SUBSET (1..4)}

MCCompetitions ==
  {[rows |-> rows, ahead |-> {p \in rows \X rows : p[1].competition < p[2].competition}] :
     rows \in SUBSET [competition : 1..5]}

MCLists == MCLeaderboards \cup MCGameLists \cup MCCompetitions

-----------------------------------------------------------------------------
(* Calendars: up to four games on four days, one of them without the team. *)

MCCalendars ==
  {{[game |-> g, home |-> IF g = 1 THEN ann ELSE bea,
     away |-> IF g \in {2, 4} THEN ann ELSE cam, game_date |-> date[g]] : g \in 1..n} :
     n \in 0..4, date \in [1..4 -> 0..3]}

-----------------------------------------------------------------------------
\* What the others are while one moves.
Still ==
  /\ moving # "walk" => list = [rows |-> {}, ahead |-> {}]
  /\ moving # "detail" => calendar = {}

MCInit ==
  /\ moving \in {"walk", "detail", "scores"}
  /\ WalkInit /\ DetailInit /\ ScoresInit
  /\ Still

MCNext ==
  /\ \/ moving = "walk" /\ WalkNext /\ UNCHANGED <<detailVars, box_scores>>
     \/ moving = "detail" /\ DetailNext /\ UNCHANGED <<walkVars, box_scores>>
     \/ moving = "scores" /\ ScoresNext /\ UNCHANGED <<walkVars, detailVars>>
  /\ UNCHANGED moving

MCSpec == MCInit /\ [][MCNext]_mcVars
=============================================================================
