---------------------------- MODULE MCStandings ----------------------------
(* Instances of Standings for TLC. *)
EXTENDS Standings, TLC

CONSTANTS t1, t2, t3, t4, g1, g2, g3, c1, c2

FourTeams  == {t1, t2, t3, t4}
ThreeGames == {g1, g2, g3}
TwoCompetitions == {c1, c2}
SmallScores     == 0 .. 2

Symmetry == Permutations(FourTeams) \cup Permutations(ThreeGames)
              \cup Permutations(TwoCompetitions)
=============================================================================
