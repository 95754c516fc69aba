CONSTANTS
    t1 = t1
    t2 = t2
    t3 = t3
    t4 = t4
    g1 = g1
    g2 = g2
    g3 = g3
    c1 = c1
    c2 = c2
    NoGame = NoGame
    Teams <- FourTeams
    Games <- ThreeGames
    Competitions <- TwoCompetitions
    Scores <- SmallScores
SYMMETRY Symmetry
SPECIFICATION Spec
CHECK_DEADLOCK FALSE
INVARIANTS
    TypeOK
    Balanced
    CompetitionRanking
PROPERTIES
    ResultMovesItsTeams
