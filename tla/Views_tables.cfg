CONSTANTS
    ann = ann
    bea = bea
    cam = cam
    NoAnswer = NoAnswer
    NoStats = NoStats
    Players = {ann, bea}
    Games <- MCGames
    competition_id <- MCCompetitionOf
    season_id <- MCSeasonOf
    Acts <- MCActs
    Lists <- MCLists
    Limit = 2
    Calendars <- MCCalendars
    team_id = ann
    LastDay = 3
    DetailLimit = 2
SPECIFICATION MCSpec
INVARIANTS
    SteadyShownOnce
    OnePlaceEach
    LeaderboardsAddUp
    NeverInBoth
    LostOnlyAtMidnight
CHECK_DEADLOCK FALSE
