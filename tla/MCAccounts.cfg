CONSTANTS
  Ann = Ann Bob = Bob Cid = Cid
  Names = {Ann, Bob, Cid} Players = {Ann}
  Cosmetics <- Cosmetic Price <- PriceOf
  Missions <- MissionsOf Mission <- MissionDef Daily <- DailyOf Weekly <- WeeklyOf
  CoinsFor <- Coins XpFor <- Xp
  LevelBase = 1 LevelStep = 1 LevelMax = 2 LevelUpCoins = 1 StartingCoins = 1
  MaxSessions = 1 MaxFriends = 1 MatchesKept = 1 HistoryKept = 2
  Modes = {"ranked"} Placements = {1, 8}
  FirstDay = 3 LastDay = 4 MaxMatches = 2 MaxFailures = 1
SPECIFICATION AccountsSpec
INVARIANTS CoinsAddUp HistoryIsBacked
PROPERTIES FileIsTheStore
CHECK_DEADLOCK FALSE
