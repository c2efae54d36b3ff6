CONSTANTS
  footman = footman
  hero = hero
  queen = queen
  herald = herald
  sapling = sapling
  none = none
  other = other
  Copies = 3
  NoChampion = none
  OtherGift = other
  Champions <- MCChampions
  Plants = {sapling}
  TeamSlots <- MCTeamSlots
  BenchSlots = 1
  BoardHexes = 2
  NumPlayers = 2
  SlotCount = 1
  GiftOptions = 1
  MaxLevel = 2
  MaxRound = 3
  GiftEvery = 3
  ClosedRounds = 1
  PveRounds = {1}
  OpeningTier = 1
  Pooled = {footman, hero}
  InitialCopies <- MCInitial
  CostOf <- MCCost
  RollableTiers <- MCRollable
  Favourite <- MCFavourite
  Gated = {hero}
  Queen = queen
  QueenTrait = {footman}
  QueenHolders = 1
  QueenLevel = 2
  Herald = herald
  HeraldTrait = {hero}
  NatureTrait = {hero}
  NatureHolders = 1
  PlantCount = 1
  UnlockTrait = {footman}
  UnlockStars = 1
  UnlockLevel = 2
SPECIFICATION LedSpec
INVARIANTS PoolIntegrity RosterLayouts OneQueen GatedOnlyWhenUnlocked EliminatedHoldNothing SnapshotsRestore
PROPERTIES BoardLockedInFight
CHECK_DEADLOCK FALSE
