SPECIFICATION BotSpec
CONSTANTS
  footman = footman
  knight = knight
  queen = queen
  none = none
  guard = guard
  NoChampion = none
  Champions <- MCChampions
  Plants = {}
  TeamSlots <- MCTeamSlots
  BenchSlots = 1
  BoardHexes = 2
  Special <- MCSpecial
  CostOf <- MCCost
  PriceOf <- MCPrice
  TraitsOf <- MCTraits
  Breakpoints <- MCBreakpoints
  Ages <- MCAges
  MaxLevel = 2
  SlotCount = 2
  RerollCost = 1
  BuyXpCost = 2
  BonusGold = 2
  LevelUpAboveGold = 3
  ReserveGold = 0
  InterestStepGold = 1
  MaxInterestGold = 2
  MaxRerolls = 1
  BenchSlack = 1
  GiftSets <- MCGifts
  TargetLevel <- MCTarget
  MaxStage = 2
  Income = {2}
  MaxGold = 4
PROPERTIES SellsOnlyToBuy EveryTurnEnds
