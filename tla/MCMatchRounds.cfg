SPECIFICATION LiveSpec
INVARIANTS StandingsAgree EverybodyFights
PROPERTIES PhasesEnd FollowsCycle
CONSTANTS
  NumPlayers = 3
  StartingHealth = 3
  MotherNatureTicks = 2
  PlanningTicks = 1
  CombatTicks = 2
  ResolutionTicks = 1
  CombatMinTicks = 1
  CombatLingerTicks = 1
  FightTicks = {0, 1}
  FirstStageRounds = 1
  RoundsPerStage = 2
  FirstStagePveRounds = 1
  PveRoundInLaterStages = 2
  PveLossFromStage = 2
  GiftEvery = 2
  GiftHeals = {0, 2}
  BaseDamage <- MCBaseDamage
  PerSurvivingUnit = 1
  MaxUnits = 2
  LastRound = 3
  RoundCycle = 2
  TickBound = 4
CHECK_DEADLOCK FALSE
