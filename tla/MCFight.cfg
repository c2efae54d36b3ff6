CONSTANTS
  Columns = 3
  Rows = 4
  Kinds <- MCKinds
  HealingCutPercent = 50
  DamageRampPercent = 50
  TicksPerSecond = 3
  MaxSummonsPerFight = 3
  MaxHookRounds = 8
  RawDamagePerMana = 2
  Lineups <- MCLineups
  Synergies <- MCSynergies
  Modules <- MCModules
  MaxEchoes = 2
  DotSpreadTicks = 1
  RegulationTicks = 6
  OvertimeSpeed = 2
  MaxTicks = 10
  TicksPerHexMove = 2
  RepathBackoffTicks = 2
  ManaPerAttack = 1
  ManaFromDamageCap = 1
  MaxDeathCastRounds = 16
SPECIFICATION Spec
INVARIANTS FieldAgrees PilotsAgree StreamShowsTheFight ChannelUnbroken TwinsFallTogether
CHECK_DEADLOCK FALSE
