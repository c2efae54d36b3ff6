CONSTANTS
  footman = footman
  sapling = sapling
  none = none
  NoChampion = none
  Champions <- MCChampions
  Plants <- MCPlants
  TeamSlots <- MCTeamSlots
  BenchSlots = 2
  BoardHexes = 2
  MaxCapacity = 2
  PlantStars = {1}
  rod = rod
  bow = bow
  staff = staff
  remover = remover
  nothing = nothing
  Items <- MCItems
  NoItem = nothing
  Combined <- MCCombined
  Components <- MCComponents
  Removers <- MCRemovers
  ItemSlots = 2
  MaxItems = 3
SPECIFICATION ItemsSpec
INVARIANTS ItemsConserved
PROPERTIES AddIsWorthOneCopy MergeKeepsFielded
