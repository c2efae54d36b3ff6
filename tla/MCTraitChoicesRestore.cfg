SPECIFICATION Spec
CONSTANTS
  hexa = hexa
  hexb = hexb
  carrier = carrier
  najmi = najmi
  m1 = m1
  m2 = m2
  m3 = m3
  m4 = m4
  Champions <- MCChampions
  HexagonUnits <- MCHexagonUnits
  HexagonCounts <- MCHexagonCounts
  ModuleTiers <- MCModuleTiers
  ModulesOf <- MCModulesOf
  NajmiUnits <- MCNajmiUnits
  NajmiCounts <- MCNajmiCounts
  DustRules <- MCDustRules
  StarDustPerTier = 2
  BoardCapacity = 4
  MaxTakedowns = 1
  MaxLosses = 2
  MaxDust = 14
INVARIANTS SnapshotsAreAccepted
