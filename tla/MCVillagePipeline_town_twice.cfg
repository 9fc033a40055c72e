SPECIFICATION VillageSpec
CONSTANTS
  N = N
  S = S
  CensusRows <- TwoTaluks
  Places <- SomePlaces
  Curated <- OneTown
  MaxAssign = 7
  Blank = Blank
INVARIANTS TownsAreOnce
