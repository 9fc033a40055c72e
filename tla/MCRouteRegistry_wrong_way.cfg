SPECIFICATION RouteSpec
CONSTANTS
  a = a
  b = b
  c = c
  d = d
  Villages = {a, b, c, d}
  Place <- FourVillages
  Requests <- BothWays
  Detours <- TurnsBack
  Threshold = 1
  Servers = 2
  Grain = 4
  MaxRoutes = 2
  Builders = {w1, w2}
SYMMETRY Symmetry
INVARIANTS FoundIsTravelled
