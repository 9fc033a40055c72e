\* Either store, three requests at a time, workers that die; the rest in MCServices.
SPECIFICATION ServicesSpec
CONSTANTS
  Limit = 2
  Window = 4
  IncrTTL = 2
  Workers = {w1, w2, w3}
  MaxCount = 5
  Forever = Forever
  MaxCodes = 2
  MaxAttempts = 2
  MaxGuesses = 6
  OtpTasks = {w1, w2}
  AB1 = AB1
  ab1 = ab1
  CD2 = CD2
  Plates = {AB1, ab1, CD2}
  Canonical <- UpperCase
  MaxBuses = 2
  Tasks = {w1, w2}
  Files = {1, 2, 3}
  Runs = {w1, w2}
  None = None
  Blank = Blank
  Districts = {v1, v2}
  Pairs = {p1}
  MaxFavorites = 2
  Calls = {w1, w2}
  Roads <- TwoRoads
  StepLength = 2
  TimeStep = 2
  MaxSpeed = 2
  MaxTrips = 3
  MaxTime = 14
  Nothing = Nothing
  a = a
  b = b
  c = c
  d = d
  N = N
  S = S
  r1 = r1
  r2 = r2
  x1 = x1
  x2 = x2
  w1 = w1
  w2 = w2
  v1 = v1
  v2 = v2
  p1 = p1
  Villages = {a, b, c, d}
  Place <- FourVillages
  Requests <- BothWays
  Detours <- TurnsBack
  Threshold = 1
  Servers = 2
  Grain = 4
  MaxRoutes = 2
  Builders = {w1, w2}
  CensusRows <- TwoTaluks
  Places <- SomePlaces
  Curated <- OneTown
  MaxAssign = 6
INVARIANTS
  TypesOK LimitIsKept CodesAreSound GuessesBounded BusesAreSound RoutesAreSound
  SearchFollowsPolyline ArrivalComesNearer VillagesAreKept ScreenIsSound DemoIsSound
  SchemaIsAPrefix
PROPERTIES
  PatientIsServed RerunsKeepRows ArrivalTimesFade
