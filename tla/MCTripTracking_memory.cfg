\* In-memory store and broker, racing requests, restarts.
SPECIFICATION FairSpec
CONSTANTS
  b1 = b1
  b2 = b2
  b3 = b3
  d1 = d1
  d2 = d2
  Drivers = {d1}
  Buses = {b1}
  Owner <- OneDriver
  Routes = {r1}
  NoRoute = NoRoute
  TripIds = {t1, t2}
  MaxPoints = 1
  Handlers = {w1, w2}
  SharedStore = FALSE
  OneRequestAtATime = FALSE
  MayFail = TRUE
INVARIANTS LiveIsLastBroadcast
PROPERTIES EndedTripLeavesMap
