\* Redis, drivers who wait for each answer, failures anywhere.
SPECIFICATION Spec
CONSTANTS
  b1 = b1
  b2 = b2
  b3 = b3
  d1 = d1
  d2 = d2
  Drivers = {d1, d2}
  Buses = {b1, b2, b3}
  Owner <- TwoDrivers
  Routes = {r1}
  NoRoute = NoRoute
  TripIds = {t1, t2}
  MaxPoints = 2
  Handlers = {w1, w2}
  SharedStore = TRUE
  OneRequestAtATime = TRUE
  MayFail = TRUE
SYMMETRY Symmetry
INVARIANTS OneActiveTripPerDriver FeedInOrder
PROPERTIES EndHidesNoRunningTrip
