\* Calls that wait for one another, and calls and ticks that overlap.
SPECIFICATION FairSpec
CONSTANTS
  Ticks = {k1, k2}
  Calls = {c1, c2}
  TripBound <- OneWhenBusy
  FixBound <- FewerWhenBusy
  FailureBound <- OneWhenBusy
  BufferCap = 2
  Moods = {TRUE, FALSE}
INVARIANTS CalmTrailIsKept ExtraCopiesNeedFailures TrackedTripIsShown
PROPERTIES KeepsTracking
