\* A flush that overlaps with a tick.
SPECIFICATION Spec
CONSTANTS
  Ticks = {k1, k2}
  Calls = {c1, c2}
  TripBound <- OneBusyTrip
  FixBound <- TwoWhenBusy
  FailureBound <- TwoWhenBusy
  BufferCap = 2
  Moods = {FALSE}
INVARIANTS TrailIsKept
