\* The end of a trip, broadcast in the gap.
SPECIFICATION FairSpec
CONSTANTS
  Conns = {c1, c2}
  None = None
  MaxMessages = 2
  QueueSize = 1
  Stores = {"redis"}
  MayFail = FALSE

PROPERTIES WatcherLearnsEnd
