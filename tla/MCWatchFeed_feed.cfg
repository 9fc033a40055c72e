\* Either broker, lost connections, failing handlers and requests.
SPECIFICATION FairSpec
CONSTANTS
  Conns = {c1, c2}
  None = None
  MaxMessages = 2
  QueueSize = 1
  Stores = {"redis", "memory"}
  MayFail = TRUE
INVARIANTS NewestIsNeverDropped
PROPERTIES FeedNeverGoesBack QueuedIsSent
