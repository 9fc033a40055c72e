\* Two subscriptions; a bus with stale and anomalous positions; failing ticks and pushes.
SPECIFICATION FairSpec
CONSTANTS
  s1 = s1
  s2 = s2
  Subs = {s1, s2}
  Places <- Road
  Near <- TwoRadii
  Locatable = {s1, s2}
  MayMisread = TRUE
  MaxFailures = 2
INVARIANTS RepeatsNeedFailures TriggeredWasTold
PROPERTIES NearBusIsReported AwayBusRearms
