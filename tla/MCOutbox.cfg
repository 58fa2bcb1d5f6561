CONSTANTS
  e1 = e1
  e2 = e2
  e3 = e3
  w1 = w1
  w2 = w2
  NoEvent = NoEvent
  Events <- ThreeEvents
  Workers <- TwoWorkers
  Kind <- KindAll
  BatchLimit = 2
  MaxFaults = 1
  MaxCrashes = 1
SPECIFICATION FairSpec
INVARIANTS TypeOK ExclusiveClaim EffectAtMostOnce ProcessedAfterHandlers
PROPERTIES RefinesDelivery SettledIfWorkersLive
CHECK_DEADLOCK FALSE
