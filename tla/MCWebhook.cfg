CONSTANTS
  p = p
  q = q
  e1 = e1
  e2 = e2
  e3 = e3
  w1 = w1
  w2 = w2
  NoLeg = NoLeg
  NoEvent = NoEvent
  Operator = Operator
  Legs <- TwoLegs
  InitStatus <- Mixed
  Events <- ThreeEvents
  LegOf <- LegsRivals
  Outcome <- Rivals
  Authentic <- AllButForged
  Workers <- TwoWorkers
  MaxFaults = 1
  MaxCrashes = 1
SPECIFICATION Spec
INVARIANTS TypeOK TransitionedIsReal FlipsFollowEvents NothingIsForgotten
PROPERTY RowsAreFinal
SYMMETRY WorkerSymmetry
CHECK_DEADLOCK FALSE
