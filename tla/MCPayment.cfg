CONSTANTS
  p = p
  q = q
  c1 = c1
  c2 = c2
  k1 = k1
  k2 = k2
  s1 = s1
  s2 = s2
  NoSession = NoSession
  NoCaller = NoCaller
  NoResult = NoResult
  NoRequest = NoRequest
  Callers <- TwoCallers
  Keys <- TwoKeys
  Sessions <- OneSession
  CashLegs <- CashP
  Legs <- TwoLegs
  DrawerOf <- DrawerS1
  InitStatus <- MixedStatus
  Requests <- MixedRequests
SPECIFICATION FairSpec
INVARIANTS TypeOK LogReplaysStatus NoOrphanSale ReversalIsCompensated OneFlipPerRequest SuccessIsReal
PROPERTIES PaidLeavesByReversal RefinesLedger CallsReturn
CHECK_DEADLOCK FALSE
