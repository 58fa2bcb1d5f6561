CONSTANTS
  k1 = k1
  k2 = k2
  c1 = c1
  c2 = c2
  p = p
  w = w
  NoSource = NoSource
  NoCall = NoCall
  NoRequest = NoRequest
  Keys <- TwoKeys
  Calls <- TwoCalls
  Payments <- OnePayment
  CreditApps <- NoCredit
  Worth <- PaidWorth
  Requests <- SameSource
SPECIFICATION Spec
INVARIANTS SourceNeverOverdrawn
CHECK_DEADLOCK FALSE
