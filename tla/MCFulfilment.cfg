CONSTANTS
  counter = counter
  left = left
  right = right
  rel = rel
  hold = hold
  res = res
  pick = pick
  over = over
  bare = bare
  dl = dl
  dr = dr
  k1 = k1
  k2 = k2
  h1 = h1
  h2 = h2
  h3 = h3
  e1 = e1
  e2 = e2
  e3 = e3
  c1 = c1
  c2 = c2
  c3 = c3
  Route = Route
  NoCall = NoCall
  NoRequest = NoRequest
  Nowhere = Nowhere
  Orders <- SomeOrders
  Opening <- SomeOpening
  Requests <- PassRequests
  Service <- PassService
  Of <- PassOf
  Action <- PassAction
  Expects <- PassExpects
  Key <- PassKey
  EngineKey <- PassEngineKey
  Staged <- SomeStaged
  Keys <- AllKeys
  Calls <- ThreeCalls
SPECIFICATION FairSpec
INVARIANTS TypeOK RepliesAreTrue ReleasesMatch RouteCountsStops
PROPERTIES RefinesLifecycle ClaimsEnd
CHECK_DEADLOCK FALSE
