CONSTANTS
  wallet = wallet
  adv = adv
  card = card
  points = points
  noteA = noteA
  noteB = noteB
  newA = newA
  newB = newB
  xw = xw
  xg = xg
  yw = yw
  yg = yg
  xa = xa
  xb = xb
  ya = ya
  yb = yb
  zp = zp
  uxw = uxw
  uxg = uxg
  uyw = uyw
  uyg = uyg
  uxa = uxa
  uxb = uxb
  uya = uya
  uyb = uyb
  top = top
  iss = iss
  earn = earn
  o1 = o1
  o2 = o2
  o3 = o3
  o4 = o4
  c1 = c1
  c2 = c2
  NoCall = NoCall
  NoEntry = NoEntry
  Kind <- PointsKind
  Opening <- PointsOpening
  Entries <- PointsEntries
  Account <- PointsAccount
  Amount <- PointsAmount
  Order <- PointsOrder
  LegIndex <- PointsIndex
  Undo <- PointsUndo
  Accounts = {points}
  Apps = {zp}
  Requests = {{zp}}
  Credits = {earn}
  Unkeyed = {}
  Calls <- TwoCalls
SPECIFICATION Spec
INVARIANTS PointsAreLedgerSum
CHECK_DEADLOCK FALSE
