--------------------------- MODULE MCStoredValue ---------------------------
(* Stored value with small constants for TLC: the money of one customer    *)
(* (Money...) and the points of one (Points...).                           *)
EXTENDS StoredValue, TLC

CONSTANTS wallet, adv, card, points,   \* balances
          noteA, noteB,         \* two credit notes of the customer
          newA, newB,           \* the notes that a cancellation issues for them
          xw, xg, yw, yg, xa, xb, ya, yb, zp,     \* applications
          uxw, uxg, uyw, uyg, uxa, uxb, uya, uyb, \* what gives their value back
          top, iss, earn,       \* two issues of an advance, an earn
          o1, o2, o3, o4, c1, c2

TwoCalls == {c1, c2}

\* Orders o1 and o2 are paid from a gift card and the wallet, o3 and o4 from
\* two credit notes that their requests name in opposite order.  The
\* wallet and each note suffice for one order of the two, and for o1 asked twice.
MoneyAccounts == {wallet, adv, card, noteA, noteB, newA, newB}
MoneyKind     == wallet :> "WALLET" @@ adv :> "ADVANCE" @@ card :> "GIFT_CARD"
                 @@ [a \in {noteA, noteB, newA, newB} |-> "CREDIT_NOTE"]
MoneyOpening  == wallet :> 2 @@ card :> 2 @@ noteA :> 1 @@ noteB :> 1
                 @@ [a \in {adv, newA, newB} |-> Missing]
MoneyApps     == {xw, xg, yw, yg, xa, xb, ya, yb}
MoneyRequests == {{xw, xg}, {yw, yg}, {xa, xb}, {ya, yb}}
MoneyIndex    == [x \in {xg, yw, xa, yb} |-> 0] @@ [x \in {xw, yg, xb, ya} |-> 1]
MoneyOrder    == [x \in {xw, xg} |-> o1] @@ [x \in {yw, yg} |-> o2]
                 @@ [x \in {xa, xb} |-> o3] @@ [x \in {ya, yb} |-> o4]
MoneyUndo     == xw :> uxw @@ xg :> uxg @@ yw :> uyw @@ yg :> uyg
                 @@ xa :> uxa @@ xb :> uxb @@ ya :> uya @@ yb :> uyb
MoneyUnkeyed  == {uxw, uyw}
MoneyCredits  == {top, iss}
MoneyEntries  == MoneyApps \cup {MoneyUndo[x] : x \in MoneyApps} \cup MoneyCredits
MoneyAccount  == [e \in {xw, uxw, yw, uyw} |-> wallet] @@ [e \in {xg, uxg, yg, uyg} |-> card]
                 @@ [e \in {xa, ya} |-> noteA] @@ [e \in {xb, yb} |-> noteB]
                 @@ [e \in {uxa, uya} |-> newA] @@ [e \in {uxb, uyb} |-> newB]
                 @@ [e \in MoneyCredits |-> adv]
MoneyAmount   == yw :> -2 @@ [e \in {xw, xg, yg, xa, xb, ya, yb} |-> -1]
                 @@ [e \in {uyw, iss} |-> 2]
                 @@ [e \in {uxw, uxg, uyg, uxa, uxb, uya, uyb, top} |-> 1]

\* An order paid from points, which a cancellation does not give back, and an
\* earn.
PointsKind    == points :> "LOYALTY_POINTS"
PointsOpening == points :> 1
PointsEntries == {zp, earn}
PointsAccount == [e \in PointsEntries |-> points]
PointsAmount  == zp :> -1 @@ earn :> 1
PointsOrder   == zp :> o1
PointsIndex   == zp :> 0
PointsUndo    == zp :> NoEntry
=============================================================================
