---------------------------- MODULE MCFulfilment ----------------------------
(* Fulfilment with small constants for TLC.                                *)
EXTENDS Fulfilment, TLC

CONSTANTS counter, left, right,  \* orders
          rel, hold, res, pick, over, bare, dl, dr,  \* requests
          k1, k2, h1, h2, h3, e1, e2, e3, c1, c2, c3

ThreeCalls == {c1, c2, c3}
AllKeys    == {k1, k2, h1, h2, h3, e1, e2, e3}

\* One order waits to be released, two are out on the route.
SomeOrders  == {counter, left, right}
SomeOpening == counter :> "ready" @@ left :> "out_for_delivery" @@ right :> "out_for_delivery"

\* Three keys are sent with two payloads (rel and hold, res and bare, pick and
\* over), an order is held and resumed while its driver confirms the delivery,
\* and the engine itself is asked to confirm a pickup (bare).
PassRequests == {rel, hold, res, pick, over, bare, dl, dr}

PassService == [r \in PassRequests |->
                  IF r \in {pick, over} THEN "pickup"
                  ELSE IF r \in {dl, dr} THEN "delivery" ELSE "engine"]
PassOf == [r \in PassRequests |->
             IF r \in {hold, res, dl} THEN left ELSE IF r = dr THEN right ELSE counter]
PassAction ==
  rel :> "RELEASE_FOR_PICKUP" @@ hold :> "HOLD_ORDER_WORK" @@ res :> "RESUME_ORDER_WORK"
  @@ [r \in {pick, over, bare} |-> "CONFIRM_PICKUP"]
  @@ dl :> "CONFIRM_DELIVERY" @@ dr :> "CONFIRM_DELIVERY"
PassExpects == [r \in PassRequests |-> IF r \in {res, pick, bare} THEN 1 ELSE 0]
SomeStaged  == {pick}
PassKey ==
  rel :> k1 @@ hold :> k1 @@ res :> k2 @@ bare :> k2
  @@ pick :> h1 @@ over :> h1 @@ dl :> h2 @@ dr :> h3
PassEngineKey == pick :> e1 @@ over :> e1 @@ dl :> e2 @@ dr :> e3 @@ PassKey
=============================================================================
