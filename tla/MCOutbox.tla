------------------------------ MODULE MCOutbox ------------------------------
(* The outbox with small constants for TLC.                                *)
EXTENDS Outbox, TLC

CONSTANTS e1, e2, e3, w1, w2

ThreeEvents == {e1, e2, e3}
TwoWorkers  == {w1, w2}

\* One event for each handler and one that no handler owns.
KindAll  == e1 :> "loyalty" @@ e2 :> "history" @@ e3 :> "other"
=============================================================================
