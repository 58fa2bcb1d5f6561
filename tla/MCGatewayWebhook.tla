-------------------------- MODULE MCGatewayWebhook --------------------------
(* The gateway webhook with small constants for TLC.                       *)
EXTENDS GatewayWebhook, TLC

CONSTANTS p, q, e1, e2, e3, w1, w2

TwoLegs   == {p, q}
TwoWorkers == {w1, w2}
WorkerSymmetry == Permutations(TwoWorkers)
Mixed     == p :> "PROCESSING" @@ q :> "AUTHORIZED"

\* Contradictory events of the pending leg, and a capture of the authorized
\* one that the gateway did not sign.
ThreeEvents  == {e1, e2, e3}
AllButForged == {e1, e2}
LegsRivals   == e1 :> p @@ e2 :> p @@ e3 :> q
Rivals       == e1 :> "PAYMENT_SUCCEEDED" @@ e2 :> "PAYMENT_FAILED" @@ e3 :> "CAPTURE_SUCCEEDED"
=============================================================================
