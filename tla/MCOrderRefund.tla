--------------------------- MODULE MCOrderRefund ---------------------------
(* The refund service with small constants for TLC.                        *)
EXTENDS OrderRefund, TLC

CONSTANTS k1, k2, c1, c2, p, w

TwoKeys  == {k1, k2}
TwoCalls == {c1, c2}
OnePayment == {p}
OneCredit == {w}
NoCredit  == {}

\* A payment of 2 and a credit application of 1.
SmallWorth == p :> 2 @@ w :> 1
PaidWorth  == p :> 2

Ask(k, s, a, m, app) == [key |-> k, source |-> s, amount |-> a, method |-> m, approval |-> app]

\* One refund that needs approval, into the wallet; another without, paid out.
\* Each key also comes with a second payload.  Two refunds of the payment
\* exceed it, and the larger of each key exceed the order.
MixedRequests ==
  {Ask(k1, p, 2, "STORED", TRUE), Ask(k1, w, 1, "STORED", FALSE),
   Ask(k2, p, 1, "TENDER", FALSE), Ask(k2, NoSource, 2, "TENDER", TRUE)}

\* Two refunds of one payment that together exceed it.
SameSource == {Ask(k1, p, 2, "STORED", FALSE), Ask(k2, p, 1, "TENDER", FALSE)}
=============================================================================
