------------------------ MODULE MCPaymentTransition ------------------------
(* The transition service with small constants for TLC.                    *)
EXTENDS PaymentTransition, TLC

CONSTANTS p, q, c1, c2, k1, k2, s1, s2

TwoCallers  == {c1, c2}
TwoKeys     == {k1, k2}
OneSession  == {s1}
TwoLegs     == {p, q}

Ask(l, a, k, s, f) == [leg |-> l, action |-> a, key |-> k, session |-> s, fallback |-> f]

\* One pending cash leg and one authorized card leg.
CashP       == {p}
DrawerS1    == p :> s1 @@ q :> NoSession
MixedStatus == p :> "PENDING" @@ q :> "AUTHORIZED"

\* Everything that can be asked of the two legs, with few variants of each.
MixedRequests ==
  {Ask(p, "VERIFY", k1, NoSession, "RECORD_ONLY"),
   Ask(p, "CANCEL", k2, NoSession, "PAY_ON_COLLECTION"),
   Ask(p, "REVERSE", k1, s1, "RECORD_ONLY"),
   Ask(q, "CAPTURE", k1, NoSession, "RECORD_ONLY"),
   Ask(q, "SETTLE", k2, NoSession, "RECORD_ONLY"),
   Ask(q, "VOID", k2, NoSession, "RECORD_ONLY")}

\* Two pending legs, and the two calls that take the header lock at
\* different places.
TwoPending     == p :> "PROCESSING" @@ q :> "PENDING"
HeaderRequests ==
  {Ask(p, "VERIFY", k1, NoSession, "RECORD_ONLY"),
   Ask(q, "VERIFY", k2, NoSession, "RECORD_ONLY"),
   Ask(p, "CANCEL", k2, NoSession, "PAY_ON_COLLECTION"),
   Ask(q, "CANCEL", k1, NoSession, "AR_CREDIT_INVOICE")}
=============================================================================
