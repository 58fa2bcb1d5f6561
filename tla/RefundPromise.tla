---------------------------- MODULE RefundPromise ----------------------------
(***************************************************************************)
(* What the refund service promises about one request for a refund (one    *)
(* idempotency key), whatever runs at the same time: it is asked for once, *)
(* granted before it is paid, and its value leaves at most once.           *)
(***************************************************************************)
CONSTANT Keys

VARIABLE promise

Init == promise = [k \in Keys |-> "none"]

Move(k, from, to) ==
  /\ promise[k] \in from
  /\ promise' = [promise EXCEPT ![k] = to]

Ask(k)   == Move(k, {"none"}, "asked")
Grant(k) == Move(k, {"none", "asked"}, "granted")
Pay(k)   == Move(k, {"granted"}, "paid")

Next == \E k \in Keys : Ask(k) \/ Grant(k) \/ Pay(k)

Spec == Init /\ [][Next]_promise
=============================================================================
