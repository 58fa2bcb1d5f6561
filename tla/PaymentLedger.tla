---------------------------- MODULE PaymentLedger ----------------------------
(***************************************************************************)
(* What transitionPaymentTx promises about payment legs, whatever runs at  *)
(* the same time: each flip is one atomic step along the graph, and it     *)
(* leaves one record of itself (event and drawer movement) behind.         *)
(***************************************************************************)
EXTENDS Sequences, PaymentLifecycle

CONSTANTS Legs, CashLegs, DrawerOf, InitStatus, Requests, Sessions, NoSession

VARIABLES status, log

vars == <<status, log>>

Init ==
  /\ status = InitStatus
  /\ log = [l \in Legs |-> <<>>]

\* The drawer sessions a flip may put a movement into.
Movements(r) ==
  IF r.action = "REVERSE" /\ r.leg \in CashLegs THEN {r.session} \ {NoSession}
  ELSE IF r.action = "VERIFY" /\ r.leg \in CashLegs THEN {DrawerOf[r.leg], NoSession}
  ELSE {NoSession}

Transition(r, m) ==
  /\ status[r.leg] \in SourceStatuses[r.action]
  /\ m \in Movements(r)
  /\ status' = [status EXCEPT ![r.leg] = TargetStatus[r.action]]
  /\ log' = [log EXCEPT ![r.leg] = Append(@,
       [from |-> status[r.leg], to |-> TargetStatus[r.action], by |-> r, moved |-> m])]

Next == \E r \in Requests, m \in Sessions \cup {NoSession} : Transition(r, m)

Spec == Init /\ [][Next]_vars
=============================================================================
