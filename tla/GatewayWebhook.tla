--------------------------- MODULE GatewayWebhook ---------------------------
(***************************************************************************)
(* processGatewayWebhookEvent: how a payment gateway's events move payment *)
(* legs.  The gateway may deliver an event several times and in any order, *)
(* and several deliveries are processed at once, each as a series of       *)
(* separate database statements (no surrounding transaction).  Meanwhile   *)
(* back-office users move the same legs.                                   *)
(*                                                                         *)
(* transitionPaymentTx is used here as the atomic ledger it implements     *)
(* (PaymentTransition, RefinesLedger).                                     *)
(***************************************************************************)
EXTENDS Naturals, Sequences, FiniteSets, PaymentLifecycle

CONSTANTS Legs,        \* gateway legs, none of them cash
          InitStatus,  \* status each leg is created with
          Events,      \* provider event ids
          LegOf,       \* the leg an event's reference names, or NoLeg
          Outcome,     \* normalized outcome of an event
          Authentic,   \* events whose signature verifies for their tenant
          Workers,     \* webhook requests being served
          NoLeg, NoEvent, Operator,
          MaxFaults, MaxCrashes  \* bounds: statements that throw, requests that die

Outcomes == {"PAYMENT_SUCCEEDED", "PAYMENT_FAILED", "CAPTURE_SUCCEEDED", "CAPTURE_FAILED",
             "SETTLED", "AUTHORIZATION_EXPIRED", "UNKNOWN"}
NoAction == "none"

ASSUME InitAssumption == InitStatus \in [Legs -> {"PENDING", "PROCESSING", "AUTHORIZED", "COMPLETED"}]
ASSUME EventAssumption ==
  /\ LegOf \in [Events -> Legs \cup {NoLeg}]
  /\ Outcome \in [Events -> Outcomes]
  /\ Authentic \subseteq Events
ASSUME SentinelAssumption == NoLeg \notin Legs /\ NoEvent \notin Events /\ Operator \notin Events
ASSUME BoundAssumption == MaxFaults \in Nat /\ MaxCrashes \in Nat

VARIABLES status, log,  \* the payment legs, as in PaymentLedger
          visible,      \* legs whose row is committed with its gateway reference
          row,          \* processing_status in sys_gw_webhook_events_tr
          acked,        \* events the gateway got a 200 for
          pc, event,    \* where a request is, and its event
          seen,         \* payment_status it read with the leg
          action,       \* transition it resolved
          faults, crashes

legVars    == <<status, log>>
workerVars == <<pc, event, seen, action>>
boundVars  == <<faults, crashes>>
vars == <<status, log, visible, row, acked, pc, event, seen, action, faults, crashes>>

Rows  == {"absent", "RECEIVED", "MATCHED", "TRANSITIONED", "UNMATCHED", "REJECTED_SIGNATURE", "ERROR"}
Final == Rows \ {"absent", "RECEIVED", "MATCHED"}
Requests == [leg : Legs, action : Actions, by : Events \cup {Operator}]

Ledger == INSTANCE PaymentLedger
  WITH CashLegs <- {}, DrawerOf <- [l \in Legs |-> NoLeg], Sessions <- {}, NoSession <- NoLeg

Flip == [from : Statuses, to : Statuses, by : Requests, moved : {NoLeg}]

TypeOK ==
  /\ status  \in [Legs -> Statuses]
  /\ log     \in [Legs -> Seq(Flip)]
  /\ visible \subseteq Legs
  /\ row     \in [Events -> Rows]
  /\ acked   \subseteq Events
  /\ pc      \in [Workers -> {"idle", "find", "verify", "resolve", "transition", "done", "error"}]
  /\ event   \in [Workers -> Events \cup {NoEvent}]
  /\ seen    \in [Workers -> Statuses \cup {"unread"}]
  /\ action  \in [Workers -> Actions \cup {NoAction}]
  /\ faults \in 0..MaxFaults /\ crashes \in 0..MaxCrashes

Init ==
  /\ Ledger!Init
  /\ visible = {}
  /\ row     = [e \in Events |-> "absent"]
  /\ acked   = {}
  /\ pc      = [w \in Workers |-> "idle"]
  /\ event   = [w \in Workers |-> NoEvent]
  /\ seen    = [w \in Workers |-> "unread"]
  /\ action  = [w \in Workers |-> NoAction]
  /\ faults  = 0
  /\ crashes = 0

-----------------------------------------------------------------------------
(* The legs                                                                *)

\* The order's transaction commits the leg; the gateway may be faster.
CommitLeg(l) ==
  /\ l \notin visible
  /\ visible' = visible \cup {l}
  /\ UNCHANGED <<legVars, row, acked, workerVars, boundVars>>

\* A back-office transition, or a manual re-sync.
OperatorTransition(l, a) ==
  /\ l \in visible
  /\ Ledger!Transition([leg |-> l, action |-> a, by |-> Operator], NoLeg)
  /\ UNCHANGED <<visible, row, acked, workerVars, boundVars>>

-----------------------------------------------------------------------------
(* A webhook request                                                       *)

Move(w, from, to) == pc[w] = from /\ pc' = [pc EXCEPT ![w] = to]
SetRow(e, s) == row' = [row EXCEPT ![e] = s]

\* The response goes out: 200, or 401 for a bad signature.
Answer(w, ok) ==
  /\ acked'  = IF ok THEN acked \cup {event[w]} ELSE acked
  /\ pc'     = [pc EXCEPT ![w] = "idle"]
  /\ event'  = [event EXCEPT ![w] = NoEvent]
  /\ seen'   = [seen EXCEPT ![w] = "unread"]
  /\ action' = [action EXCEPT ![w] = NoAction]

\* The INSERT that deduplicates: unique (gateway_code, provider_event_id).
IsNew_NoUnique(e) == TRUE  \* mutant: no unique index
IsNew(e) == row[e] = "absent"

Receive(w, e) ==
  /\ Move(w, "idle", "find")
  /\ IsNew(e)
  /\ SetRow(e, "RECEIVED")
  /\ event' = [event EXCEPT ![w] = e]
  /\ UNCHANGED <<legVars, visible, acked, seen, action, boundVars>>

Duplicate(w, e) ==
  /\ pc[w] = "idle"
  /\ ~IsNew(e)
  /\ acked' = acked \cup {e}
  /\ UNCHANGED <<legVars, visible, row, workerVars, boundVars>>

\* The lookup of the gateway or the INSERT throws something else than a
\* unique violation; the route answers 200 to any exception.
ReceiveThrows(w, e) ==
  /\ pc[w] = "idle"
  /\ faults < MaxFaults
  /\ faults' = faults + 1
  /\ acked' = acked \cup {e}
  /\ UNCHANGED <<legVars, visible, row, workerVars, crashes>>

\* The leg by its gateway reference, with the status it has now.
FindLeg(w) ==
  /\ Move(w, "find", "verify")
  /\ LegOf[event[w]] \in visible
  /\ seen' = [seen EXCEPT ![w] = status[LegOf[event[w]]]]
  /\ UNCHANGED <<legVars, visible, row, acked, event, action, boundVars>>

Unmatched(w) ==
  /\ pc[w] = "find"
  /\ LegOf[event[w]] \notin visible
  /\ SetRow(event[w], "UNMATCHED")
  /\ Answer(w, TRUE)
  /\ UNCHANGED <<legVars, visible, boundVars>>

Verifies_NotChecked(e) == TRUE  \* mutant: every signature passes
Verifies(e) == e \in Authentic

AcceptSignature(w) ==
  /\ Move(w, "verify", "resolve")
  /\ Verifies(event[w])
  /\ SetRow(event[w], "MATCHED")
  /\ UNCHANGED <<legVars, visible, acked, event, seen, action, boundVars>>

RejectSignature(w) ==
  /\ pc[w] = "verify"
  /\ ~Verifies(event[w])
  /\ SetRow(event[w], "REJECTED_SIGNATURE")
  /\ Answer(w, FALSE)
  /\ UNCHANGED <<legVars, visible, boundVars>>

resolveTransitionAction_StatusAlone(outcome, current) ==  \* mutant: the outcome is not looked at
  IF current \in {"PENDING", "PROCESSING"} THEN "VERIFY"
  ELSE IF current = "AUTHORIZED" THEN "CAPTURE"
  ELSE IF current = "CAPTURED" THEN "SETTLE" ELSE NoAction
resolveTransitionAction(outcome, current) ==
  IF outcome = "PAYMENT_SUCCEEDED" /\ current \in {"PENDING", "PROCESSING"} THEN "VERIFY"
  ELSE IF outcome = "PAYMENT_FAILED" /\ current \in {"PENDING", "PROCESSING"} THEN "FAIL_BOUNCE"
  ELSE IF outcome = "CAPTURE_SUCCEEDED" /\ current = "AUTHORIZED" THEN "CAPTURE"
  ELSE IF outcome = "CAPTURE_FAILED" /\ current = "AUTHORIZED" THEN "VOID"
  ELSE IF outcome = "SETTLED" /\ current = "CAPTURED" THEN "SETTLE"
  ELSE NoAction

\* From the outcome and the status read three statements earlier.
Resolve(w) ==
  /\ Move(w, "resolve", "transition")
  /\ action' = [action EXCEPT ![w] = resolveTransitionAction(Outcome[event[w]], seen[w])]
  /\ action'[w] # NoAction
  /\ UNCHANGED <<legVars, visible, row, acked, event, seen, boundVars>>

Unsupported_Silent(w) ==  \* mutant: answers without closing the row
  /\ pc[w] = "resolve"
  /\ resolveTransitionAction(Outcome[event[w]], seen[w]) = NoAction
  /\ Answer(w, TRUE)
  /\ UNCHANGED <<legVars, visible, row, boundVars>>
Unsupported(w) ==
  /\ pc[w] = "resolve"
  /\ resolveTransitionAction(Outcome[event[w]], seen[w]) = NoAction
  /\ SetRow(event[w], "ERROR")
  /\ Answer(w, TRUE)
  /\ UNCHANGED <<legVars, visible, boundVars>>

\* transitionPaymentTx flips the leg.
TransitionFlips(w) ==
  /\ Move(w, "transition", "done")
  /\ Ledger!Transition([leg |-> LegOf[event[w]], action |-> action[w], by |-> event[w]], NoLeg)
  /\ UNCHANGED <<visible, row, acked, event, seen, action, boundVars>>

\* The leg is at the target already: flipped is false, and nothing throws.
TransitionNoOp(w) ==
  /\ Move(w, "transition", "done")
  /\ status[LegOf[event[w]]] = TargetStatus[action[w]]
  /\ UNCHANGED <<legVars, visible, row, acked, event, seen, action, boundVars>>

\* Another status by now: ILLEGAL_TRANSITION.
TransitionThrows(w) ==
  /\ Move(w, "transition", "error")
  /\ status[LegOf[event[w]]] \notin SourceStatuses[action[w]] \cup {TargetStatus[action[w]]}
  /\ UNCHANGED <<legVars, visible, row, acked, event, seen, action, boundVars>>

\* The transition or the UPDATE that records its success throws: it failed, or
\* it is committed and the answer was lost.  Both stand in the same try block.
\* (A transition that is committed and not heard of is one that flips, and
\* then throws.)
StatementThrows(w) ==
  /\ pc[w] \in {"transition", "done"}
  /\ pc' = [pc EXCEPT ![w] = "error"]
  /\ faults < MaxFaults
  /\ faults' = faults + 1
  /\ \/ UNCHANGED row
     \/ pc[w] = "done" /\ SetRow(event[w], "TRANSITIONED")
  /\ UNCHANGED <<legVars, visible, acked, event, seen, action, crashes>>

RecordTransitioned(w) ==
  /\ pc[w] = "done"
  /\ SetRow(event[w], "TRANSITIONED")
  /\ Answer(w, TRUE)
  /\ UNCHANGED <<legVars, visible, boundVars>>

RecordError(w) ==
  /\ pc[w] = "error"
  /\ SetRow(event[w], "ERROR")
  /\ Answer(w, TRUE)
  /\ UNCHANGED <<legVars, visible, boundVars>>

\* Any other statement throws: the route's catch answers 200 all the same, and
\* the row stays as it is, unless a rejection was committed unheard.  (The
\* other statements, committed unheard, are their actions and then this one.)
Unhandled(w) ==
  /\ pc[w] \in {"find", "verify", "resolve", "error"}
  /\ faults < MaxFaults
  /\ faults' = faults + 1
  /\ \/ UNCHANGED row
     \/ pc[w] = "verify" /\ ~Verifies(event[w]) /\ SetRow(event[w], "REJECTED_SIGNATURE")
  /\ Answer(w, TRUE)
  /\ UNCHANGED <<legVars, visible, crashes>>

\* The server dies, and the gateway gets no answer.
Crash(w) ==
  /\ pc[w] # "idle"
  /\ crashes < MaxCrashes
  /\ crashes' = crashes + 1
  /\ Answer(w, FALSE)
  /\ UNCHANGED <<legVars, visible, row, faults>>

-----------------------------------------------------------------------------

Serve(w) ==
  \/ FindLeg(w) \/ Unmatched(w)
  \/ AcceptSignature(w) \/ RejectSignature(w)
  \/ Resolve(w) \/ Unsupported(w)
  \/ TransitionFlips(w) \/ TransitionNoOp(w) \/ TransitionThrows(w)
  \/ RecordTransitioned(w) \/ RecordError(w)

Next ==
  \/ \E l \in Legs : CommitLeg(l) \/ \E a \in Actions : OperatorTransition(l, a)
  \/ \E w \in Workers : \/ \E e \in Events : Receive(w, e) \/ Duplicate(w, e) \/ ReceiveThrows(w, e)
                        \/ Serve(w) \/ StatementThrows(w) \/ Unhandled(w) \/ Crash(w)

Spec == Init /\ [][Next]_vars

-----------------------------------------------------------------------------
(* Properties                                                              *)

\* The event log tells the truth about success: behind a TRANSITIONED row
\* the leg it names has really been where the gateway says it is.
PaidOutcomes == {"PAYMENT_SUCCEEDED", "CAPTURE_SUCCEEDED", "SETTLED"}
TransitionedIsReal ==
  \A e \in Events :
    row[e] = "TRANSITIONED" =>
      /\ LegOf[e] \in visible
      /\ \E s \in {InitStatus[LegOf[e]]} \cup {log[LegOf[e]][i].to : i \in DOMAIN log[LegOf[e]]} :
           Bucket(s) = IF Outcome[e] \in PaidOutcomes THEN "paid" ELSE "failed"

\* Although the action is chosen from a status that may be stale, an event
\* never moves a leg against its own outcome, moves the leg its reference
\* names and no other, and does so only if its signature verified.
FlipsFollowEvents ==
  \A l \in Legs : \A i \in DOMAIN log[l] :
    LET e == log[l][i].by.by
    IN  e \in Events =>
          /\ e \in Authentic /\ LegOf[e] = l
          /\ Bucket(log[l][i].to) = IF Outcome[e] \in PaidOutcomes THEN "paid" ELSE "failed"

\* No request is serving e.
Settled(e) == \A w \in Workers : event[w] # e

\* A row that reached its end is never reopened: no second delivery and no
\* late request rewrites the audit trail of an event.  One rewriting the code
\* does allow: the request that set its row TRANSITIONED and lost the answer
\* writes ERROR over it, before it is done with the event.
RowsAreFinal ==
  [][\A e \in Events : row[e] \in Final =>
       \/ row'[e] = row[e]
       \/ row[e] = "TRANSITIONED" /\ row'[e] = "ERROR" /\ ~Settled(e)]_vars

\* "order paid state updates without manual action": while no server dies and
\* no statement of the request itself throws, no path of the request forgets
\* an event.  One whose row has not reached its end is being served, and when
\* the gateway has its 200 for a verified PAYMENT_SUCCEEDED of a leg that is
\* there, and nobody serves it any more, the leg no longer waits to be
\* confirmed.
NothingIsForgotten ==
  faults = 0 /\ crashes = 0 =>
    \A e \in Events :
      /\ row[e] \in {"RECEIVED", "MATCHED"} => ~Settled(e)
      /\ /\ e \in acked /\ e \in Authentic /\ Settled(e)
         /\ Outcome[e] = "PAYMENT_SUCCEEDED"
         /\ LegOf[e] \in visible /\ row[e] # "UNMATCHED"
         => Bucket(status[LegOf[e]]) # "pending"
=============================================================================
