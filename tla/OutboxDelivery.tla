--------------------------- MODULE OutboxDelivery ---------------------------
(***************************************************************************)
(* What the financial outbox promises its users, with no worker, claim or  *)
(* retry schedule: an event waits, is taken by one party at a time, has    *)
(* its effect at most once, and is acknowledged only after its consumers   *)
(* have run, or is put aside for the operator.                             *)
(*                                                                         *)
(* The party that acknowledges may not hear that it did.  It may then take *)
(* the acknowledgement back, and until it is done nobody can rely on it.   *)
(***************************************************************************)
CONSTANTS Events, Consumed   \* Consumed: the events some consumer owns

VARIABLES phase,      \* where each event is
          effective,  \* events that have had an effect
          consumed,   \* events whose consumers have run
          unheard     \* acknowledged events whose party does not know yet

vars == <<phase, effective, consumed, unheard>>

Init ==
  /\ phase = [e \in Events |-> "absent"]
  /\ effective = {} /\ consumed = {} /\ unheard = {}

Move(e, from, to) ==
  /\ phase[e] = from
  /\ phase' = [phase EXCEPT ![e] = to]
  /\ UNCHANGED <<effective, consumed>>

Publish(e)  == Move(e, "absent", "waiting") /\ UNCHANGED unheard
GiveBack(e) == Move(e, "taken", "waiting")  /\ UNCHANGED unheard
Bury(e)     == Move(e, "taken", "buried")   /\ UNCHANGED unheard
Requeue(e)  == Move(e, "buried", "waiting") /\ UNCHANGED unheard

Take(S) ==
  /\ S # {} /\ \A e \in S : phase[e] = "waiting"
  /\ phase' = [e \in Events |-> IF e \in S THEN "taken" ELSE phase[e]]
  /\ UNCHANGED <<effective, consumed, unheard>>

Consume(e) ==
  /\ phase[e] = "taken"
  /\ consumed' = consumed \cup {e}
  /\ effective' \in {effective, effective \cup {e}}
  /\ UNCHANGED <<phase, unheard>>

Acknowledge(e) ==
  /\ e \in Consumed => e \in consumed
  /\ Move(e, "taken", "done")
  /\ unheard' \in {unheard, unheard \cup {e}}

\* The party takes an acknowledgement back that it did not hear.
Withdraw(e) ==
  /\ e \in unheard
  /\ Move(e, "done", "waiting") \/ Move(e, "done", "buried")
  /\ unheard' = unheard \ {e}

\* The party is gone: the acknowledgement stands for good.
Settle(e) ==
  /\ e \in unheard
  /\ unheard' = unheard \ {e}
  /\ UNCHANGED <<phase, effective, consumed>>

Next ==
  \/ \E S \in SUBSET Events : Take(S)
  \/ \E e \in Events : \/ Publish(e) \/ GiveBack(e) \/ Bury(e) \/ Requeue(e)
                       \/ Consume(e) \/ Acknowledge(e) \/ Withdraw(e) \/ Settle(e)

Spec == Init /\ [][Next]_vars
=============================================================================
