--------------------------- MODULE OrderLifecycle ---------------------------
(***************************************************************************)
(* What the workflow engine and the handover commands promise of an order: *)
(* it moves along the edges of the action graph only, a request moves it   *)
(* at most once however often it is sent, and resuming an order takes it   *)
(* back to where it was held.  Nothing is said of keys, locks, versions or *)
(* transactions.                                                           *)
(***************************************************************************)
CONSTANTS Orders, Requests,
          Opening,  \* the status an order starts with
          Of,       \* the order of a request
          Action,   \* its action
          From,     \* the statuses an action starts from
          To,       \* the status it ends with
          Nowhere

VARIABLES at,    \* the status of each order
          held,  \* where it was held, Nowhere when it is not
          moved  \* the requests that moved it

Init ==
  /\ at    = Opening
  /\ held  = [o \in Orders |-> Nowhere]
  /\ moved = [o \in Orders |-> {}]

Destination(r) ==
  IF Action[r] = "RESUME_ORDER_WORK" THEN held[Of[r]] ELSE To[Action[r]]

Move(r) ==
  LET o == Of[r] IN
  /\ r \notin moved[o]
  /\ at[o] \in From[Action[r]]
  /\ at' = [at EXCEPT ![o] = Destination(r)]
  /\ held' = [held EXCEPT ![o] = IF Action[r] = "HOLD_ORDER_WORK" THEN at[o]
                                 ELSE Nowhere]
  /\ moved' = [moved EXCEPT ![o] = @ \cup {r}]

Next == \E r \in Requests : Move(r)

Spec == Init /\ [][Next]_<<at, held, moved>>
=============================================================================
