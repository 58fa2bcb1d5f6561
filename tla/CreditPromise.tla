--------------------------- MODULE CreditPromise ---------------------------
(***************************************************************************)
(* What stored value promises about one credit application (a part of an   *)
(* order paid from a customer's balance), whatever runs at the same time:  *)
(* its value is taken from the balance once, and given back at most once,  *)
(* after it was taken.                                                     *)
(***************************************************************************)
CONSTANT Apps

VARIABLE value

Init == value = [x \in Apps |-> "owed"]

\* One transaction may take or return the value of several applications.
Move(X, from, to) ==
  /\ \A x \in X : value[x] = from
  /\ value' = [x \in Apps |-> IF x \in X THEN to ELSE value[x]]

Take(X)   == Move(X, "owed", "taken")
Return(X) == Move(X, "taken", "returned")

Next == \E X \in SUBSET Apps : Take(X) \/ Return(X)

Spec == Init /\ [][Next]_value
=============================================================================
