------------------------------ MODULE EditLock ------------------------------
(***************************************************************************)
(* Editing one order: the edit lock (order-lock.service.ts), the save      *)
(* (updateOrder of order-service.ts) and the page that calls them.         *)
(*                                                                         *)
(* The page loads the order, takes the lock, and saves against the         *)
(* updated_at it loaded.  The lock's functions read the row in one         *)
(* statement and write it in another; the save reads the order, looks at   *)
(* the lock and compares before its transaction, which deletes the pieces, *)
(* deletes the items, writes new ones and sets updated_at, under READ      *)
(* COMMITTED.                                                              *)
(*                                                                         *)
(* A version of the order is the number of its saves; the rows of items    *)
(* and pieces are named by the save that wrote them.                       *)
(*                                                                         *)
(* Every save is the page's: it sends expectedUpdatedAt, which updateOrder *)
(* compares only if it is there (order-service.ts:2900).  An order has its *)
(* items with their pieces, or neither yet; one whose items lack pieces    *)
(* (older than migration 0073; migration 0112 repairs such) is left out.   *)
(***************************************************************************)
EXTENDS Integers

CONSTANTS Users,     \* people with the page open
          Opening,   \* the items at the start: {0}, or {} for a quick drop
          MaxSaves,  \* bound on the saves
          NoUser, NoVersion

ASSUME EditAssumption ==
  /\ Opening \in {{}, {0}}
  /\ MaxSaves \in Nat
  /\ NoUser \notin Users /\ NoVersion \notin Int

VARIABLES version,        \* updated_at of org_orders_mst
          items, pieces,  \* committed rows
          saves,          \* the saves that committed
          lock,           \* the row of org_order_edit_locks
          pc,             \* a user's place
          base,           \* expectedUpdatedAt, as the page knows it
          seen,           \* the version the save read
          cut,            \* the rows its DELETE statement sees
          hold, gone,     \* the pieces and items it has deleted
          known           \* the versions the user loaded, or that were
                          \* committed while a save of theirs was running

orderVars == <<version, items, pieces, saves>>
txVars    == <<cut, hold, gone>>
vars      == <<version, items, pieces, saves, lock, pc, base, seen, cut, hold,
               gone, known>>

NoLock == [by |-> NoUser, live |-> FALSE]

InTx   == {"pieces", "hold", "items", "restrict", "commit"}
InSave == InTx \cup {"check", "drop", "reread"}
Places == InSave \cup {"idle", "ask", "refresh", "take", "edit", "look", "unlock"}

TypeOK ==
  /\ version \in 0..MaxSaves
  /\ items  \in SUBSET (0..MaxSaves)
  /\ pieces \in SUBSET (0..MaxSaves)
  /\ saves  \in SUBSET [at : 1..MaxSaves, on : 0..MaxSaves, by : Users, knew : BOOLEAN]
  /\ lock   \in {NoLock} \cup [by : Users, live : BOOLEAN]
  /\ pc     \in [Users -> Places]
  /\ base   \in [Users -> 0..MaxSaves \cup {NoVersion}]
  /\ seen   \in [Users -> 0..MaxSaves]
  /\ cut    \in [Users -> SUBSET (0..MaxSaves)]
  /\ hold   \in [Users -> SUBSET (0..MaxSaves)]
  /\ gone   \in [Users -> SUBSET (0..MaxSaves)]
  /\ known  \in [Users -> SUBSET (0..MaxSaves)]

Init ==
  /\ version = 0 /\ saves = {}
  /\ items = Opening /\ pieces = Opening
  /\ lock  = NoLock
  /\ pc    = [u \in Users |-> "idle"]
  /\ base  = [u \in Users |-> NoVersion]
  /\ seen  = [u \in Users |-> 0]
  /\ cut   = [u \in Users |-> {}]
  /\ hold  = [u \in Users |-> {}]
  /\ gone  = [u \in Users |-> {}]
  /\ known = [u \in Users |-> {}]

Goto(u, place) == pc' = [pc EXCEPT ![u] = place]

-----------------------------------------------------------------------------
(* The lock.                                                               *)

Live     == lock # NoLock /\ lock.live
Mine(u)  == lock.by = u
Taken(u) == Live /\ ~Mine(u)

\* The page opens: it loads the order first, and then asks for the lock.
Load(u) ==
  /\ pc[u] = "idle"
  /\ base'  = [base EXCEPT ![u] = version]
  /\ known' = [known EXCEPT ![u] = {version}]
  /\ Goto(u, "ask")
  /\ UNCHANGED <<orderVars, lock, seen, txVars>>

\* lockOrderForEdit reads the row.  A page that is refused gives up.
Ask(u) ==
  /\ pc[u] = "ask"
  /\ Goto(u, IF Taken(u) THEN "look" ELSE IF Live THEN "refresh" ELSE "take")
  /\ base' = [base EXCEPT ![u] = IF Taken(u) THEN NoVersion ELSE @]
  /\ UNCHANGED <<orderVars, lock, seen, txVars, known>>

\* The UPDATE of a lock read as one's own; without a row it throws.
Refresh(u) ==
  /\ pc[u] = "refresh"
  /\ IF lock = NoLock
     THEN /\ base' = [base EXCEPT ![u] = NoVersion]
          /\ Goto(u, "look") /\ lock' = lock
     ELSE /\ lock' = [lock EXCEPT !.live = TRUE]
          /\ Goto(u, "edit") /\ base' = base
  /\ UNCHANGED <<orderVars, seen, txVars, known>>

Row_KeepsOwner(u) == [lock EXCEPT !.live = TRUE]

Row(u) == [by |-> u, live |-> TRUE]

\* The upsert, whoever has taken the lock since it was read.
Take(u) ==
  /\ pc[u] = "take"
  /\ lock' = Row(u)
  /\ Goto(u, "edit")
  /\ UNCHANGED <<orderVars, base, seen, txVars, known>>

\* Thirty minutes pass.
Expire ==
  /\ Live
  /\ lock' = [lock EXCEPT !.live = FALSE]
  /\ UNCHANGED <<orderVars, pc, base, seen, txVars, known>>

\* unlockOrder with force.
ForceUnlock ==
  /\ lock # NoLock
  /\ lock' = NoLock
  /\ UNCHANGED <<orderVars, pc, base, seen, txVars, known>>

\* The page is left.  Its request to release the lock may never arrive.
Leave(u) ==
  /\ pc[u] = "edit"
  /\ base' = [base EXCEPT ![u] = NoVersion]
  /\ \E place \in {"look", "idle"} : Goto(u, place)
  /\ UNCHANGED <<orderVars, lock, seen, txVars, known>>

Back(u) == IF base[u] = NoVersion THEN "idle" ELSE "edit"

\* unlockOrder, of the page or of a save: the row is read, and deleted by the
\* order's id.  What it throws is ignored.
Look(u) ==
  /\ pc[u] = "look"
  /\ Goto(u, IF lock # NoLock /\ Mine(u) THEN "unlock" ELSE Back(u))
  /\ UNCHANGED <<orderVars, lock, base, seen, txVars, known>>

Unlock(u) ==
  /\ pc[u] = "unlock"
  /\ lock' = NoLock
  /\ Goto(u, Back(u))
  /\ UNCHANGED <<orderVars, base, seen, txVars, known>>

-----------------------------------------------------------------------------
(* The save.                                                               *)

\* updateOrder reads the order.
Save(u) ==
  /\ pc[u] = "edit"
  /\ seen' = [seen EXCEPT ![u] = version]
  /\ Goto(u, "check")
  /\ UNCHANGED <<orderVars, lock, base, txVars, known>>

Unchanged_Unchecked(u) == TRUE

\* The optimistic check, of what was read against what the page loaded.
Unchanged(u) == seen[u] = base[u]

Compared(u) == IF Unchanged(u) THEN "pieces" ELSE "edit"

\* checkOrderLock, which only another user's live lock stops.
Check(u) ==
  /\ pc[u] = "check"
  /\ Goto(u, IF Taken(u) THEN "edit"
             ELSE IF lock # NoLock /\ ~Live THEN "drop" ELSE Compared(u))
  /\ UNCHANGED <<orderVars, lock, base, seen, txVars, known>>

\* It deletes an expired lock by the order's id; without a row it throws.
Drop(u) ==
  /\ pc[u] = "drop"
  /\ lock' = NoLock
  /\ Goto(u, IF lock = NoLock THEN "edit" ELSE Compared(u))
  /\ UNCHANGED <<orderVars, base, seen, txVars, known>>

\* A DELETE sees the rows committed when it starts, waits for the
\* transactions that have deleted some of them, and deletes what is left.
SeePieces(u) ==
  /\ pc[u] = "pieces"
  /\ cut' = [cut EXCEPT ![u] = pieces]
  /\ Goto(u, "hold")
  /\ UNCHANGED <<orderVars, lock, base, seen, hold, gone, known>>

DeletePieces(u) ==
  /\ pc[u] = "hold"
  /\ \A w \in Users \ {u} : hold[w] \cap cut[u] = {}
  /\ hold' = [hold EXCEPT ![u] = cut[u] \cap pieces]
  /\ Goto(u, "items")
  /\ UNCHANGED <<orderVars, lock, base, seen, cut, gone, known>>

ItemsSeen_Early(u) == cut[u]

\* The items the second DELETE sees when it starts.
ItemsSeen(u) == items

SeeItems(u) ==
  /\ pc[u] = "items"
  /\ cut' = [cut EXCEPT ![u] = ItemsSeen(u)]
  /\ Goto(u, "restrict")
  /\ UNCHANGED <<orderVars, lock, base, seen, hold, gone, known>>

Left(u) == cut[u] \cap items

\* The foreign key of pieces is ON DELETE RESTRICT: items whose pieces are
\* still there cannot go.
DeleteItems(u) ==
  /\ pc[u] = "restrict"
  /\ \A w \in Users \ {u} : (hold[w] \cup gone[w]) \cap cut[u] = {}
  /\ Left(u) \cap pieces \subseteq hold[u]
  /\ gone' = [gone EXCEPT ![u] = Left(u)]
  /\ Goto(u, "commit")
  /\ UNCHANGED <<orderVars, lock, base, seen, cut, hold, known>>

Ended(u) == /\ cut'  = [cut EXCEPT ![u] = {}]
            /\ hold' = [hold EXCEPT ![u] = {}]
            /\ gone' = [gone EXCEPT ![u] = {}]

\* The new rows, the UPDATE of the order, and the COMMIT.
Commit(u) ==
  LET v == version + 1 IN
  /\ pc[u] = "commit" /\ v <= MaxSaves
  /\ version' = v
  /\ items'   = (items \ gone[u]) \cup {v}
  /\ pieces'  = (pieces \ hold[u]) \cup {v}
  /\ saves'   = saves \cup {[at |-> v, on |-> base[u], by |-> u,
                             knew |-> version \in known[u]]}
  /\ known'   = [w \in Users |-> IF pc[w] \in InSave THEN known[w] \cup {v} ELSE known[w]]
  /\ Ended(u)
  /\ Goto(u, "reread")
  /\ UNCHANGED <<lock, base, seen>>

\* The order is read again after the commit, and its updated_at is what the
\* page expects from now on.  Then the save unlocks.
Reread(u) ==
  /\ pc[u] = "reread"
  /\ base' = [base EXCEPT ![u] = version]
  /\ Goto(u, "look")
  /\ UNCHANGED <<orderVars, lock, seen, txVars, known>>

\* The save fails, before the commit or, writing the audit entry, after it.
\* Either way the page stays open as it was.
Fail(u) ==
  /\ pc[u] \in InTx \cup {"reread"}
  /\ Ended(u)
  /\ Goto(u, "edit")
  /\ UNCHANGED <<orderVars, lock, base, seen, known>>

-----------------------------------------------------------------------------
Next ==
  \/ \E u \in Users :
       \/ Load(u) \/ Ask(u) \/ Refresh(u) \/ Take(u) \/ Leave(u) \/ Look(u) \/ Unlock(u)
       \/ Save(u) \/ Check(u) \/ Drop(u) \/ SeePieces(u) \/ DeletePieces(u)
       \/ SeeItems(u) \/ DeleteItems(u) \/ Commit(u) \/ Reread(u) \/ Fail(u)
  \/ Expire \/ ForceUnlock

Spec == Init /\ [][Next]_vars

-----------------------------------------------------------------------------
\* A save overwrites nothing its author had no part in: what it replaces was
\* loaded by them, saved by them, or saved while a save of theirs was
\* running.  So whatever becomes of the lock, which expires, is taken twice
\* and is deleted by others, two people who do not save at the same moment
\* never undo each other's work.
LostOnlyInOverlap == \A s \in saves : s.knew

\* Of two saves at the same moment the order keeps one: their items and
\* pieces never mix, if the order had some to begin with.  The second DELETE
\* and RESTRICT do that; it is said of the first two saves, because a third
\* one that commits while the second waits does mix with it.
TwoSavesDontMix ==
  (Opening # {} /\ version <= 2) => items = {version} /\ pieces = {version}

\* Nobody's save is undone by one that was made without knowledge of it.
NoLostSave == \A s \in saves : s.on = s.at - 1
=============================================================================
