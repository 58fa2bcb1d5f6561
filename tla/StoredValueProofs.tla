------------------------- MODULE StoredValueProofs -------------------------
(***************************************************************************)
(* Proofs about stored value, for any number of balances, ledger rows,     *)
(* applications, orders and concurrent transactions.                       *)
(***************************************************************************)
EXTENDS StoredValue, TotalTheorems, TLAPS

\* A transaction works on legs of its own kind, and on none between two.
LegInv ==
  \A c \in Calls :
    /\ todo[c] \subseteq Apps \cup Credits
    /\ pc[c] \in {"idle", "next"} <=> leg[c] = NoEntry
    /\ pc[c] = "idle" => done[c] = {} /\ flipped[c] = {}
    /\ task[c] # "cancel" => flipped[c] = {}
    /\ task[c] = "cancel" => leg[c] \notin Apps /\ done[c] \cap Apps = {}
    /\ task[c] = "cancel" => todo[c] \subseteq Apps

\* A cancellation holds the row of each application it flipped, which stays
\* APPLIED, and gives back the value of these applications and no others.
FlipInv ==
  \A c \in Calls, x \in Apps :
    /\ x \in flipped[c] => lock[x] = c /\ app[x] = "APPLIED"
    /\ Undo[x] # NoEntry =>
         (x \in flipped[c] <=> Undo[x] \in done[c] \/ Undo[x] = leg[c])

IInv == TypeOK /\ LegInv /\ FlipInv /\ AppsMatchLedger

-----------------------------------------------------------------------------

\* A customer who has bought nothing yet satisfies the invariant.
LEMMA InitIInv == Init => IInv
  BY AccountAssumption, EntryAssumption, AppAssumption, CallAssumption
     DEF Init, IInv, TypeOK, LegInv, FlipInv, AppsMatchLedger, Missing

\* A commit posts an application's row when it becomes APPLIED and the row
\* that gives its value back when it becomes REVERSED.
LEMMA CommitRows ==
  ASSUME IInv, NEW c \in Calls, Commit(c)
  PROVE  AppsMatchLedger'
<1> SUFFICES ASSUME NEW x \in Apps
             PROVE  /\ posted'[x] = (IF app'[x] = "none" THEN 0 ELSE 1)
                    /\ Undo[x] # NoEntry =>
                         posted'[Undo[x]] = (IF app'[x] = "REVERSED" THEN 1 ELSE 0)
  BY DEF AppsMatchLedger
<1> USE AppAssumption, EntryAssumption
<1>1. /\ x \in Entries \ Restores
      /\ Undo[x] # NoEntry => Undo[x] \in Restores \cap Entries
  BY DEF Restores
<1>2. /\ app'[x] = IF x \in flipped[c] THEN "REVERSED"
                   ELSE IF x \in done[c] THEN "APPLIED" ELSE app[x]
      /\ \A e \in Entries : posted'[e] = IF e \in done[c] THEN posted[e] + 1 ELSE posted[e]
  BY DEF Commit
<1>3. x \in done[c] => posted[x] = 0
  BY <1>1 DEF Commit, Unique, NewKey
<1>4. x \in flipped[c] => app[x] = "APPLIED" /\ x \notin done[c]
  BY <1>3 DEF IInv, FlipInv, AppsMatchLedger
<1>5. Undo[x] # NoEntry => (Undo[x] \in done[c] <=> x \in flipped[c])
  BY DEF IInv, FlipInv, LegInv, Commit
<1>6. posted'[x] = (IF app'[x] = "none" THEN 0 ELSE 1)
  BY <1>1, <1>2, <1>3, <1>4 DEF IInv, AppsMatchLedger, TypeOK
<1>7. ASSUME Undo[x] # NoEntry
      PROVE  posted'[Undo[x]] = (IF app'[x] = "REVERSED" THEN 1 ELSE 0)
  BY <1>1, <1>2, <1>3, <1>4, <1>5, <1>7 DEF IInv, AppsMatchLedger, TypeOK
<1> QED
  BY <1>6, <1>7

\* Each action preserves each part of the invariant.
LEMMA StepIInv == IInv /\ [Next]_vars => IInv'
<1> SUFFICES ASSUME IInv, [Next]_vars PROVE IInv'
  OBVIOUS
<1> USE AccountAssumption, EntryAssumption, AppAssumption, SignAssumption, CallAssumption
        DEF IInv, tableVars, callVars
<1>1. ASSUME NEW c \in Calls, NEW X \in Requests, spend(c, X)
      PROVE  IInv'
  <2>1. TypeOK'
    BY <1>1 DEF spend, Begin, TypeOK, Rows, Orders, Missing
  <2>2. LegInv'
    BY <1>1 DEF spend, Begin, TypeOK, LegInv, Restores, Orders
  <2>3. FlipInv'
    BY <1>1 DEF spend, Begin, TypeOK, LegInv, FlipInv, AppsMatchLedger, Restores, Rows, Orders
  <2>4. AppsMatchLedger'
    BY <1>1 DEF spend, Begin, AppsMatchLedger
  <2> QED
    BY <2>1, <2>2, <2>3, <2>4
<1>2. ASSUME NEW c \in Calls, NEW e \in Credits, credit(c, e)
      PROVE  IInv'
  <2>1. TypeOK'
    BY <1>2 DEF credit, Begin, TypeOK, Rows, Orders, Missing
  <2>2. LegInv'
    BY <1>2 DEF credit, Begin, TypeOK, LegInv, Restores, Orders
  <2>3. FlipInv'
    BY <1>2 DEF credit, Begin, TypeOK, LegInv, FlipInv, AppsMatchLedger, Restores, Rows, Orders
  <2>4. AppsMatchLedger'
    BY <1>2 DEF credit, Begin, AppsMatchLedger
  <2> QED
    BY <2>1, <2>2, <2>3, <2>4
<1>3. ASSUME NEW c \in Calls, NEW o \in Orders, cancel(c, o)
      PROVE  IInv'
  <2>1. TypeOK'
    BY <1>3 DEF cancel, Begin, TypeOK, Rows, Orders, Missing
  <2>2. LegInv'
    BY <1>3 DEF cancel, Begin, TypeOK, LegInv, Restores, Orders
  <2>3. FlipInv'
    BY <1>3 DEF cancel, Begin, TypeOK, LegInv, FlipInv, AppsMatchLedger, Restores, Rows, Orders
  <2>4. AppsMatchLedger'
    BY <1>3 DEF cancel, Begin, AppsMatchLedger
  <2> QED
    BY <2>1, <2>2, <2>3, <2>4
<1>4. ASSUME NEW c \in Calls, NEW x \in Apps, Flip(c, x)
      PROVE  IInv'
  <2>1. CASE app[x] = "APPLIED"
    <3>1. /\ x \in Rows /\ Undo[x] \in Entries \cup {NoEntry}
          /\ Undo[x] \notin Apps
      BY DEF Rows, Restores
    <3>2. /\ task[c] = "cancel" /\ leg[c] = NoEntry /\ lock[x] \in {NoCall, c}
          /\ lock' = [lock EXCEPT ![x] = c]
          /\ flipped' = [flipped EXCEPT ![c] = @ \cup {x}]
          /\ leg' = [leg EXCEPT ![c] = Undo[x]]
          /\ pc'  = [pc EXCEPT ![c] = IF Undo[x] = NoEntry THEN "next" ELSE "lookup"]
          /\ todo' = [todo EXCEPT ![c] = @ \ {x}]
          /\ UNCHANGED <<tableVars, task, seen, draft, done>>
      BY <1>4, <2>1 DEF Flip, Free, StillApplied, Lock, LegInv
    <3>3. TypeOK'
      BY <3>1, <3>2 DEF TypeOK
    <3>4. LegInv'
      BY <3>1, <3>2 DEF TypeOK, LegInv
    <3>5. FlipInv'
      <4>1. \A d \in Calls, y \in Apps : y \in flipped'[d] => lock'[y] = d /\ app'[y] = "APPLIED"
        BY <2>1, <3>1, <3>2 DEF TypeOK, FlipInv
      <4>2. \A d \in Calls, y \in Apps : Undo[y] # NoEntry =>
              (y \in flipped'[d] <=> Undo[y] \in done'[d] \/ Undo[y] = leg'[d])
        BY <3>1, <3>2 DEF TypeOK, FlipInv
      <4> QED
        BY <4>1, <4>2 DEF FlipInv
    <3> QED
      BY <3>2, <3>3, <3>4, <3>5 DEF AppsMatchLedger
  <2>2. CASE app[x] # "APPLIED"
    <3>1. /\ todo' = [todo EXCEPT ![c] = @ \ {x}]
          /\ UNCHANGED <<tableVars, lock, pc, task, leg, seen, draft, done, flipped>>
      BY <1>4, <2>2 DEF Flip, StillApplied
    <3> QED
      BY <3>1 DEF TypeOK, LegInv, FlipInv, AppsMatchLedger
  <2> QED
    BY <2>1, <2>2
<1>5. ASSUME NEW c \in Calls, NEW e \in Entries, Choose(c, e)
      PROVE  IInv'
  <2>1. TypeOK'
    BY <1>5 DEF Choose, TypeOK, Rows, Orders, Missing
  <2>2. LegInv'
    BY <1>5 DEF Choose, TypeOK, LegInv, Restores, Orders
  <2>3. FlipInv'
    BY <1>5 DEF Choose, TypeOK, LegInv, FlipInv, AppsMatchLedger, Restores, Rows, Orders
  <2>4. AppsMatchLedger'
    BY <1>5 DEF Choose, AppsMatchLedger
  <2> QED
    BY <2>1, <2>2, <2>3, <2>4
<1>6. ASSUME NEW c \in Calls, Lookup(c)
      PROVE  IInv'
  <2>1. TypeOK'
    <3>1. leg[c] \in Entries
      BY <1>6 DEF Lookup, LegInv, TypeOK
    <3>2. Current(c, Account[leg[c]]) \in Nat \cup {Missing}
      BY <3>1 DEF Current, TypeOK
    <3> QED
      BY <1>6, <3>2 DEF Lookup, TypeOK
  <2>2. LegInv'
    BY <1>6 DEF Lookup, Current, TypeOK, LegInv, Restores, Orders
  <2>3. FlipInv'
    BY <1>6 DEF Lookup, Current, TypeOK, LegInv, FlipInv, AppsMatchLedger, Restores, Rows, Orders
  <2>4. AppsMatchLedger'
    BY <1>6 DEF Lookup, Current, AppsMatchLedger
  <2> QED
    BY <2>1, <2>2, <2>3, <2>4
<1>7. ASSUME NEW c \in Calls, Replay(c)
      PROVE  IInv'
  <2>1. TypeOK'
    BY <1>7 DEF Replay, NewKey, TypeOK, Rows, Orders, Missing
  <2>2. LegInv'
    BY <1>7 DEF Replay, NewKey, TypeOK, LegInv, Restores, Orders
  <2>3. FlipInv'
    BY <1>7 DEF Replay, NewKey, TypeOK, LegInv, FlipInv, AppsMatchLedger, Restores, Rows, Orders
  <2>4. AppsMatchLedger'
    BY <1>7 DEF Replay, NewKey, AppsMatchLedger
  <2> QED
    BY <2>1, <2>2, <2>3, <2>4
<1>8. ASSUME NEW c \in Calls, Redeem(c)
      PROVE  IInv'
  <2>1. TypeOK'
    BY <1>8 DEF Redeem, Suffices, Redeemed, Write, Lock, Current, TypeOK, Rows, Orders, Missing
  <2>2. LegInv'
    BY <1>8 DEF Redeem, Suffices, Redeemed, Write, Lock, Current, TypeOK, LegInv, Restores, Orders
  <2>3. FlipInv'
    BY <1>8 DEF Redeem, Suffices, Redeemed, Write, Lock, Current, TypeOK, LegInv, FlipInv, AppsMatchLedger, Restores, Rows, Orders
  <2>4. AppsMatchLedger'
    BY <1>8 DEF Redeem, Suffices, Redeemed, Write, Lock, Current, AppsMatchLedger
  <2> QED
    BY <2>1, <2>2, <2>3, <2>4
<1>9. ASSUME NEW c \in Calls, Credit(c)
      PROVE  IInv'
  <2>1. TypeOK'
    BY <1>9 DEF Credit, Credited, Write, Lock, Current, TypeOK, Rows, Orders, Missing
  <2>2. LegInv'
    BY <1>9 DEF Credit, Credited, Write, Lock, Current, TypeOK, LegInv, Restores, Orders
  <2>3. FlipInv'
    BY <1>9 DEF Credit, Credited, Write, Lock, Current, TypeOK, LegInv, FlipInv, AppsMatchLedger, Restores, Rows, Orders
  <2>4. AppsMatchLedger'
    BY <1>9 DEF Credit, Credited, Write, Lock, Current, AppsMatchLedger
  <2> QED
    BY <2>1, <2>2, <2>3, <2>4
<1>10. ASSUME NEW c \in Calls, Commit(c)
      PROVE  IInv'
  <2>1. TypeOK'
    BY <1>10 DEF Commit, Leave, Current, TypeOK, Rows, Orders, Missing
  <2>2. LegInv'
    BY <1>10 DEF Commit, Leave, TypeOK, LegInv
  <2>3. FlipInv'
    BY <1>10 DEF Commit, Leave, Unique, NewKey, TypeOK, LegInv, FlipInv, AppsMatchLedger, Restores, Rows
  <2>4. AppsMatchLedger'
    BY <1>10, CommitRows
  <2> QED
    BY <2>1, <2>2, <2>3, <2>4
<1>11. ASSUME NEW c \in Calls, Rollback(c)
      PROVE  IInv'
  <2>1. TypeOK'
    BY <1>11 DEF Rollback, Leave, TypeOK, Rows, Orders, Missing
  <2>2. LegInv'
    BY <1>11 DEF Rollback, Leave, TypeOK, LegInv, Restores, Orders
  <2>3. FlipInv'
    BY <1>11 DEF Rollback, Leave, TypeOK, LegInv, FlipInv, AppsMatchLedger, Restores, Rows, Orders
  <2>4. AppsMatchLedger'
    BY <1>11 DEF Rollback, Leave, AppsMatchLedger
  <2> QED
    BY <2>1, <2>2, <2>3, <2>4
<1>12. CASE UNCHANGED vars
  BY <1>12 DEF vars, TypeOK, LegInv, FlipInv, AppsMatchLedger
<1> QED
  BY <1>1, <1>2, <1>3, <1>4, <1>5, <1>6, <1>7, <1>8, <1>9, <1>10, <1>11, <1>12 DEF Next

\* Hence every reachable state satisfies the invariant.
THEOREM Invariance == Spec => []IInv
  BY InitIInv, StepIInv, PTL DEF Spec

\* The type invariant; in particular no balance falls below zero.
THEOREM TypeCorrect == Spec => []TypeOK
<1>1. IInv => TypeOK
  BY DEF IInv
<1> QED
  BY <1>1, Invariance, PTL

\* An application's row tells what was posted: its value was taken once, and
\* given back once if the application is REVERSED.
THEOREM RowsTell == Spec => []AppsMatchLedger
<1>1. IInv => AppsMatchLedger
  BY DEF IInv
<1> QED
  BY <1>1, Invariance, PTL

-----------------------------------------------------------------------------

\* Under the invariant an application's status is its value in the promise.
LEMMA ValueOfStatus ==
  ASSUME AppsMatchLedger, NEW x \in Apps
  PROVE  /\ app[x] = "none" => valueOf[x] = "owed"
         /\ app[x] # "none" /\ Undo[x] = NoEntry => valueOf[x] = "taken"
         /\ app[x] = "APPLIED" => valueOf[x] = "taken"
         /\ app[x] = "REVERSED" /\ Undo[x] # NoEntry => valueOf[x] = "returned"
  BY DEF AppsMatchLedger, valueOf

\* The commit of a cancellation returns values; any other commit takes them.
LEMMA CommitRefines ==
  ASSUME IInv, IInv', NEW c \in Calls, Commit(c)
  PROVE  [Promise!Next]_valueOf
<1>1. /\ \A x \in Apps : app'[x] = IF x \in flipped[c] THEN "REVERSED"
                                   ELSE IF x \in done[c] THEN "APPLIED" ELSE app[x]
      /\ \A x \in Apps \cap done[c] : posted[x] = 0
  BY AppAssumption, EntryAssumption DEF Commit, Unique, NewKey
<1>2. AppsMatchLedger /\ AppsMatchLedger'
  BY DEF IInv
<1>3. /\ DOMAIN valueOf = Apps /\ valueOf = [x \in Apps |-> valueOf[x]]
      /\ valueOf' = [x \in Apps |-> valueOf'[x]]
  BY DEF valueOf
<1>4. ASSUME NEW x \in Apps, x \notin flipped[c], x \notin done[c]
      PROVE  valueOf'[x] = valueOf[x]
  <2>1. posted'[x] = posted[x] /\ (Undo[x] # NoEntry => posted'[Undo[x]] = posted[Undo[x]])
    BY <1>1, <1>2, <1>4 DEF AppsMatchLedger
  <2> QED
    BY <2>1 DEF valueOf
<1>5. CASE task[c] = "cancel"
  <2> DEFINE X == {x \in flipped[c] : Undo[x] # NoEntry}
  <2>1. /\ flipped[c] \subseteq Apps /\ done[c] \cap Apps = {}
        /\ \A x \in flipped[c] : app[x] = "APPLIED" /\ app'[x] = "REVERSED"
    BY <1>1, <1>5 DEF IInv, LegInv, FlipInv, TypeOK
  <2>2. \A x \in X : valueOf[x] = "taken" /\ valueOf'[x] = "returned"
    <3> SUFFICES ASSUME NEW x \in X
                 PROVE  valueOf[x] = "taken" /\ valueOf'[x] = "returned"
      OBVIOUS
    <3>1. x \in Apps /\ Undo[x] # NoEntry
      BY <2>1
    <3>2. posted[x] = 1 /\ posted[Undo[x]] = 0 /\ posted'[x] = 1 /\ posted'[Undo[x]] = 1
      BY <1>2, <2>1, <3>1 DEF AppsMatchLedger
    <3> QED
      BY <3>1, <3>2 DEF valueOf
  <2>3. \A x \in Apps \ X : valueOf'[x] = valueOf[x]
    <3> SUFFICES ASSUME NEW x \in Apps \ X
                 PROVE  valueOf'[x] = valueOf[x]
      OBVIOUS
    <3>1. CASE x \in flipped[c]
      <4>1. Undo[x] = NoEntry
        BY <3>1
      <4>2. posted[x] = 1 /\ posted'[x] = 1
        BY <1>2, <2>1, <3>1 DEF AppsMatchLedger
      <4> QED
        BY <4>1, <4>2 DEF valueOf
    <3> QED
      BY <1>4, <2>1, <3>1
  <2>4. valueOf' = [x \in Apps |-> IF x \in X THEN "returned" ELSE valueOf[x]]
    BY <1>3, <2>1, <2>2, <2>3
  <2>5. X \in SUBSET Apps /\ Promise!Return(X)
    BY <2>1, <2>2, <2>4 DEF Promise!Return, Promise!Move
  <2> QED
    BY <2>5 DEF Promise!Next
<1>6. CASE task[c] # "cancel"
  <2> DEFINE X == done[c] \cap Apps
  <2>1. flipped[c] = {} /\ \A x \in X : app[x] = "none" /\ app'[x] = "APPLIED"
    BY <1>1, <1>2, <1>6 DEF IInv, LegInv, AppsMatchLedger
  <2>2. \A x \in X : valueOf[x] = "owed" /\ valueOf'[x] = "taken"
    <3> SUFFICES ASSUME NEW x \in X
                 PROVE  valueOf[x] = "owed" /\ valueOf'[x] = "taken"
      OBVIOUS
    <3>1. /\ posted[x] = 0 /\ posted'[x] = 1
          /\ Undo[x] # NoEntry => posted[Undo[x]] = 0 /\ posted'[Undo[x]] = 0
      BY <1>2, <2>1 DEF AppsMatchLedger
    <3> QED
      BY <3>1 DEF valueOf
  <2>3. \A x \in Apps \ X : valueOf'[x] = valueOf[x]
    BY <1>4, <2>1
  <2>4. valueOf' = [x \in Apps |-> IF x \in X THEN "taken" ELSE valueOf[x]]
    BY <1>3, <2>2, <2>3
  <2>5. X \in SUBSET Apps /\ Promise!Take(X)
    BY <2>2, <2>4 DEF Promise!Take, Promise!Move
  <2> QED
    BY <2>5 DEF Promise!Next
<1> QED
  BY <1>5, <1>6

\* Only a commit moves value.
LEMMA StepRefines == IInv /\ IInv' /\ [Next]_vars => [Promise!Next]_valueOf
<1> SUFFICES ASSUME IInv, IInv', [Next]_vars PROVE [Promise!Next]_valueOf
  OBVIOUS
<1>1. CASE \E c \in Calls : Commit(c)
  BY <1>1, CommitRefines
<1>2. CASE ~\E c \in Calls : Commit(c)
  <2>1. posted' = posted
    BY <1>2 DEF Next, vars, tableVars, spend, credit, cancel, Begin, Flip, Choose, Lookup,
                Replay, Redeem, Credit, Write, Rollback
  <2> QED
    BY <2>1 DEF valueOf
<1> QED
  BY <1>1, <1>2

\* Whatever overlaps, the value of an application is taken once and given back
\* at most once, afterwards.
THEOREM Refinement == Spec => RefinesPromise
<1>1. Init => Promise!Init
  BY AppAssumption DEF Init, Promise!Init, valueOf
<1> QED
  BY <1>1, Invariance, StepRefines, PTL DEF Spec, RefinesPromise, Promise!Spec

-----------------------------------------------------------------------------
(* Balances equal their ledgers                                            *)

\* The rows that a transaction has written for a balance and not committed.
Part(c, a) == {e \in done[c] : Account[e] = a}

\* A transaction writes each row once.
FreshInv ==
  \A c \in Calls :
    /\ leg[c] \notin done[c] \cup todo[c]
    /\ todo[c] \cap (done[c] \cup flipped[c]) = {}

\* A transaction holds the balance of every row it wrote, and what it will
\* publish of the balances B is the committed one and the rows it adds.
HoldInv(B) ==
  \A c \in Calls :
    /\ \A e \in done[c] : lock[Account[e]] = c
    /\ \A a \in Accounts :
         lock[a] = c /\ a \in B =>
           draft[c][a] = Held(a) + SumOver(Amount, Part(c, a))

\* A balance that exists does not go: one that a credit found is still there
\* when it increments it.
ThereInv ==
  /\ \A a \in Accounts : Opening[a] # Missing => balance[a] # Missing
  /\ \A c \in Calls :
       pc[c] = "write" /\ leg[c] \notin Apps /\ seen[c] # Missing =>
         Current(c, Account[leg[c]]) # Missing

\* The balances in B, all those of money or all there are.
Balanced(B) == \A a \in B : Held(a) = Start(a) + LedgerSum(a)

MoneyInv(B) == FreshInv /\ HoldInv(B) /\ ThereInv /\ Balanced(B)

\* A transaction that is about to write points back still reads what it read.
Steady(B) ==
  \A c \in Calls :
    /\ pc[c] = "write" /\ leg[c] \in Entries \ Apps /\ seen[c] # Missing
    /\ Account[leg[c]] \in B /\ Kind[Account[leg[c]]] = "LOYALTY_POINTS"
    => seen[c] = Current(c, Account[leg[c]])

\* A customer who has bought nothing yet satisfies it.
LEMMA InitMoney ==
  ASSUME Init, NEW B \in SUBSET Accounts
  PROVE  MoneyInv(B)
<1>1. FreshInv /\ HoldInv(B) /\ ThereInv
  BY EntryAssumption, CallAssumption DEF Init, FreshInv, HoldInv, ThereInv, Rows
<1>2. ASSUME NEW a \in Accounts
      PROVE  Held(a) = Start(a) + LedgerSum(a)
  <2>1. IsFiniteSet(EntriesOf(a)) /\ EntriesOf(a) \subseteq Entries
    <3>1. EntriesOf(a) \in SUBSET Entries
      BY DEF EntriesOf
    <3> QED
      BY <3>1, EntryAssumption, FS_Subset
  <2> DEFINE nought == [e \in Entries |-> 0]
  <2>2. \A e \in EntriesOf(a) : Moved[e] = nought[e] /\ nought[e] = nought[e] + nought[e]
                                /\ nought[e] \in Int
    BY <2>1, EntryAssumption DEF Init, Moved
  <2> HIDE DEF nought
  <2>3. LedgerSum(a) = SumOver(nought, EntriesOf(a))
    BY <2>1, <2>2, SumEqual DEF LedgerSum
  <2>4. SumOver(nought, EntriesOf(a)) = SumOver(nought, EntriesOf(a)) + SumOver(nought, EntriesOf(a))
    BY <2>1, <2>2, SumPlus
  <2>5. SumOver(nought, EntriesOf(a)) \in Int
    BY <2>1, <2>2, SumInt
  <2>6. \A n \in Int : n = n + n => n = 0
    OBVIOUS
  <2>7. LedgerSum(a) = 0
    BY <2>3, <2>4, <2>5, <2>6, Zenon
  <2> QED
    BY <2>7, AccountAssumption DEF Init, Held, Start, Missing
<1> QED
  BY <1>1, <1>2 DEF MoneyInv, Balanced

\* No action writes a row twice.
LEMMA StepFresh == IInv /\ FreshInv /\ [Next]_vars => FreshInv'
<1> SUFFICES ASSUME IInv, FreshInv, [Next]_vars PROVE FreshInv'
  OBVIOUS
<1> USE EntryAssumption, AppAssumption DEF IInv
<1>1. ASSUME NEW c \in Calls, NEW t, NEW X \in SUBSET Entries, Begin(c, t, X)
      PROVE  FreshInv'
  <2>1. leg[c] = NoEntry /\ done[c] = {} /\ flipped[c] = {} /\ NoEntry \notin X
    BY <1>1 DEF Begin, LegInv
  <2>2. todo' = [todo EXCEPT ![c] = X] /\ UNCHANGED <<leg, done, flipped>>
    BY <1>1 DEF Begin
  <2> QED
    BY <2>1, <2>2 DEF FreshInv, TypeOK
<1>2. ASSUME NEW c \in Calls, NEW x \in Apps, Flip(c, x)
      PROVE  FreshInv'
  <2>1. /\ x \in todo[c] /\ leg[c] = NoEntry /\ done' = done /\ Undo[x] \notin Apps
        /\ todo' = [todo EXCEPT ![c] = @ \ {x}] /\ todo[c] \subseteq Apps
    BY <1>2 DEF Flip, LegInv, tableVars, Restores
  <2>2. CASE app[x] = "APPLIED"
    <3>1. /\ flipped' = [flipped EXCEPT ![c] = @ \cup {x}]
          /\ leg' = [leg EXCEPT ![c] = Undo[x]]
      BY <1>2, <2>2 DEF Flip, StillApplied
    <3>2. Undo[x] \notin done[c]
      BY <2>1 DEF FreshInv, FlipInv, TypeOK
    <3> QED
      BY <2>1, <3>1, <3>2 DEF FreshInv, TypeOK
  <2>3. CASE app[x] # "APPLIED"
    <3>1. flipped' = flipped /\ leg' = leg
      BY <1>2, <2>3 DEF Flip, StillApplied
    <3> QED
      BY <2>1, <3>1 DEF FreshInv, TypeOK
  <2> QED
    BY <2>2, <2>3
<1>3. ASSUME NEW c \in Calls, NEW e \in Entries, Choose(c, e)
      PROVE  FreshInv'
  BY <1>3 DEF Choose, FreshInv, TypeOK, LegInv
<1>4. ASSUME NEW c \in Calls, Lookup(c)
      PROVE  FreshInv'
  BY <1>4 DEF Lookup, FreshInv
<1>5. ASSUME NEW c \in Calls, Replay(c)
      PROVE  FreshInv'
  BY <1>5 DEF Replay, FreshInv, TypeOK
<1>6. ASSUME NEW c \in Calls, NEW new, Write(c, new)
      PROVE  FreshInv'
  <2>1. leg[c] \in Entries
    BY <1>6 DEF Write, LegInv, TypeOK
  <2>2. /\ done' = [done EXCEPT ![c] = @ \cup {leg[c]}]
        /\ leg' = [leg EXCEPT ![c] = NoEntry]
        /\ UNCHANGED <<todo, flipped>>
    BY <1>6 DEF Write
  <2>3. flipped[c] \cap todo[c] = {} /\ leg[c] \notin todo[c] /\ todo[c] \cap done[c] = {}
    BY DEF FreshInv
  <2> QED
    BY <2>1, <2>2, <2>3 DEF FreshInv, TypeOK
<1>7. ASSUME NEW c \in Calls, Leave(c)
      PROVE  FreshInv'
  BY <1>7 DEF Leave, FreshInv, TypeOK
<1>8. CASE UNCHANGED vars
  BY <1>8 DEF vars, FreshInv
<1>9. ASSUME NEW c \in Calls,
             \/ \E X \in Requests : spend(c, X)
             \/ \E e \in Credits : credit(c, e)
             \/ \E o \in Orders : cancel(c, o)
      PROVE  FreshInv'
  <2>1. ASSUME NEW X \in Requests, spend(c, X) PROVE FreshInv'
    BY <1>1, <2>1 DEF spend
  <2>2. ASSUME NEW e \in Credits, credit(c, e) PROVE FreshInv'
    BY <1>1, <2>2 DEF credit
  <2>3. ASSUME NEW o \in Orders, cancel(c, o) PROVE FreshInv'
    BY <1>1, <2>3 DEF cancel
  <2> QED
    BY <1>9, <2>1, <2>2, <2>3
<1>10. ASSUME NEW c \in Calls, Redeem(c) \/ Credit(c)
       PROVE  FreshInv'
  BY <1>6, <1>10 DEF Redeem, Credit
<1>11. ASSUME NEW c \in Calls, Commit(c) \/ Rollback(c)
       PROVE  FreshInv'
  BY <1>7, <1>11 DEF Commit, Rollback
<1> QED
  BY <1>2, <1>3, <1>4, <1>5, <1>8, <1>9, <1>10, <1>11 DEF Next

\* The sums over the entries of a balance are integers.
LEMMA PartFacts ==
  ASSUME TypeOK, NEW c \in Calls, NEW a \in Accounts
  PROVE  /\ IsFiniteSet(EntriesOf(a)) /\ EntriesOf(a) \subseteq Entries
         /\ IsFiniteSet(Part(c, a)) /\ Part(c, a) \in SUBSET EntriesOf(a)
         /\ \A e \in Entries : Amount[e] \in Int /\ Moved[e] = posted[e] * Amount[e]
                               /\ Moved[e] \in Int
         /\ SumOver(Amount, Part(c, a)) \in Int /\ LedgerSum(a) \in Int
<1>1. EntriesOf(a) \in SUBSET Entries /\ Part(c, a) \in SUBSET Entries
      /\ Part(c, a) \in SUBSET EntriesOf(a)
  BY DEF EntriesOf, Part, TypeOK
<1>2. IsFiniteSet(EntriesOf(a)) /\ IsFiniteSet(Part(c, a))
  BY <1>1, EntryAssumption, FS_Subset
<1>3. \A e \in Entries : Amount[e] \in Int /\ Moved[e] = posted[e] * Amount[e] /\ Moved[e] \in Int
  <2> SUFFICES ASSUME NEW e \in Entries
               PROVE  Amount[e] \in Int /\ Moved[e] = posted[e] * Amount[e] /\ Moved[e] \in Int
    OBVIOUS
  <2>1. Amount[e] \in Int /\ posted[e] \in Int
    BY EntryAssumption DEF TypeOK
  <2>2. Moved[e] = posted[e] * Amount[e]
    BY DEF Moved
  <2>3. \A p, q \in Int : p * q \in Int
    OBVIOUS
  <2> QED
    BY <2>1, <2>2, <2>3
<1>4. SumOver(Amount, Part(c, a)) \in Int
  BY <1>1, <1>2, <1>3, SumInt
<1>5. LedgerSum(a) \in Int
  BY <1>1, <1>2, <1>3, SumInt DEF LedgerSum
<1> QED
  BY <1>1, <1>2, <1>3, <1>4, <1>5

\* What gives the value of applications in A back to one of the entries E.
Back(A, E) == {u \in E \cap Restores : \E x \in A : Undo[x] = u}

\* If no application is given back more than it took, applications and what
\* was given back sum up to nothing or less.
LEMMA PairsSum ==
  ASSUME NEW E \in SUBSET Entries, NEW A \in SUBSET (Apps \cap E), NEW w,
         \A e \in E : w[e] \in Int,
         \A x \in A : IF Undo[x] \in E THEN w[x] + w[Undo[x]] <= 0 ELSE w[x] <= 0
  PROVE  SumOver(w, A \cup Back(A, E)) <= 0
<1> DEFINE C == {s \in SUBSET A : ~ (SumOver(w, s \cup Back(s, E)) <= 0)}
<1> SUFFICES ASSUME C # {} PROVE FALSE
  OBVIOUS
<1>1. \A s \in SUBSET Entries : IsFiniteSet(s)
  BY EntryAssumption, FS_Subset
<1>2. C \subseteq SUBSET Entries
  OBVIOUS
<1>3. PICK s \in C : \A t \in C : t \subseteq s => t = s
  <2>1. \A t \in C : IsFiniteSet(t)
    BY <1>1, <1>2
  <2> HIDE DEF C
  <2> QED
    BY <2>1, LeastSet
<1>4. s \in SUBSET A /\ ~ (SumOver(w, s \cup Back(s, E)) <= 0)
  OBVIOUS
<1>5. s # {}
  <2> SUFFICES ASSUME s = {} PROVE FALSE
    OBVIOUS
  <2>1. s \cup Back(s, E) = {}
    BY DEF Back
  <2>2. SumOver(w, s \cup Back(s, E)) = 0
    BY <2>1, SumEmpty, Zenon
  <2> QED
    BY <1>4, <2>2
<1>6. PICK x \in s : TRUE
  BY <1>5
<1> DEFINE r == s \ {x}
           R == r \cup Back(r, E)
<1>7. SumOver(w, R) <= 0
  BY <1>3, <1>4, <1>6
<1>8. R \in SUBSET E /\ IsFiniteSet(R) /\ x \in E /\ x \notin R /\ x \in A
  <2>1. R \in SUBSET E
    BY <1>4 DEF Back
  <2>2. x \in E /\ x \in A /\ x \in Apps /\ x \notin Restores
    BY <1>4, <1>6, AppAssumption
  <2>3. x \notin R
    BY <2>2 DEF Back
  <2> QED
    BY <1>1, <2>1, <2>2, <2>3
<1>9. SumOver(w, R) \in Int /\ SumOver(w, R \cup {x}) = w[x] + SumOver(w, R)
  BY <1>8, SumInt, SumAdd
<1>10. CASE Undo[x] \in E
  <2> DEFINE u == Undo[x]
  <2>1. u \in Restores /\ u \notin Apps /\ u \in E
    BY <1>4, <1>6, <1>10, EntryAssumption, AppAssumption DEF Restores
  <2>2. u \notin R \cup {x}
    BY <1>4, <1>6, <2>1, AppAssumption DEF Back, Restores
  <2>3. s \cup Back(s, E) = (R \cup {x}) \cup {u}
    BY <1>6, <2>1 DEF Back
  <2>4. IsFiniteSet(R \cup {x}) /\ R \cup {x} \in SUBSET E
    BY <1>1, <1>8
  <2> HIDE DEF u, R
  <2>5. SumOver(w, (R \cup {x}) \cup {u}) = w[u] + SumOver(w, R \cup {x})
    BY <2>1, <2>2, <2>4, SumAdd
  <2>6. SumOver(w, s \cup Back(s, E)) = w[u] + SumOver(w, R \cup {x})
    BY <2>3, <2>5, Zenon
  <2>7. w[x] + w[u] <= 0 /\ w[x] \in Int /\ w[u] \in Int
    BY <1>8, <1>10, <2>1 DEF u
  <2> QED
    BY <1>4, <1>7, <1>9, <2>6, <2>7
<1>11. CASE Undo[x] \notin E
  <2>1. s \cup Back(s, E) = R \cup {x}
    BY <1>6, <1>11 DEF Back
  <2> HIDE DEF R
  <2>2. SumOver(w, s \cup Back(s, E)) = SumOver(w, R \cup {x})
    BY <2>1, Zenon
  <2>3. w[x] <= 0 /\ w[x] \in Int
    BY <1>8, <1>11
  <2> QED
    BY <1>4, <1>7, <1>9, <2>2, <2>3
<1> QED
  BY <1>10, <1>11

\* A cancellation that refunds a card gives back what was taken from it, so
\* the card has room for it below its original amount.
LEMMA CardRoom ==
  ASSUME IInv, NEW B \in SUBSET Accounts, MoneyInv(B), NEW c \in Calls,
         NEW e \in Entries \ Apps, NEW a \in Accounts, leg[c] = e, Account[e] = a, Kind[a] = "GIFT_CARD", a \in B
  PROVE  Held(a) + SumOver(Amount, Part(c, a)) + Amount[e] <= Opening[a]
<1> USE DEF IInv
<1> DEFINE D == Part(c, a) \cup {e}
           w == [f \in Entries |-> Moved[f] + IF f \in D THEN Amount[f] ELSE 0]
           E == EntriesOf(a)
           A == {x \in Apps : Account[x] = a}
<1>1. \A x \in Apps : Undo[x] # NoEntry =>
        /\ Undo[x] \in D => x \in flipped[c] /\ app[x] = "APPLIED"
        /\ Amount[Undo[x]] = -Amount[x] /\ Undo[x] \in Entries
  BY AppAssumption, SignAssumption DEF FlipInv, Part
<1>2. \A x \in Apps : x \notin D
  <2>1. PICK x \in Apps : Undo[x] = e
    BY CardAssumption
  <2>2. x \in flipped[c]
    BY <2>1, EntryAssumption DEF FlipInv
  <2> QED
    BY <2>2 DEF LegInv, Part
<1>3. /\ IsFiniteSet(E) /\ E \in SUBSET Entries /\ Part(c, a) \in SUBSET E
      /\ IsFiniteSet(Part(c, a)) /\ D \in SUBSET E /\ e \notin Part(c, a)
      /\ \A f \in Entries : Amount[f] \in Int /\ Moved[f] \in Int /\ w[f] \in Int
                            /\ Moved[f] = posted[f] * Amount[f]
      /\ SumOver(Amount, Part(c, a)) \in Int /\ LedgerSum(a) \in Int
  <2>1. e \in E /\ e \notin Part(c, a)
    BY DEF MoneyInv, FreshInv, EntriesOf, Part
  <2> QED
    BY <2>1, PartFacts
<1>4. SumOver(w, E) = LedgerSum(a) + SumOver(Amount, D)
  <2>1. \A f \in D : w[f] = Moved[f] + Amount[f]
    BY <1>3
  <2>2. \A f \in E \ D : w[f] = Moved[f]
    BY <1>3
  <2> HIDE DEF w, D, E
  <2>3. SumOver(w, E) = SumOver(Moved, E) + SumOver(Amount, D)
    BY <1>3, <2>1, <2>2, SumShift
  <2> QED
    BY <2>3 DEF LedgerSum, E
<1>5. SumOver(Amount, D) = Amount[e] + SumOver(Amount, Part(c, a))
  BY <1>3, SumAdd
<1>6. E = A \cup Back(A, E)
  BY CardAssumption, EntryAssumption, AppAssumption DEF EntriesOf, Back, Restores
<1>7. ASSUME NEW x \in A
      PROVE  IF Undo[x] \in E THEN w[x] + w[Undo[x]] <= 0 ELSE w[x] <= 0
  <2>1. x \in Entries /\ x \notin D /\ Amount[x] \in Int /\ Amount[x] < 0
    BY <1>2, <1>3, AppAssumption, SignAssumption
  <2>2. w[x] = posted[x] * Amount[x] /\ posted[x] = (IF app[x] = "none" THEN 0 ELSE 1)
    BY <1>3, <2>1 DEF AppsMatchLedger
  <2>3. CASE Undo[x] \notin E
    BY <2>1, <2>2, <2>3
  <2>4. CASE Undo[x] \in E
    <3> DEFINE u == Undo[x]
    <3>1. u \in Entries /\ u # NoEntry /\ Amount[u] = -Amount[x]
      BY <1>1, <1>3, <2>4, EntryAssumption
    <3>2. w[u] = posted[u] * Amount[u] + IF u \in D THEN Amount[u] ELSE 0
      BY <1>3, <3>1
    <3>3. posted[u] = (IF app[x] = "REVERSED" THEN 1 ELSE 0)
      BY <3>1 DEF AppsMatchLedger
    <3>4. u \in D => app[x] = "APPLIED"
      BY <1>1, <3>1
    <3> HIDE DEF u, w, D
    <3>5. w[x] + w[u] <= 0
      BY <2>1, <2>2, <3>1, <3>2, <3>3, <3>4 DEF TypeOK
    <3> QED
      BY <2>4, <3>5 DEF u
  <2> QED
    BY <2>3, <2>4
<1>8. SumOver(w, E) <= 0
  <2>1. A \in SUBSET (Apps \cap E)
    BY AppAssumption DEF EntriesOf
  <2>2. \A f \in E : w[f] \in Int
    BY <1>3
  <2> HIDE DEF w, A, E
  <2>3. SumOver(w, A \cup Back(A, E)) <= 0
    BY <1>3, <1>7, <2>1, <2>2, PairsSum
  <2> QED
    BY <1>6, <2>3, Zenon
<1>9. Held(a) = Opening[a] + LedgerSum(a) /\ Opening[a] \in Nat
  BY AccountAssumption DEF MoneyInv, Balanced, Start, Missing
<1> HIDE DEF D, w, E
<1> QED
  BY <1>3, <1>4, <1>5, <1>8, <1>9

\* What a leg writes is the balance it finds and its amount: a redemption finds
\* enough, a credit finds the balance it read or creates it, and the cap of a
\* card does not cut.
LEMMA RedeemAdds ==
  ASSUME IInv, NEW B \in SUBSET Accounts, MoneyInv(B), NEW c \in Calls, Redeem(c),
         NEW a \in Accounts, a = Account[leg[c]]
  PROVE  /\ balance[a] # Missing \/ lock[a] = c
         /\ Redeemed(c, leg[c]) = Current(c, a) + Amount[leg[c]]
         /\ Redeemed(c, leg[c]) \in Nat
<1>1. leg[c] \in Apps /\ leg[c] \in Entries /\ Amount[leg[c]] \in Int /\ Amount[leg[c]] < 0
  BY AppAssumption, EntryAssumption, SignAssumption DEF Redeem
<1>2. Current(c, a) + Amount[leg[c]] >= 0
  BY DEF Redeem, Suffices, Redeemed
<1>3. Current(c, a) \in Int /\ (lock[a] # c => Current(c, a) = balance[a])
  BY DEF Current, IInv, TypeOK, Missing
<1> QED
  BY <1>1, <1>2, <1>3 DEF Redeemed, Missing

LEMMA CreditAdds ==
  ASSUME IInv, NEW B \in SUBSET Accounts, MoneyInv(B), Steady(B), NEW c \in Calls, Credit(c),
         NEW a \in Accounts, a = Account[leg[c]], a \in B
  PROVE  Credited(c, leg[c]) =
           Amount[leg[c]] + IF lock[a] = c THEN draft[c][a] ELSE Held(a)
<1> USE DEF IInv
<1>1. PICK e \in Entries \ Apps : e = leg[c]
  BY DEF Credit
<1>2. /\ Amount[e] \in Int /\ Account[e] = a /\ pc[c] = "write"
      /\ seen[c] = Missing => Current(c, a) = Missing
      /\ seen[c] # Missing => Current(c, a) # Missing
  BY <1>1, EntryAssumption DEF Credit, Write, MoneyInv, ThereInv
<1>3. /\ draft[c][a] \in Nat /\ balance[a] \in Nat \cup {Missing}
      /\ Current(c, a) = IF lock[a] = c THEN draft[c][a] ELSE balance[a]
      /\ Held(a) = IF balance[a] = Missing THEN 0 ELSE balance[a]
  BY DEF TypeOK, Current, Held
<1>4. CASE Kind[a] = "GIFT_CARD"
  <2>1. Opening[a] \in Nat /\ balance[a] # Missing
    BY <1>4, AccountAssumption DEF MoneyInv, ThereInv, Missing
  <2>2. Current(c, a) = (IF lock[a] = c THEN draft[c][a] ELSE Held(a)) /\ Current(c, a) \in Nat
    BY <1>3, <2>1 DEF Missing
  <2>3. Current(c, a) = Held(a) + SumOver(Amount, Part(c, a))
    <3>1. CASE lock[a] = c
      BY <1>4, <2>2, <3>1 DEF MoneyInv, HoldInv
    <3>2. CASE lock[a] # c
      <4>1. Part(c, a) = {}
        BY <3>2 DEF MoneyInv, HoldInv, Part
      <4>2. SumOver(Amount, Part(c, a)) = 0
        BY <4>1, SumEmpty, Zenon
      <4> QED
        BY <2>2, <3>2, <4>2
    <3> QED
      BY <3>1, <3>2
  <2>4. Current(c, a) + Amount[e] <= Opening[a]
    BY <1>1, <1>2, <1>4, <2>3, CardRoom
  <2>5. Credited(c, e) = Current(c, a) + Amount[e]
    BY <1>2, <1>4, <2>1, <2>2, <2>4 DEF Credited
  <2> QED
    BY <1>1, <1>2, <2>2, <2>5
<1>5. CASE Kind[a] # "GIFT_CARD" /\ seen[c] = Missing
  <2>1. Credited(c, e) = Amount[e]
    BY <1>2, <1>5 DEF Credited
  <2> QED
    BY <1>1, <1>2, <1>3, <1>5, <2>1 DEF Missing
<1>6. CASE Kind[a] # "GIFT_CARD" /\ seen[c] # Missing
  <2>1. Kind[a] = "LOYALTY_POINTS" => seen[c] = Current(c, a)
    BY <1>1, <1>2, <1>6 DEF Steady
  <2>2. Credited(c, e) = Current(c, a) + Amount[e]
    BY <1>2, <1>6, <2>1 DEF Credited
  <2> QED
    BY <1>1, <1>2, <1>3, <1>6, <2>2 DEF Missing
<1> QED
  BY <1>4, <1>5, <1>6

\* Hence what the transaction will publish is still the committed balance and
\* the rows it adds.
LEMMA WriteHolds ==
  ASSUME IInv, NEW B \in SUBSET Accounts, MoneyInv(B), NEW c \in Calls, NEW new, Write(c, new),
         Account[leg[c]] \in B =>
           new = Amount[leg[c]] + IF lock[Account[leg[c]]] = c
                                    THEN draft[c][Account[leg[c]]] ELSE Held(Account[leg[c]])
  PROVE  HoldInv(B)'
<1> USE DEF IInv
<1>1. PICK e \in Entries, a \in Accounts : e = leg[c] /\ a = Account[e]
  <2>1. leg[c] \in Entries
    BY DEF Write, LegInv, TypeOK
  <2> QED
    BY <2>1, EntryAssumption
<1>2. /\ pc[c] = "write" /\ lock[a] \in {NoCall, c} /\ a \in Rows
      /\ lock' = [lock EXCEPT ![a] = c]
      /\ draft' = [draft EXCEPT ![c][a] = new]
      /\ done' = [done EXCEPT ![c] = @ \cup {e}]
      /\ balance' = balance
  BY <1>1 DEF Write, Free, Lock, tableVars, Rows
<1>3. e \notin done[c] /\ Amount[e] \in Int
  BY <1>1, EntryAssumption DEF MoneyInv, FreshInv
<1>4. ASSUME NEW d \in Calls, NEW f \in done'[d]
      PROVE  lock'[Account[f]] = d
  <2>1. f \in Entries /\ Account[f] \in Accounts /\ Account[f] \in Rows
    BY <1>1, <1>2, <1>4, EntryAssumption DEF TypeOK, Rows
  <2> QED
    BY <1>1, <1>2, <1>4, <2>1, CallAssumption DEF TypeOK, MoneyInv, HoldInv
<1>5. ASSUME NEW d \in Calls, NEW b \in Accounts, lock'[b] = d, b \in B
      PROVE  draft'[d][b] = Held(b)' + SumOver(Amount, Part(d, b)')
  <2>1. Held(b)' = Held(b) /\ b \in Rows
    BY <1>2 DEF Held, Rows
  <2>2. CASE d = c /\ b = a
    <3>1. Part(d, b)' = Part(c, a) \cup {e} /\ e \notin Part(c, a)
      BY <1>1, <1>2, <1>3, <2>2 DEF Part, TypeOK
    <3>2. SumOver(Amount, Part(c, a) \cup {e}) = Amount[e] + SumOver(Amount, Part(c, a))
      <4>1. IsFiniteSet(Part(c, a)) /\ \A f \in Part(c, a) \cup {e} : Amount[f] \in Int
        BY <1>3, PartFacts
      <4> QED
        BY <3>1, <4>1, SumAdd
    <3>3. SumOver(Amount, Part(d, b)') = Amount[e] + SumOver(Amount, Part(c, a))
      BY <3>1, <3>2, Zenon
    <3>4. draft'[d][b] = new /\ Held(a) \in Int /\ SumOver(Amount, Part(c, a)) \in Int
      BY <1>2, <2>2, PartFacts DEF TypeOK, Held, Missing
    <3>5. CASE lock[a] = c
      <4>1. new = Amount[e] + draft[c][a]
        BY <1>1, <1>5, <2>2, <3>5
      <4>2. draft[c][a] = Held(a) + SumOver(Amount, Part(c, a))
        BY <1>5, <2>2, <3>5 DEF MoneyInv, HoldInv
      <4> QED
        BY <1>3, <2>1, <2>2, <3>3, <3>4, <4>1, <4>2
    <3>6. CASE lock[a] # c
      <4>1. new = Amount[e] + Held(a)
        BY <1>1, <1>5, <2>2, <3>6
      <4>2. Part(c, a) = {}
        BY <3>6 DEF Part, MoneyInv, HoldInv
      <4>3. SumOver(Amount, Part(c, a)) = 0
        BY <4>2, SumEmpty, Zenon
      <4> QED
        BY <1>3, <2>1, <2>2, <3>3, <3>4, <4>1, <4>3
    <3> QED
      BY <3>5, <3>6
  <2>3. CASE ~ (d = c /\ b = a)
    <3>1. lock[b] = d /\ draft'[d][b] = draft[d][b]
      BY <1>2, <1>5, <2>1, <2>3 DEF TypeOK
    <3>2. Part(d, b)' = Part(d, b)
      BY <1>1, <1>2, <2>3 DEF Part, TypeOK
    <3>3. SumOver(Amount, Part(d, b)') = SumOver(Amount, Part(d, b))
      BY <3>2, Zenon
    <3> QED
      BY <1>5, <2>1, <3>1, <3>3 DEF MoneyInv, HoldInv
  <2> QED
    BY <2>2, <2>3
<1> QED
  BY <1>4, <1>5 DEF HoldInv

\* A commit adds the rows of the transaction to the ledger of each balance.
LEMMA CommitLedger ==
  ASSUME IInv, NEW c \in Calls, Commit(c), NEW a \in Accounts
  PROVE  LedgerSum(a)' = LedgerSum(a) + SumOver(Amount, Part(c, a))
<1> USE DEF IInv
<1>1. PICK m \in [Entries -> Int] : m = Moved'
  <2>1. \A e \in Entries : posted'[e] \in Int /\ Amount[e] \in Int
    BY EntryAssumption DEF Commit, TypeOK
  <2>2. \A p, q \in Int : p * q \in Int
    OBVIOUS
  <2>3. Moved' = [e \in Entries |-> posted'[e] * Amount[e]]
    BY DEF Moved
  <2> QED
    BY <2>1, <2>2, <2>3
<1>2. ASSUME NEW e \in Part(c, a)
      PROVE  Amount[e] \in Int /\ m[e] = Moved[e] + Amount[e]
  <2>1. e \in Entries /\ posted'[e] = posted[e] + 1
    BY DEF Part, Commit, TypeOK
  <2>2. Moved[e] = posted[e] * Amount[e] /\ m[e] = (posted[e] + 1) * Amount[e]
    BY <1>1, <2>1 DEF Moved
  <2>3. posted[e] \in Int /\ Amount[e] \in Int
    BY <2>1, EntryAssumption DEF TypeOK
  <2>4. \A p, q \in Int : (p + 1) * q = p * q + q
    OBVIOUS
  <2> QED
    BY <2>2, <2>3, <2>4
<1>3. ASSUME NEW e \in EntriesOf(a) \ Part(c, a)
      PROVE  m[e] = Moved[e]
  <2>1. e \in Entries /\ posted'[e] = posted[e]
    BY DEF EntriesOf, Part, Commit, TypeOK
  <2> QED
    BY <1>1, <2>1 DEF Moved
<1>4. /\ IsFiniteSet(EntriesOf(a)) /\ Part(c, a) \in SUBSET EntriesOf(a)
      /\ \A e \in EntriesOf(a) : Moved[e] \in Int
  BY PartFacts
<1>5. SumOver(m, EntriesOf(a)) = SumOver(Moved, EntriesOf(a)) + SumOver(Amount, Part(c, a))
  BY <1>2, <1>3, <1>4, SumShift
<1> QED
  BY <1>1, <1>5 DEF LedgerSum, EntriesOf

\* What a commit publishes of a balance is what its ledger adds up to then.
LEMMA CommitMoney ==
  ASSUME IInv, NEW B \in SUBSET Accounts, MoneyInv(B), NEW c \in Calls, Commit(c)
  PROVE  Balanced(B)' /\ HoldInv(B)' /\ ThereInv'
<1> USE DEF IInv
<1>1. /\ \A a \in Accounts : balance'[a] = Current(c, a)
      /\ \A a \in Accounts : lock'[a] = IF lock[a] = c THEN NoCall ELSE lock[a]
      /\ pc'[c] = "idle" /\ done'[c] = {}
      /\ \A d \in Calls \ {c} :
           /\ pc'[d] = pc[d] /\ leg'[d] = leg[d] /\ seen'[d] = seen[d]
           /\ draft'[d] = draft[d] /\ done'[d] = done[d]
  BY DEF Commit, Leave, TypeOK, Rows
<1>2. ASSUME NEW a \in Accounts, a \in B
      PROVE  Held(a)' = Start(a) + LedgerSum(a)'
  <2>1. /\ LedgerSum(a)' = LedgerSum(a) + SumOver(Amount, Part(c, a))
        /\ Held(a) = Start(a) + LedgerSum(a)
        /\ LedgerSum(a) \in Int /\ SumOver(Amount, Part(c, a)) \in Int /\ Start(a) \in Int
    BY <1>2, CommitLedger, PartFacts, AccountAssumption
       DEF MoneyInv, Balanced, Start, Missing
  <2>2. CASE lock[a] = c
    <3>1. Held(a)' = draft[c][a]
      BY <1>1, <2>2 DEF Held, Current, TypeOK, Missing
    <3>2. draft[c][a] = Held(a) + SumOver(Amount, Part(c, a))
      BY <1>2, <2>2 DEF MoneyInv, HoldInv
    <3> QED
      BY <2>1, <3>1, <3>2
  <2>3. CASE lock[a] # c
    <3>1. Held(a)' = Held(a)
      BY <1>1, <2>3 DEF Held, Current
    <3>2. Part(c, a) = {}
      BY <2>3 DEF Part, MoneyInv, HoldInv
    <3>3. SumOver(Amount, Part(c, a)) = 0
      BY <3>2, SumEmpty, Zenon
    <3> QED
      BY <2>1, <3>1, <3>3
  <2> QED
    BY <2>2, <2>3
<1>3. Balanced(B)'
  BY <1>2 DEF Balanced, Start
<1>4. ASSUME NEW d \in Calls, NEW e \in done'[d]
      PROVE  lock'[Account[e]] = d
  <2>1. d # c /\ e \in Entries /\ Account[e] \in Accounts
    BY <1>1, <1>4, EntryAssumption DEF TypeOK
  <2> QED
    BY <1>1, <1>4, <2>1 DEF MoneyInv, HoldInv
<1>5. ASSUME NEW d \in Calls, NEW a \in Accounts, lock'[a] = d, a \in B
      PROVE  draft'[d][a] = Held(a)' + SumOver(Amount, Part(d, a)')
  <2>1. d # c /\ lock[a] = d
    BY <1>1, <1>5, CallAssumption
  <2>2. balance'[a] = balance[a] /\ draft'[d] = draft[d] /\ Part(d, a)' = Part(d, a)
    BY <1>1, <2>1 DEF Current, Part
  <2>3. SumOver(Amount, Part(d, a)') = SumOver(Amount, Part(d, a))
    BY <2>2, Zenon
  <2> QED
    BY <1>5, <2>1, <2>2, <2>3 DEF MoneyInv, HoldInv, Held
<1>6. HoldInv(B)'
  BY <1>4, <1>5 DEF HoldInv
<1>7. \A a \in Accounts : balance[a] # Missing => balance'[a] # Missing
  BY <1>1 DEF Current, TypeOK, Missing
<1>8. ASSUME NEW d \in Calls, pc'[d] = "write", leg'[d] \notin Apps, seen'[d] # Missing
      PROVE  Current(d, Account[leg[d]])' # Missing /\ leg'[d] = leg[d]
  <2>1. d # c /\ pc[d] = "write" /\ leg'[d] = leg[d] /\ seen[d] # Missing /\ leg[d] \in Entries
    BY <1>1, <1>8 DEF LegInv, TypeOK
  <2>2. PICK a \in Accounts : a = Account[leg[d]]
    BY <2>1, EntryAssumption
  <2>3. Current(d, a) # Missing
    BY <1>8, <2>1, <2>2 DEF MoneyInv, ThereInv
  <2>4. Current(d, a)' # Missing
    BY <1>1, <1>7, <2>1, <2>3, CallAssumption DEF Current
  <2>5. Account[leg'[d]] = a
    BY <2>1, <2>2
  <2> QED
    BY <2>1, <2>2, <2>4, <2>5 DEF Current
<1>9. ThereInv'
  BY <1>7, <1>8 DEF ThereInv, MoneyInv, Current
<1> QED
  BY <1>3, <1>6, <1>9

\* As long as nothing is committed, ledgers and balances stay.
LEMMA LedgerStays ==
  ASSUME NEW B \in SUBSET Accounts, Balanced(B), UNCHANGED <<balance, posted>>
  PROVE  Balanced(B)' /\ \A a \in Accounts : Held(a)' = Held(a)
<1>1. Moved' = Moved
  BY DEF Moved
<1> QED
  BY <1>1 DEF Balanced, Held, Start, LedgerSum, EntriesOf

\* What a transaction holds is its own business: others neither lock the
\* balances it wrote nor change what it read of them.
LEMMA OthersHold ==
  ASSUME IInv, NEW B \in SUBSET Accounts, MoneyInv(B), UNCHANGED <<balance, posted, draft, done>>,
         \A a \in Accounts : lock'[a] = lock[a]
  PROVE  Balanced(B)' /\ HoldInv(B)'
<1>1. Balanced(B)' /\ \A a \in Accounts : Held(a)' = Held(a)
  BY LedgerStays DEF MoneyInv
<1>2. \A d \in Calls, a \in Accounts : Part(d, a)' = Part(d, a)
  BY DEF Part
<1>3. ASSUME NEW d \in Calls, NEW a \in Accounts, lock'[a] = d, a \in B
      PROVE  draft'[d][a] = Held(a)' + SumOver(Amount, Part(d, a)')
  <2>1. SumOver(Amount, Part(d, a)') = SumOver(Amount, Part(d, a))
    BY <1>2, Zenon
  <2> QED
    BY <1>1, <1>3, <2>1 DEF MoneyInv, HoldInv
<1>4. \A d \in Calls : \A e \in done'[d] : lock'[Account[e]] = d
  BY EntryAssumption DEF MoneyInv, HoldInv, IInv, TypeOK
<1> QED
  BY <1>1, <1>3, <1>4 DEF HoldInv

\* Each action preserves the equality and what it rests on.
LEMMA StepMoney ==
  ASSUME NEW B \in SUBSET Accounts, IInv, MoneyInv(B), Steady(B), [Next]_vars
  PROVE  MoneyInv(B)'
<1> USE DEF IInv
<1> DEFINE Rest3 == Balanced(B)' /\ HoldInv(B)' /\ ThereInv'
<1>1. FreshInv'
  BY StepFresh DEF MoneyInv
<1>2. ASSUME UNCHANGED <<balance, posted, draft, done>>,
             \A a \in Accounts : lock'[a] = lock[a],
             \A d \in Calls : pc'[d] = "write" =>
               pc[d] = "write" /\ leg'[d] = leg[d] /\ seen'[d] = seen[d]
      PROVE  Rest3
  <2>1. ASSUME NEW d \in Calls, pc'[d] = "write", leg'[d] \notin Apps, seen'[d] # Missing
        PROVE  Current(d, Account[leg[d]])' # Missing /\ leg'[d] = leg[d]
    <3>1. Account[leg[d]] \in Accounts
      BY <1>2, <2>1, EntryAssumption DEF LegInv, TypeOK
    <3> QED
      BY <1>2, <2>1, <3>1 DEF MoneyInv, ThereInv, Current
  <2>2. ThereInv'
    BY <1>2, <2>1 DEF MoneyInv, ThereInv, Current
  <2> QED
    BY <1>2, <2>2, OthersHold
<1>3. ASSUME NEW c \in Calls, Lookup(c)
      PROVE  Rest3
  <2>1. UNCHANGED <<balance, posted, lock, draft, done>>
    BY <1>3 DEF Lookup, tableVars
  <2>2. \A d \in Calls \ {c} : pc'[d] = pc[d] /\ leg'[d] = leg[d] /\ seen'[d] = seen[d]
    BY <1>3 DEF Lookup, TypeOK
  <2>3. leg' = leg /\ (leg[c] \notin Apps => seen'[c] = Current(c, Account[leg[c]]))
    BY <1>3 DEF Lookup, TypeOK
  <2>4. \A d \in Calls : pc'[d] = "write" /\ leg'[d] \notin Apps /\ seen'[d] # Missing =>
          Current(d, Account[leg[d]]) # Missing
    BY <2>2, <2>3 DEF MoneyInv, ThereInv
  <2>5. ThereInv'
    BY <2>1, <2>3, <2>4 DEF MoneyInv, ThereInv, Current
  <2> QED
    BY <2>1, <2>5, OthersHold
<1>4. ASSUME NEW c \in Calls, NEW new, Write(c, new), HoldInv(B)'
      PROVE  Rest3
  <2>1. Balanced(B)'
    BY <1>4, LedgerStays DEF Write, tableVars, MoneyInv
  <2>2. PICK a \in Accounts : a = Account[leg[c]]
    BY <1>4, EntryAssumption DEF Write, LegInv, TypeOK
  <2>3. /\ balance' = balance /\ lock[a] \in {NoCall, c}
        /\ \A b \in Accounts : lock'[b] = IF b = a THEN c ELSE lock[b]
        /\ pc'[c] # "write"
        /\ \A d \in Calls \ {c} : /\ pc'[d] = pc[d] /\ leg'[d] = leg[d] /\ seen'[d] = seen[d]
                                  /\ draft'[d] = draft[d]
    BY <1>4, <2>2 DEF Write, Free, Lock, TypeOK, Rows, tableVars
  <2>4. ASSUME NEW d \in Calls, pc'[d] = "write", leg'[d] \notin Apps, seen'[d] # Missing
        PROVE  Current(d, Account[leg[d]])' # Missing /\ leg'[d] = leg[d]
    <3>1. d # c /\ pc[d] = "write" /\ leg'[d] = leg[d] /\ seen[d] # Missing /\ leg[d] \in Entries
      BY <2>3, <2>4 DEF LegInv, TypeOK
    <3>2. PICK b \in Accounts : b = Account[leg[d]]
      BY <3>1, EntryAssumption
    <3>3. Current(d, b) # Missing
      BY <2>4, <3>1, <3>2 DEF MoneyInv, ThereInv
    <3>4. Current(d, b)' # Missing
      BY <2>3, <3>1, <3>3, CallAssumption DEF Current
    <3>5. Account[leg'[d]] = b
      BY <3>1, <3>2
    <3> QED
      BY <3>1, <3>2, <3>4, <3>5 DEF Current
  <2>5. ThereInv'
    BY <2>3, <2>4 DEF ThereInv, MoneyInv, Current
  <2> QED
    BY <1>4, <2>1, <2>5
<1>5. ASSUME NEW c \in Calls, Redeem(c)
      PROVE  Rest3
  <2>1. PICK a \in Accounts : a = Account[leg[c]]
    BY <1>5, EntryAssumption, AppAssumption DEF Redeem
  <2>2. Write(c, Redeemed(c, leg[c])) /\ Amount[leg[c]] \in Int
    BY <1>5, EntryAssumption, AppAssumption DEF Redeem
  <2>3. Redeemed(c, leg[c]) = Amount[leg[c]] + IF lock[a] = c THEN draft[c][a] ELSE Held(a)
    <3>1. /\ balance[a] # Missing \/ lock[a] = c
          /\ Redeemed(c, leg[c]) = Current(c, a) + Amount[leg[c]]
      BY <1>5, <2>1, RedeemAdds
    <3>2. Current(c, a) = (IF lock[a] = c THEN draft[c][a] ELSE Held(a)) /\ Current(c, a) \in Int
      BY <3>1 DEF Current, Held, TypeOK, Missing
    <3> QED
      BY <2>2, <3>1, <3>2
  <2>4. HoldInv(B)'
    BY <2>1, <2>2, <2>3, WriteHolds
  <2> QED
    BY <1>4, <2>2, <2>4
<1>6. ASSUME NEW c \in Calls, Credit(c)
      PROVE  Rest3
  <2>1. PICK a \in Accounts : a = Account[leg[c]]
    BY <1>6, EntryAssumption DEF Credit
  <2>2. Write(c, Credited(c, leg[c]))
    BY <1>6 DEF Credit
  <2>3. a \in B => Credited(c, leg[c]) =
          Amount[leg[c]] + IF lock[a] = c THEN draft[c][a] ELSE Held(a)
    BY <1>6, <2>1, CreditAdds
  <2>4. HoldInv(B)'
    BY <2>1, <2>2, <2>3, WriteHolds
  <2> QED
    BY <1>4, <2>2, <2>4
<1>7. ASSUME NEW c \in Calls, Commit(c)
      PROVE  Rest3
  BY <1>7, CommitMoney
<1>8. ASSUME NEW c \in Calls, Rollback(c)
      PROVE  Rest3
  <2>1. /\ UNCHANGED <<balance, posted>>
        /\ \A a \in Accounts : lock'[a] = IF lock[a] = c THEN NoCall ELSE lock[a]
        /\ pc'[c] = "idle" /\ done'[c] = {}
        /\ \A d \in Calls \ {c} :
             /\ pc'[d] = pc[d] /\ leg'[d] = leg[d] /\ seen'[d] = seen[d]
             /\ draft'[d] = draft[d] /\ done'[d] = done[d]
    BY <1>8 DEF Rollback, Leave, TypeOK, Rows, tableVars
  <2>2. Balanced(B)' /\ \A a \in Accounts : Held(a)' = Held(a)
    BY <2>1, LedgerStays DEF MoneyInv
  <2>3. ASSUME NEW d \in Calls, NEW e \in done'[d]
        PROVE  lock'[Account[e]] = d
    <3>1. d # c /\ e \in Entries /\ Account[e] \in Accounts
      BY <2>1, <2>3, EntryAssumption DEF TypeOK
    <3> QED
      BY <2>1, <2>3, <3>1 DEF MoneyInv, HoldInv
  <2>4. ASSUME NEW d \in Calls, NEW a \in Accounts, lock'[a] = d, a \in B
        PROVE  draft'[d][a] = Held(a)' + SumOver(Amount, Part(d, a)')
    <3>1. d # c /\ lock[a] = d
      BY <2>1, <2>4, CallAssumption
    <3>2. draft'[d] = draft[d] /\ Part(d, a)' = Part(d, a)
      BY <2>1, <3>1 DEF Part
    <3>3. SumOver(Amount, Part(d, a)') = SumOver(Amount, Part(d, a))
      BY <3>2, Zenon
    <3> QED
      BY <2>2, <2>4, <3>1, <3>2, <3>3 DEF MoneyInv, HoldInv
  <2>5. ASSUME NEW d \in Calls, pc'[d] = "write", leg'[d] \notin Apps, seen'[d] # Missing
        PROVE  Current(d, Account[leg[d]])' # Missing /\ leg'[d] = leg[d]
    <3>1. d # c /\ pc[d] = "write" /\ leg'[d] = leg[d] /\ seen[d] # Missing /\ leg[d] \in Entries
      BY <2>1, <2>5 DEF LegInv, TypeOK
    <3>2. PICK b \in Accounts : b = Account[leg[d]]
      BY <3>1, EntryAssumption
    <3>3. Current(d, b) # Missing
      BY <2>5, <3>1, <3>2 DEF MoneyInv, ThereInv
    <3>4. Current(d, b)' # Missing
      BY <2>1, <3>1, <3>3, CallAssumption DEF Current
    <3>5. Account[leg'[d]] = b
      BY <3>1, <3>2
    <3> QED
      BY <3>1, <3>2, <3>4, <3>5 DEF Current
  <2>6. ThereInv'
    BY <2>1, <2>5 DEF ThereInv, MoneyInv, Current
  <2> QED
    BY <2>2, <2>3, <2>4, <2>6 DEF HoldInv
<1>9. ASSUME NEW c \in Calls,
             \/ \E X \in Requests : spend(c, X)
             \/ \E e \in Credits : credit(c, e)
             \/ \E o \in Orders : cancel(c, o)
             \/ \E x \in Apps : Flip(c, x)
             \/ \E e \in Entries : Choose(c, e)
             \/ Replay(c)
      PROVE  Rest3
  <2>1. UNCHANGED <<balance, posted, draft, done>>
    BY <1>9 DEF spend, credit, cancel, Begin, Flip, Choose, Replay, tableVars
  <2>2. pc'[c] # "write" /\ \A d \in Calls \ {c} : pc'[d] = pc[d] /\ leg'[d] = leg[d]
    BY <1>9 DEF spend, credit, cancel, Begin, Flip, Choose, Replay, TypeOK
  <2>3. UNCHANGED seen
    BY <1>9 DEF spend, credit, cancel, Begin, Flip, Choose, Replay
  <2>4. \A a \in Accounts : lock'[a] = lock[a]
    <3>1. lock' = lock \/ \E x \in Apps : lock' = [lock EXCEPT ![x] = c]
      BY <1>9 DEF spend, credit, cancel, Begin, Flip, Lock, Choose, Replay
    <3> QED
      BY <3>1, AccountAssumption DEF TypeOK, Rows
  <2> QED
    BY <1>2, <2>1, <2>2, <2>3, <2>4
<1>10. ASSUME UNCHANGED vars
       PROVE  Rest3
  <2>1. UNCHANGED <<balance, posted, draft, done, lock, pc, leg, seen>>
    BY <1>10 DEF vars
  <2> QED
    BY <1>2, <2>1
<1> QED
  BY <1>1, <1>3, <1>5, <1>6, <1>7, <1>8, <1>9, <1>10 DEF Next, MoneyInv

MoneyBalances == {a \in Accounts : Kind[a] # "LOYALTY_POINTS"}

\* Every money balance equals the sum of its ledger rows, whatever overlaps:
\* an increment needs no lock of what it read, and the lock that a writer
\* holds until its commit keeps everyone else's writes out.
THEOREM BalancesBalance == Spec => []BalanceIsLedgerSum
<1>1. MoneyBalances \in SUBSET Accounts
  BY DEF MoneyBalances
<1>2. Init => MoneyInv(MoneyBalances)
  BY <1>1, InitMoney
<1>3. IInv /\ MoneyInv(MoneyBalances) /\ [Next]_vars => MoneyInv(MoneyBalances)'
  <2>1. Steady(MoneyBalances)
    BY DEF Steady, MoneyBalances
  <2> QED
    BY <1>1, <2>1, StepMoney
<1>4. MoneyInv(MoneyBalances) => BalanceIsLedgerSum
  BY DEF MoneyInv, Balanced, BalanceIsLedgerSum, MoneyBalances
<1> QED
  BY <1>2, <1>3, <1>4, Invariance, PTL DEF Spec

\* What a SELECT ... FOR UPDATE in processEarnPoints would give: between the
\* balance that an earn read and the one it writes back, nobody else has
\* written the points.
EarnsReadAlone ==
  \A c, d \in Calls :
    /\ pc[c] = "write" /\ leg[c] \in Entries \ Apps
    /\ Kind[Account[leg[c]]] = "LOYALTY_POINTS" /\ lock[Account[leg[c]]] = d
    => c = d

LEMMA StepSteady ==
  ASSUME IInv, IInv', EarnsReadAlone, EarnsReadAlone', Steady(Accounts), [Next]_vars
  PROVE  Steady(Accounts)'
<1> USE DEF IInv
<1> SUFFICES ASSUME NEW d \in Calls, NEW a \in Accounts, a = Account[leg[d]]',
                    pc'[d] = "write", leg'[d] \in Entries \ Apps, seen'[d] # Missing,
                    Kind[a] = "LOYALTY_POINTS"
             PROVE  seen'[d] = (IF lock'[a] = d THEN draft'[d][a] ELSE balance'[a])
  BY EntryAssumption DEF Steady, Current
<1>1. lock'[a] \in {NoCall, d}
  <2>1. lock'[a] \in Calls \cup {NoCall}
    BY DEF TypeOK, Rows
  <2>2. lock'[a] \in Calls => lock'[a] = d
    BY DEF EarnsReadAlone
  <2> QED
    BY <2>1, <2>2
\* An earn that was about to write still is, and nobody wrote its points.
<1>2. ASSUME pc[d] = "write", leg'[d] = leg[d], seen'[d] = seen[d], draft'[d] = draft[d],
             balance'[a] = balance[a], lock'[a] = d <=> lock[a] = d
      PROVE  seen'[d] = (IF lock'[a] = d THEN draft'[d][a] ELSE balance'[a])
  BY <1>2 DEF Steady, Current
<1>3. ASSUME NEW c \in Calls, \/ \E X \in Requests : spend(c, X)
                              \/ \E e \in Credits : credit(c, e)
                              \/ \E o \in Orders : cancel(c, o)
                              \/ \E x \in Apps : Flip(c, x)
                              \/ \E e \in Entries : Choose(c, e)
                              \/ Replay(c)
      PROVE  seen'[d] = (IF lock'[a] = d THEN draft'[d][a] ELSE balance'[a])
  <2>1. UNCHANGED <<balance, draft, seen>>
    BY <1>3 DEF spend, credit, cancel, Begin, Flip, Choose, Replay, tableVars
  <2>2. pc'[c] # "write" /\ \A e \in Calls \ {c} : pc'[e] = pc[e] /\ leg'[e] = leg[e]
    BY <1>3 DEF spend, credit, cancel, Begin, Flip, Choose, Replay, TypeOK
  <2>3. lock'[a] = lock[a]
    <3>1. lock' = lock \/ \E x \in Apps : lock' = [lock EXCEPT ![x] = c]
      BY <1>3 DEF spend, credit, cancel, Begin, Flip, Lock, Choose, Replay
    <3> QED
      BY <3>1, AccountAssumption DEF TypeOK, Rows
  <2> QED
    BY <1>2, <2>1, <2>2, <2>3
<1>4. ASSUME NEW c \in Calls, Lookup(c)
      PROVE  seen'[d] = (IF lock'[a] = d THEN draft'[d][a] ELSE balance'[a])
  <2>1. UNCHANGED <<balance, draft, lock, leg>>
    BY <1>4 DEF Lookup, tableVars
  <2>2. \A e \in Calls \ {c} : pc'[e] = pc[e] /\ seen'[e] = seen[e]
    BY <1>4 DEF Lookup, TypeOK
  <2>3. leg[c] \notin Apps => seen'[c] = Current(c, Account[leg[c]])
    BY <1>4 DEF Lookup, TypeOK
  <2> QED
    BY <1>2, <2>1, <2>2, <2>3 DEF Current
\* Another write of these points is what EarnsReadAlone excludes.
<1>5. ASSUME NEW c \in Calls, Redeem(c) \/ Credit(c)
      PROVE  seen'[d] = (IF lock'[a] = d THEN draft'[d][a] ELSE balance'[a])
  <2>1. PICK b, new : b \in Accounts /\ b = Account[leg[c]] /\ Write(c, new)
    BY <1>5, EntryAssumption, AppAssumption DEF Redeem, Credit
  <2>2. /\ balance' = balance /\ seen' = seen /\ pc'[c] # "write"
        /\ \A r \in Accounts : lock'[r] = IF r = b THEN c ELSE lock[r]
        /\ \A e \in Calls \ {c} : pc'[e] = pc[e] /\ leg'[e] = leg[e] /\ draft'[e] = draft[e]
    BY <2>1 DEF Write, Lock, TypeOK, Rows, tableVars
  <2>3. c # d /\ b # a
    BY <1>1, <2>2, CallAssumption
  <2> QED
    BY <1>2, <2>2, <2>3
<1>6. ASSUME NEW c \in Calls, Leave(c), balance'[a] = balance[a] \/ (balance'[a] = Current(c, a))
      PROVE  seen'[d] = (IF lock'[a] = d THEN draft'[d][a] ELSE balance'[a])
  <2>1. /\ pc'[c] # "write" /\ lock'[a] = IF lock[a] = c THEN NoCall ELSE lock[a]
        /\ \A e \in Calls \ {c} : /\ pc'[e] = pc[e] /\ leg'[e] = leg[e] /\ draft'[e] = draft[e]
                                  /\ seen'[e] = seen[e]
    BY <1>6 DEF Leave, TypeOK, Rows
  <2>2. c # d /\ a = Account[leg[d]] /\ leg[d] \in Entries \ Apps /\ pc[d] = "write"
    BY <2>1
  <2>3. lock[a] # c
    BY <2>2 DEF EarnsReadAlone
  <2>4. balance'[a] = balance[a]
    BY <1>6, <2>3 DEF Current
  <2> QED
    BY <1>2, <2>1, <2>2, <2>3, <2>4
<1>7. ASSUME UNCHANGED vars
      PROVE  seen'[d] = (IF lock'[a] = d THEN draft'[d][a] ELSE balance'[a])
  BY <1>2, <1>7 DEF vars
<1> QED
  BY <1>3, <1>4, <1>5, <1>6, <1>7 DEF Next, Commit, Rollback, tableVars

\* Points equal the sum of their ledger rows as well if earns read them alone.
THEOREM PointsNeedALock == Spec /\ []EarnsReadAlone => []PointsAreLedgerSum
<1>1. Init => MoneyInv(Accounts) /\ Steady(Accounts)
  <2>1. Init => MoneyInv(Accounts)
    BY InitMoney
  <2>2. Init => Steady(Accounts)
    BY DEF Init, Steady
  <2> QED
    BY <2>1, <2>2
<1>2. IInv /\ IInv' /\ EarnsReadAlone /\ EarnsReadAlone'
        /\ MoneyInv(Accounts) /\ Steady(Accounts) /\ [Next]_vars
        => MoneyInv(Accounts)' /\ Steady(Accounts)'
  BY StepMoney, StepSteady
<1>3. MoneyInv(Accounts) => PointsAreLedgerSum
  BY DEF MoneyInv, Balanced, PointsAreLedgerSum
<1> QED
  BY <1>1, <1>2, <1>3, Invariance, PTL DEF Spec

\* So no points are lost where a customer's transactions do not overlap.
THEOREM PointsOneAtATime ==
  (\A c, d \in Calls : c = d) => (Spec => [](BalanceIsLedgerSum /\ PointsAreLedgerSum))
<1> SUFFICES ASSUME \A c, d \in Calls : c = d
             PROVE  Spec => [](BalanceIsLedgerSum /\ PointsAreLedgerSum)
  OBVIOUS
<1>1. EarnsReadAlone
  BY DEF EarnsReadAlone
<1> QED
  BY <1>1, PointsNeedALock, BalancesBalance, PTL

-----------------------------------------------------------------------------
(* The lock order                                                          *)

\* What a transaction still has to do, the leg it is at included.
Ahead(c) == todo[c] \cup ({leg[c]} \ {NoEntry})

\* A checkout works through one request, has written a row for each balance it
\* holds, and comes to the balances in the order of their ranks.
QueueInv ==
  \A c \in Calls :
    /\ \A a \in Accounts : lock[a] = c => \E e \in done[c] : Account[e] = a
    /\ task[c] = "spend" =>
         /\ \E X \in Requests : done[c] \cup Ahead(c) \subseteq X
         /\ \A x \in done[c], y \in Ahead(c) : LockRank(Account[x]) <= LockRank(Account[y])
         /\ leg[c] # NoEntry =>
              \A y \in todo[c] : LockRank(Account[leg[c]]) <= LockRank(Account[y])

\* A rank belongs to one type of balance.
LEMMA RankOfKind ==
  /\ \A a \in Accounts : LockRank(a) \in Nat
  /\ \A a, b \in Accounts : LockRank(a) = LockRank(b) => Kind[a] = Kind[b]
  BY AccountAssumption DEF LockRank

\* The leg chosen next has the lowest rank of those that are left.
LEMMA ChosenFirst ==
  ASSUME IInv, NEW c \in Calls, NEW e \in Entries, Choose(c, e), task[c] = "spend"
  PROVE  \A y \in todo[c] : LockRank(Account[e]) <= LockRank(Account[y])
  BY EntryAssumption, RankOfKind DEF Choose, First, Before, IInv, TypeOK

LEMMA StepQueue == IInv /\ QueueInv /\ [Next]_vars => QueueInv'
<1> SUFFICES ASSUME IInv, QueueInv, [Next]_vars PROVE QueueInv'
  OBVIOUS
<1> USE DEF IInv
\* The invariant is about one call at a time.
<1> DEFINE Held1(d) == \A a \in Accounts : lock[a] = d => \E e \in done[d] : Account[e] = a
           Queue(d) == task[d] = "spend" =>
             /\ \E X \in Requests : done[d] \cup Ahead(d) \subseteq X
             /\ \A x \in done[d], y \in Ahead(d) : LockRank(Account[x]) <= LockRank(Account[y])
             /\ leg[d] # NoEntry =>
                  \A y \in todo[d] : LockRank(Account[leg[d]]) <= LockRank(Account[y])
<1>1. \A d \in Calls : Held1(d) /\ Queue(d)
  BY DEF QueueInv
<1>2. ASSUME \A d \in Calls : Held1(d)' /\ Queue(d)'
      PROVE  QueueInv'
  BY <1>2 DEF QueueInv
<1>3. ASSUME NEW d \in Calls, \A a \in Accounts : lock'[a] = d => lock[a] = d,
             done'[d] = done[d], leg'[d] = leg[d], todo'[d] = todo[d], task'[d] = task[d]
      PROVE  Held1(d)' /\ Queue(d)'
  <2>1. Ahead(d)' = Ahead(d)
    BY <1>3 DEF Ahead
  <2> QED
    BY <1>1, <1>3, <2>1 DEF LockRank
<1>4. ASSUME NEW c \in Calls, NEW X \in Requests, spend(c, X)
      PROVE  QueueInv'
  <2>1. /\ lock' = lock /\ done' = done /\ leg' = leg /\ leg[c] = NoEntry /\ done[c] = {}
        /\ todo' = [todo EXCEPT ![c] = X] /\ task' = [task EXCEPT ![c] = "spend"]
    BY <1>4 DEF spend, Begin, LegInv
  <2>2. Ahead(c)' \subseteq X
    BY <2>1 DEF Ahead, TypeOK
  <2>3. Held1(c)' /\ Queue(c)'
    BY <1>1, <2>1, <2>2
  <2>4. \A d \in Calls \ {c} : Held1(d)' /\ Queue(d)'
    BY <1>3, <2>1 DEF TypeOK
  <2> QED
    BY <1>2, <2>3, <2>4
<1>5. ASSUME NEW c \in Calls, \/ \E e \in Credits : credit(c, e)
                              \/ \E o \in Orders : cancel(c, o)
      PROVE  QueueInv'
  <2>1. /\ lock' = lock /\ done' = done /\ leg' = leg
        /\ task' = [task EXCEPT ![c] = "credit"] \/ task' = [task EXCEPT ![c] = "cancel"]
        /\ \A d \in Calls \ {c} : todo'[d] = todo[d]
    BY <1>5 DEF credit, cancel, Begin, TypeOK
  <2>2. Held1(c)' /\ Queue(c)'
    BY <1>1, <2>1 DEF TypeOK
  <2>3. \A d \in Calls \ {c} : Held1(d)' /\ Queue(d)'
    BY <1>3, <2>1 DEF TypeOK
  <2> QED
    BY <1>2, <2>2, <2>3
<1>6. ASSUME NEW c \in Calls, NEW x \in Apps, Flip(c, x)
      PROVE  QueueInv'
  <2>1. /\ task' = task /\ task[c] = "cancel" /\ done' = done
        /\ \A d \in Calls \ {c} : todo'[d] = todo[d] /\ leg'[d] = leg[d]
    BY <1>6 DEF Flip, TypeOK
  <2>2. \A a \in Accounts : lock'[a] = lock[a]
    <3>1. lock' = lock \/ lock' = [lock EXCEPT ![x] = c]
      BY <1>6 DEF Flip, Lock
    <3> QED
      BY <3>1, AccountAssumption DEF TypeOK, Rows
  <2>3. Held1(c)' /\ Queue(c)'
    BY <1>1, <2>1, <2>2
  <2>4. \A d \in Calls \ {c} : Held1(d)' /\ Queue(d)'
    BY <1>3, <2>1, <2>2
  <2> QED
    BY <1>2, <2>3, <2>4
<1>7. ASSUME NEW c \in Calls, NEW e \in Entries, Choose(c, e)
      PROVE  QueueInv'
  <2>1. /\ lock' = lock /\ done' = done /\ task' = task /\ e \in todo[c] /\ leg[c] = NoEntry
        /\ todo' = [todo EXCEPT ![c] = @ \ {e}] /\ leg' = [leg EXCEPT ![c] = e]
        /\ e # NoEntry
    BY <1>7, EntryAssumption DEF Choose, LegInv
  <2>2. Ahead(c)' = Ahead(c)
    BY <2>1 DEF Ahead, TypeOK
  <2>3. task[c] = "spend" => \A y \in todo'[c] : LockRank(Account[leg'[c]]) <= LockRank(Account[y])
    BY <1>7, <2>1, ChosenFirst DEF TypeOK
  <2>4. Held1(c)' /\ Queue(c)'
    BY <1>1, <2>1, <2>2, <2>3 DEF LockRank
  <2>5. \A d \in Calls \ {c} : Held1(d)' /\ Queue(d)'
    BY <1>3, <2>1 DEF TypeOK
  <2> QED
    BY <1>2, <2>4, <2>5
<1>8. ASSUME NEW c \in Calls, Lookup(c)
      PROVE  QueueInv'
  BY <1>2, <1>3, <1>8 DEF Lookup
<1>9. ASSUME NEW c \in Calls, Replay(c)
      PROVE  QueueInv'
  <2>1. /\ lock' = lock /\ done' = done /\ task' = task /\ todo' = todo /\ task[c] # "spend"
        /\ leg' = [leg EXCEPT ![c] = NoEntry]
    BY <1>9 DEF Replay
  <2>2. Held1(c)' /\ Queue(c)'
    BY <1>1, <2>1
  <2>3. \A d \in Calls \ {c} : Held1(d)' /\ Queue(d)'
    BY <1>3, <2>1 DEF TypeOK
  <2> QED
    BY <1>2, <2>2, <2>3
<1>10. ASSUME NEW c \in Calls, Redeem(c) \/ Credit(c)
       PROVE  QueueInv'
  <2>1. PICK e, a, new : /\ e \in Entries /\ a \in Accounts
                         /\ e = leg[c] /\ a = Account[e] /\ Write(c, new)
    BY <1>10, EntryAssumption, AppAssumption DEF Redeem, Credit
  <2>2. /\ lock[a] \in {NoCall, c} /\ lock' = [lock EXCEPT ![a] = c] /\ e # NoEntry
        /\ done' = [done EXCEPT ![c] = @ \cup {e}] /\ leg' = [leg EXCEPT ![c] = NoEntry]
        /\ task' = task /\ todo' = todo
    BY <2>1, EntryAssumption DEF Write, Free, Lock
  <2>3. \A b \in Accounts : lock'[b] = IF b = a THEN c ELSE lock[b]
    BY <2>1, <2>2 DEF TypeOK, Rows
  <2>4. Held1(c)'
    BY <1>1, <2>1, <2>2, <2>3 DEF TypeOK
  <2>5. done'[c] = done[c] \cup {e} /\ leg'[c] = NoEntry
    BY <2>2 DEF TypeOK
  <2>6. Ahead(c) = todo[c] \cup {e} /\ Ahead(c)' = todo[c]
    BY <2>1, <2>2, <2>5 DEF Ahead
  <2>7. Queue(c)'
    BY <1>1, <2>1, <2>2, <2>5, <2>6 DEF LockRank
  <2>8. ASSUME NEW d \in Calls \ {c}
        PROVE  Held1(d)' /\ Queue(d)'
    <3>1. d # c
      OBVIOUS
    <3>2. \A b \in Accounts : lock'[b] = d => lock[b] = d
      BY <2>3, <3>1
    <3>3. done'[d] = done[d] /\ leg'[d] = leg[d] /\ todo'[d] = todo[d] /\ task'[d] = task[d]
      BY <2>2, <3>1 DEF TypeOK
    <3> QED
      BY <1>3, <3>2, <3>3
  <2> QED
    BY <1>2, <2>4, <2>7, <2>8
<1>11. ASSUME NEW c \in Calls, Commit(c) \/ Rollback(c)
       PROVE  QueueInv'
  <2>1. Leave(c)
    BY <1>11 DEF Commit, Rollback
  <2>2. /\ \A a \in Accounts : lock'[a] # c /\ \A d \in Calls : lock'[a] = d => lock[a] = d
        /\ task'[c] = "none"
        /\ \A d \in Calls \ {c} : /\ done'[d] = done[d] /\ leg'[d] = leg[d]
                                  /\ todo'[d] = todo[d] /\ task'[d] = task[d]
    BY <2>1, CallAssumption DEF Leave, TypeOK, Rows
  <2>3. Held1(c)' /\ Queue(c)'
    BY <2>2
  <2>4. \A d \in Calls \ {c} : Held1(d)' /\ Queue(d)'
    BY <1>3, <2>2
  <2> QED
    BY <1>2, <2>3, <2>4
<1>12. ASSUME UNCHANGED vars
       PROVE  QueueInv'
  BY <1>2, <1>3, <1>12 DEF vars
<1> QED
  BY <1>4, <1>5, <1>6, <1>7, <1>8, <1>9, <1>10, <1>11, <1>12 DEF Next

LEMMA InitQueue == Init => QueueInv
<1> SUFFICES ASSUME Init PROVE QueueInv
  OBVIOUS
<1> QED
  BY CallAssumption DEF Init, QueueInv, Rows

\* Whoever a waiting checkout waits for, if it waits too, waits for a balance
\* of at least that rank: it holds the first balance, so its own comes later.
Climbs(c, d, e) ==
  task[c] = "spend" /\ task[d] = "spend" /\ WaitsFor(c, d) /\ WaitsFor(d, e)
    => LockRank(Account[leg[c]]) <= LockRank(Account[leg[d]])

\* Along a chain of waiting checkouts, however long, the ranks never fall.
WaitsClimb == \A c, d, e \in Calls : Climbs(c, d, e)

LEMMA ClimbStep ==
  ASSUME IInv, QueueInv, NEW c \in Calls, NEW d \in Calls, NEW e \in Calls
  PROVE  Climbs(c, d, e)
<1> SUFFICES ASSUME task[c] = "spend", task[d] = "spend", WaitsFor(c, d), WaitsFor(d, e)
             PROVE  LockRank(Account[leg[c]]) <= LockRank(Account[leg[d]])
  BY DEF Climbs
<1>1. /\ leg[c] \in Entries /\ lock[Account[leg[c]]] = d
      /\ leg[d] \in Entries
  BY DEF WaitsFor, Wants, IInv, TypeOK, LegInv
<1>2. PICK x \in done[d] : Account[x] = Account[leg[c]]
  BY <1>1, EntryAssumption DEF QueueInv
<1>3. leg[d] \in Ahead(d)
  BY <1>1, EntryAssumption DEF Ahead
<1>4. LockRank(Account[x]) <= LockRank(Account[leg[d]])
  BY <1>3 DEF QueueInv
<1> QED
  BY <1>2, <1>4

LEMMA Queued == Spec => [](IInv /\ QueueInv)
  BY InitQueue, StepQueue, Invariance, PTL DEF Spec

\* For any requests, the ranks never fall along a chain of waiting checkouts, so
\* that a circle of any length runs through balances of one rank.
THEOREM RanksClimb == Spec => []WaitsClimb
<1>1. IInv /\ QueueInv => WaitsClimb
  BY ClimbStep DEF WaitsClimb
<1> QED
  BY <1>1, Queued, PTL

\* Two checkouts that wait for each other want two balances of one type: this
\* much STORED_VALUE_LOCK_RANK achieves, and no more where a request names two.
THEOREM NoMixedCircles == Spec => []CirclesStayInOneType
<1>1. ASSUME IInv, QueueInv PROVE CirclesStayInOneType
  <2> SUFFICES ASSUME NEW c \in Calls, NEW d \in Calls, SpendsWaitInCircle(c, d)
               PROVE  Kind[Account[leg[c]]] = Kind[Account[leg[d]]]
    BY DEF CirclesStayInOneType
  <2>1. /\ LockRank(Account[leg[c]]) <= LockRank(Account[leg[d]])
        /\ LockRank(Account[leg[d]]) <= LockRank(Account[leg[c]])
    BY <1>1, ClimbStep DEF Climbs, SpendsWaitInCircle
  <2>2. Account[leg[c]] \in Accounts /\ Account[leg[d]] \in Accounts
    BY <1>1, EntryAssumption DEF SpendsWaitInCircle, WaitsFor, Wants, IInv, TypeOK, LegInv
  <2>3. LockRank(Account[leg[c]]) = LockRank(Account[leg[d]])
    BY <2>1, <2>2, RankOfKind
  <2> QED
    BY <2>2, <2>3, RankOfKind
<1> QED
  BY <1>1, Queued, PTL
=============================================================================
