---------------------------- MODULE RefundProofs ----------------------------
(***************************************************************************)
(* Proofs about the refund service, for any number of keys, concurrent     *)
(* calls, payments and credit applications.                                *)
(***************************************************************************)
EXTENDS OrderRefund, TotalTheorems, TLAPS

\* A row is the one its key asked for, and a key without a row has no history.
RowInv ==
  \A k \in Keys :
    /\ row[k] = NoRequest <=> status[k] = "none"
    /\ row[k] # NoRequest => row[k].key = k
    /\ row[k] = NoRequest => granted[k] = 0 /\ processed[k] = 0 /\ issued[k] = 0

\* A refund that waits to be processed has an approval nobody has used yet.
CountInv ==
  \A k \in Keys :
    /\ processed[k] <= granted[k]
    /\ status[k] = "APPROVED" => processed[k] < granted[k]
    /\ status[k] = "PENDING_APPROVAL" => granted[k] = 0
    /\ status[k] = "PROCESSED" => processed[k] > 0

\* A call that processes a refund holds its row, which stays APPROVED.
CallInv ==
  \A c \in Calls :
    /\ pc[c] = "idle" <=> task[c] = "none"
    /\ pc[c] # "idle" => asked[c] \in Requests
    /\ task[c] \in {"approve", "process"} => row[Key(c)] = asked[c]
    /\ task[c] = "process" => rowLock[Key(c)] = c /\ status[Key(c)] = "APPROVED"

IInv == TypeOK /\ RowInv /\ CountInv /\ ValueIssuedOnce /\ CallInv

-----------------------------------------------------------------------------

\* Every request names a key, so a call works on one of the rows.
LEMMA RequestKey == \A r \in Requests : r.key \in Keys /\ r # NoRequest
  BY RequestAssumption DEF Request

\* The order without refunds satisfies the invariant.
LEMMA InitIInv == Init => IInv
  BY DEF Init, IInv, TypeOK, RowInv, CountInv, ValueIssuedOnce, CallInv, Statuses

\* Each action preserves each part of the invariant.
LEMMA StepIInv == IInv /\ [Next]_vars => IInv'
<1> SUFFICES ASSUME IInv, [Next]_vars PROVE IInv'
  OBVIOUS
<1> USE RequestKey, CallAssumption DEF IInv, tableVars, callVars
<1>1. ASSUME NEW c \in Calls, NEW r \in Requests, initiateRefund(c, r)
      PROVE  IInv'
  <2>1. TypeOK'
    BY <1>1 DEF initiateRefund, Begin, TypeOK, CallInv, Statuses, Key
  <2>2. RowInv'
    BY <1>1 DEF initiateRefund, Begin, TypeOK, RowInv, CallInv, Key, Request
  <2>3. CountInv'
    BY <1>1 DEF initiateRefund, Begin, TypeOK, RowInv, CountInv, CallInv, Key
  <2>4. ValueIssuedOnce'
    BY <1>1 DEF initiateRefund, Begin, TypeOK, RowInv, CountInv, ValueIssuedOnce, CallInv, Key
  <2>5. CallInv'
    BY <1>1 DEF initiateRefund, Begin, TypeOK, RowInv, CallInv, Key
  <2> QED
    BY <2>1, <2>2, <2>3, <2>4, <2>5
<1>2. ASSUME NEW c \in Calls, NEW k \in Keys, approveRefund(c, k)
      PROVE  IInv'
  <2>1. TypeOK'
    BY <1>2 DEF approveRefund, Begin, TypeOK, CallInv, Statuses, Key
  <2>2. RowInv'
    BY <1>2 DEF approveRefund, Begin, TypeOK, RowInv, CallInv, Key, Request
  <2>3. CountInv'
    BY <1>2 DEF approveRefund, Begin, TypeOK, RowInv, CountInv, CallInv, Key
  <2>4. ValueIssuedOnce'
    BY <1>2 DEF approveRefund, Begin, TypeOK, RowInv, CountInv, ValueIssuedOnce, CallInv, Key
  <2>5. CallInv'
    BY <1>2 DEF approveRefund, Begin, TypeOK, RowInv, CallInv, Key
  <2> QED
    BY <2>1, <2>2, <2>3, <2>4, <2>5
<1>3. ASSUME NEW c \in Calls, NEW k \in Keys, processRefund(c, k)
      PROVE  IInv'
  <2>1. TypeOK'
    BY <1>3 DEF processRefund, Begin, Awaiting, RowFree, TypeOK, CallInv, Statuses, Key
  <2>2. RowInv'
    BY <1>3 DEF processRefund, Begin, Awaiting, RowFree, TypeOK, RowInv, CallInv, Key, Request
  <2>3. CountInv'
    BY <1>3 DEF processRefund, Begin, Awaiting, RowFree, TypeOK, RowInv, CountInv, CallInv, Key
  <2>4. ValueIssuedOnce'
    BY <1>3 DEF processRefund, Begin, Awaiting, RowFree, TypeOK, RowInv, CountInv, ValueIssuedOnce, CallInv, Key
  <2>5. CallInv'
    BY <1>3 DEF processRefund, Begin, Awaiting, RowFree, TypeOK, RowInv, CallInv, Key
  <2> QED
    BY <2>1, <2>2, <2>3, <2>4, <2>5
<1>4. ASSUME NEW c \in Calls, CheckOrder(c)
      PROVE  IInv'
  <2>1. TypeOK'
    BY <1>4 DEF CheckOrder, GoOn, TypeOK, CallInv, Statuses, Key
  <2>2. RowInv'
    BY <1>4 DEF CheckOrder, GoOn, TypeOK, RowInv, CallInv, Key, Request
  <2>3. CountInv'
    BY <1>4 DEF CheckOrder, GoOn, TypeOK, RowInv, CountInv, CallInv, Key
  <2>4. ValueIssuedOnce'
    BY <1>4 DEF CheckOrder, GoOn, TypeOK, RowInv, CountInv, ValueIssuedOnce, CallInv, Key
  <2>5. CallInv'
    BY <1>4 DEF CheckOrder, GoOn, TypeOK, RowInv, CallInv, Key
  <2> QED
    BY <2>1, <2>2, <2>3, <2>4, <2>5
<1>5. ASSUME NEW c \in Calls, CheckSource(c)
      PROVE  IInv'
  <2>1. TypeOK'
    BY <1>5 DEF CheckSource, GoOn, TypeOK, CallInv, Statuses, Key
  <2>2. RowInv'
    BY <1>5 DEF CheckSource, GoOn, TypeOK, RowInv, CallInv, Key, Request
  <2>3. CountInv'
    BY <1>5 DEF CheckSource, GoOn, TypeOK, RowInv, CountInv, CallInv, Key
  <2>4. ValueIssuedOnce'
    BY <1>5 DEF CheckSource, GoOn, TypeOK, RowInv, CountInv, ValueIssuedOnce, CallInv, Key
  <2>5. CallInv'
    BY <1>5 DEF CheckSource, GoOn, TypeOK, RowInv, CallInv, Key
  <2> QED
    BY <2>1, <2>2, <2>3, <2>4, <2>5
<1>6. ASSUME NEW c \in Calls, Rollback(c)
      PROVE  IInv'
  <2>1. TypeOK'
    BY <1>6 DEF Rollback, Leave, TypeOK, CallInv, Statuses, Key
  <2>2. RowInv'
    BY <1>6 DEF Rollback, Leave, TypeOK, RowInv, CallInv, Key, Request
  <2>3. CountInv'
    BY <1>6 DEF Rollback, Leave, TypeOK, RowInv, CountInv, CallInv, Key
  <2>4. ValueIssuedOnce'
    BY <1>6 DEF Rollback, Leave, TypeOK, RowInv, CountInv, ValueIssuedOnce, CallInv, Key
  <2>5. CallInv'
    BY <1>6 DEF Rollback, Leave, TypeOK, RowInv, CallInv, Key
  <2> QED
    BY <2>1, <2>2, <2>3, <2>4, <2>5
<1>7. ASSUME NEW c \in Calls, Insert(c)
      PROVE  IInv'
  <2>1. TypeOK'
    BY <1>7 DEF Insert, NewStatus, Leave, TypeOK, CallInv, Statuses, Key
  <2>2. RowInv'
    BY <1>7 DEF Insert, NewStatus, Leave, TypeOK, RowInv, CallInv, Key, Request
  <2>3. CountInv'
    BY <1>7 DEF Insert, NewStatus, Leave, TypeOK, RowInv, CountInv, CallInv, Key
  <2>4. ValueIssuedOnce'
    BY <1>7 DEF Insert, NewStatus, Leave, TypeOK, RowInv, CountInv, ValueIssuedOnce, CallInv, Key
  <2>5. CallInv'
    BY <1>7 DEF Insert, NewStatus, Leave, TypeOK, RowInv, CallInv, Key
  <2> QED
    BY <2>1, <2>2, <2>3, <2>4, <2>5
<1>8. ASSUME NEW c \in Calls, Approve(c)
      PROVE  IInv'
  <2>1. TypeOK'
    BY <1>8 DEF Approve, Leave, TypeOK, CallInv, Statuses, Key
  <2>2. RowInv'
    BY <1>8 DEF Approve, Leave, TypeOK, RowInv, CallInv, Key, Request
  <2>3. CountInv'
    BY <1>8 DEF Approve, Leave, TypeOK, RowInv, CountInv, CallInv, Key
  <2>4. ValueIssuedOnce'
    BY <1>8 DEF Approve, Leave, TypeOK, RowInv, CountInv, ValueIssuedOnce, CallInv, Key
  <2>5. CallInv'
    BY <1>8 DEF Approve, Leave, TypeOK, RowInv, CallInv, Key
  <2> QED
    BY <2>1, <2>2, <2>3, <2>4, <2>5
<1>9. ASSUME NEW c \in Calls, Complete(c)
      PROVE  IInv'
  <2>1. TypeOK'
    BY <1>9 DEF Complete, Pays, Leave, TypeOK, CallInv, Statuses, Key
  <2>2. RowInv'
    BY <1>9 DEF Complete, Pays, Leave, TypeOK, RowInv, CallInv, Key, Request
  <2>3. CountInv'
    BY <1>9 DEF Complete, Pays, Leave, TypeOK, RowInv, CountInv, CallInv, Key
  <2>4. ValueIssuedOnce'
    BY <1>9 DEF Complete, Pays, Leave, TypeOK, RowInv, CountInv, ValueIssuedOnce, CallInv, Key
  <2>5. CallInv'
    BY <1>9 DEF Complete, Pays, Leave, TypeOK, RowInv, CallInv, Key
  <2> QED
    BY <2>1, <2>2, <2>3, <2>4, <2>5
<1>10. ASSUME NEW p \in Payments, ReversePayment(p)
      PROVE  IInv'
  <2>1. TypeOK'
    BY <1>10 DEF ReversePayment, TypeOK, CallInv, Statuses, Key
  <2>2. RowInv'
    BY <1>10 DEF ReversePayment, TypeOK, RowInv, CallInv, Key, Request
  <2>3. CountInv'
    BY <1>10 DEF ReversePayment, TypeOK, RowInv, CountInv, CallInv, Key
  <2>4. ValueIssuedOnce'
    BY <1>10 DEF ReversePayment, TypeOK, RowInv, CountInv, ValueIssuedOnce, CallInv, Key
  <2>5. CallInv'
    BY <1>10 DEF ReversePayment, TypeOK, RowInv, CallInv, Key
  <2> QED
    BY <2>1, <2>2, <2>3, <2>4, <2>5
<1>11. ASSUME UNCHANGED vars
      PROVE  IInv'
  BY <1>11 DEF vars, TypeOK, RowInv, CountInv, ValueIssuedOnce, CallInv, Key
<1> QED
  BY <1>1, <1>2, <1>3, <1>4, <1>5, <1>6, <1>7, <1>8, <1>9, <1>10, <1>11 DEF Next, Progress

\* The invariant holds throughout.
THEOREM Invariance == Spec => []IInv
  BY InitIInv, StepIInv, PTL DEF Spec

\* Every variable keeps its type, for refunds and calls of any number.
THEOREM TypeCorrect == Spec => []TypeOK
  BY Invariance, PTL DEF IInv

\* No refund is processed more often than it was approved.
THEOREM ApprovalGate == Spec => []ProcessedWasGranted
<1>1. IInv => ProcessedWasGranted
  BY DEF IInv, CountInv, ProcessedWasGranted
<1> QED
  BY <1>1, Invariance, PTL

\* The value of a refund leaves at most once, and with a processing.
THEOREM IssuedOnce == Spec => []ValueIssuedOnce
  BY Invariance, PTL DEF IInv

-----------------------------------------------------------------------------

\* A step of a call is at most one step of the promise: the insertion asks
\* (and grants, when no approval is required), an approval grants, the first
\* processing pays, and a repeated one changes nothing of the promise.
LEMMA StepRefines == IInv /\ [Next]_vars => [Promise!Next]_([k \in Keys |-> PromiseOf(k)])
<1> SUFFICES ASSUME IInv, [Next]_vars
             PROVE  [Promise!Next]_([k \in Keys |-> PromiseOf(k)])
  OBVIOUS
<1> USE RequestKey DEF IInv
<1>1. ASSUME NEW c \in Calls, Insert(c)
      PROVE  Promise!Next
  <2>1. PICK k \in Keys : k = Key(c)
    BY <1>1 DEF Insert, CallInv, Key
  <2>2. /\ row[k] = NoRequest /\ row' = [row EXCEPT ![k] = asked[c]]
        /\ asked[c] # NoRequest /\ granted[k] = 0 /\ processed' = processed /\ processed[k] = 0
        /\ granted' = [granted EXCEPT ![k] = IF asked[c].approval THEN 0 ELSE 1]
    BY <1>1, <2>1 DEF Insert, CallInv, RowInv
  <2>3. PromiseOf(k) = "none" /\ \A j \in Keys \ {k} : PromiseOf(j)' = PromiseOf(j)
    BY <2>2 DEF PromiseOf, TypeOK
  <2>4. PromiseOf(k)' = IF asked[c].approval THEN "asked" ELSE "granted"
    BY <2>2 DEF PromiseOf, TypeOK
  <2>5. Promise!Ask(k) \/ Promise!Grant(k)
    BY <2>3, <2>4 DEF Promise!Ask, Promise!Grant, Promise!Move
  <2> QED
    BY <2>5 DEF Promise!Next
<1>2. ASSUME NEW c \in Calls, Approve(c)
      PROVE  [Promise!Next]_([k \in Keys |-> PromiseOf(k)])
  <2>1. PICK k \in Keys : k = Key(c)
    BY <1>2 DEF Approve, CallInv, Key
  <2>2. /\ row' = row /\ row[k] # NoRequest /\ processed' = processed
        /\ granted' = [granted EXCEPT ![k] = @ + 1]
    BY <1>2, <2>1 DEF Approve, CallInv
  <2>3. \A j \in Keys \ {k} : PromiseOf(j)' = PromiseOf(j)
    BY <2>2 DEF PromiseOf, TypeOK
  <2>4. CASE processed[k] = 0 /\ granted[k] = 0
    <3>1. PromiseOf(k) = "asked" /\ PromiseOf(k)' = "granted"
      BY <2>2, <2>4 DEF PromiseOf, TypeOK
    <3>2. Promise!Grant(k)
      BY <2>3, <3>1 DEF Promise!Grant, Promise!Move
    <3> QED
      BY <3>2 DEF Promise!Next
  <2>5. CASE processed[k] # 0 \/ granted[k] # 0
    <3>1. PromiseOf(k)' = PromiseOf(k)
      BY <2>2, <2>5 DEF PromiseOf, TypeOK
    <3> QED
      BY <2>3, <3>1
  <2> QED
    BY <2>4, <2>5
<1>3. ASSUME NEW c \in Calls, Complete(c)
      PROVE  [Promise!Next]_([k \in Keys |-> PromiseOf(k)])
  <2>1. PICK k \in Keys : k = Key(c)
    BY <1>3 DEF Complete, CallInv, Key
  <2>2. /\ row' = row /\ granted' = granted /\ granted[k] > 0
        /\ processed' = [processed EXCEPT ![k] = @ + 1]
    BY <1>3, <2>1 DEF Complete, CallInv, CountInv, TypeOK
  <2>3. \A j \in Keys \ {k} : PromiseOf(j)' = PromiseOf(j)
    BY <2>2 DEF PromiseOf, TypeOK
  <2>4. PromiseOf(k)' = "paid"
    BY <2>2 DEF PromiseOf, TypeOK
  <2>5. CASE processed[k] = 0
    <3>1. PromiseOf(k) = "granted"
      BY <2>2, <2>5 DEF PromiseOf
    <3>2. Promise!Pay(k)
      BY <2>3, <2>4, <3>1 DEF Promise!Pay, Promise!Move
    <3> QED
      BY <3>2 DEF Promise!Next
  <2>6. CASE processed[k] # 0
    <3>1. PromiseOf(k) = "paid"
      BY <2>6 DEF PromiseOf, TypeOK
    <3> QED
      BY <2>3, <2>4, <3>1
  <2> QED
    BY <2>5, <2>6
<1>4. ASSUME \/ \E c \in Calls : \/ \E r \in Requests : initiateRefund(c, r)
                               \/ \E k \in Keys : approveRefund(c, k) \/ processRefund(c, k)
                               \/ CheckOrder(c) \/ CheckSource(c) \/ Rollback(c)
             \/ \E p \in Payments : ReversePayment(p)
             \/ UNCHANGED vars
      PROVE  UNCHANGED [k \in Keys |-> PromiseOf(k)]
  <2>1. UNCHANGED <<row, granted, processed>>
    BY <1>4 DEF initiateRefund, approveRefund, processRefund, CheckOrder, CheckSource,
                Rollback, ReversePayment, tableVars, vars
  <2> QED
    BY <2>1 DEF PromiseOf
<1> QED
  BY <1>1, <1>2, <1>3, <1>4 DEF Next, Progress

\* The refund service keeps the promise for every request.
THEOREM Refinement == Spec => RefinesPromise
<1>1. Init => Promise!Init
  BY DEF Init, Promise!Init, PromiseOf
<1>2. IInv /\ [Next]_vars => [Promise!Next]_([k \in Keys |-> PromiseOf(k)])
  BY StepRefines
<1> QED
  BY <1>1, <1>2, Invariance, PTL DEF Spec, RefinesPromise, Promise!Spec

-----------------------------------------------------------------------------
(* The caps.  The row a processing call locks is its own refund's, so the  *)
(* caps hold only where something else keeps two checks from overlapping.  *)

\* The caps of the rows that are PROCESSED now, those the code adds up.
SourceWithin == \A s \in Sources : Refunded(ProcessedOf(s)) <= Worth[s]
OrderWithin  == Refunded(ProcessedKeys) <= SumOver(Worth, Sources)

\* While no approval comes late, they are the rows ever processed.
PaidInv == \A k \in Keys : processed[k] > 0 <=> status[k] = "PROCESSED"

\* A call that has passed a cap still fits under it.
SourceInv ==
  /\ SourceWithin
  /\ \A c \in Calls, s \in Sources :
       pc[c] = "write" /\ task[c] = "process" /\ asked[c].source = s =>
         asked[c].amount + Refunded(ProcessedOf(s)) <= Worth[s]

OrderInv ==
  /\ OrderWithin
  /\ \A c \in Calls :
       pc[c] \in {"source", "write"} /\ task[c] = "process" =>
         asked[c].amount + Refunded(ProcessedKeys) <= SumOver(Worth, Sources)

\* A part of the rows, their amounts unchanged, sums up to no more.
LEMMA SumKept ==
  ASSUME NEW v, NEW w, NEW P, IsFiniteSet(P), NEW Q \in SUBSET P,
         \A x \in P : v[x] \in Nat, \A x \in Q : w[x] = v[x]
  PROVE  SumOver(w, Q) <= SumOver(v, P)
<1>1. IsFiniteSet(Q)
  BY FS_Subset
<1>2. SumOver(w, Q) = SumOver(v, Q)
  BY <1>1, SumEqual
<1> QED
  BY <1>2, SumSubset

\* One more row adds its amount.
LEMMA SumGrown ==
  ASSUME NEW v, NEW w, NEW P, IsFiniteSet(P), NEW x, x \notin P,
         \A y \in P : v[y] \in Nat /\ w[y] = v[y], w[x] \in Nat
  PROVE  SumOver(w, P \cup {x}) = w[x] + SumOver(v, P)
<1>1. SumOver(w, P \cup {x}) = w[x] + SumOver(w, P)
  BY SumAdd
<1>2. SumOver(w, P) = SumOver(v, P)
  BY SumEqual
<1> QED
  BY <1>1, <1>2

\* Every row has an amount, and processed ones are rows.
LEMMA AmountNat ==
  ASSUME TypeOK
  PROVE  \A k \in Keys : Amounts[k] \in Nat
  BY RequestAssumption DEF Amounts, TypeOK, Request

LEMMA ProcessedFinite ==
  /\ IsFiniteSet(ProcessedKeys) /\ ProcessedKeys \subseteq Keys
  /\ \A s \in Sources : IsFiniteSet(ProcessedOf(s)) /\ ProcessedOf(s) \subseteq ProcessedKeys
<1>1. ProcessedKeys \in SUBSET Keys /\ \A s \in Sources : ProcessedOf(s) \in SUBSET Keys
  BY DEF ProcessedKeys, ProcessedOf
<1>2. \A S \in SUBSET Keys : IsFiniteSet(S)
  BY KeyAssumption, FS_Subset
<1> QED
  BY <1>1, <1>2 DEF ProcessedOf

\* The sums are natural numbers.
LEMMA RefundedNat ==
  ASSUME TypeOK
  PROVE  /\ Refunded(ProcessedKeys) \in Nat
         /\ \A s \in Sources : Refunded(ProcessedOf(s)) \in Nat
  BY AmountNat, ProcessedFinite, SumNat DEF Refunded

\* Only a processing call that commits adds to what has been refunded; an
\* approval of a PROCESSED row takes from it.
LEMMA OthersAddNothing ==
  ASSUME IInv, [Next]_vars, ~ \E c \in Calls : Complete(c)
  PROVE  /\ Refunded(ProcessedKeys)' <= Refunded(ProcessedKeys)
         /\ \A s \in Sources : Refunded(ProcessedOf(s))' <= Refunded(ProcessedOf(s))
<1>1. \A k \in Keys : status'[k] = "PROCESSED" => status[k] = "PROCESSED" /\ row'[k] = row[k]
  <2>1. ASSUME NEW c \in Calls, Insert(c)
        PROVE  \A k \in Keys : status'[k] = "PROCESSED" => status[k] = "PROCESSED" /\ row'[k] = row[k]
    BY <2>1, RequestKey DEF Insert, NewStatus, IInv, TypeOK, CallInv, Key
  <2>2. ASSUME NEW c \in Calls, Approve(c)
        PROVE  \A k \in Keys : status'[k] = "PROCESSED" => status[k] = "PROCESSED" /\ row'[k] = row[k]
    BY <2>2 DEF Approve, IInv, TypeOK
  <2>3. ASSUME ~ \E c \in Calls : Insert(c) \/ Approve(c)
        PROVE  row' = row /\ status' = status
    BY <2>3 DEF Next, Progress, initiateRefund, approveRefund, processRefund, CheckOrder,
                CheckSource, Rollback, ReversePayment, tableVars, vars
  <2> QED
    BY <2>1, <2>2, <2>3
<1>2. /\ ProcessedKeys' \subseteq ProcessedKeys
      /\ \A s \in Sources : ProcessedOf(s)' \subseteq ProcessedOf(s)
  BY <1>1 DEF ProcessedKeys, ProcessedOf
<1>3. \A k \in ProcessedKeys' : Amounts'[k] = Amounts[k]
  BY <1>1 DEF ProcessedKeys, Amounts
<1>4. \A k \in Keys : Amounts[k] \in Nat
  BY AmountNat DEF IInv
<1>5. PICK v, w, P, Q : /\ v = Amounts /\ w = Amounts'
                        /\ P = ProcessedKeys /\ Q = ProcessedKeys'
  OBVIOUS
<1>6. Refunded(ProcessedKeys)' <= Refunded(ProcessedKeys)
  <2>1. IsFiniteSet(P) /\ Q \in SUBSET P /\ \A x \in P : v[x] \in Nat
    BY <1>2, <1>4, <1>5, ProcessedFinite
  <2>2. \A x \in Q : w[x] = v[x]
    BY <1>3, <1>5
  <2>3. SumOver(w, Q) <= SumOver(v, P)
    BY <2>1, <2>2, SumKept
  <2> QED
    BY <1>5, <2>3 DEF Refunded
<1>7. ASSUME NEW s \in Sources
      PROVE  Refunded(ProcessedOf(s))' <= Refunded(ProcessedOf(s))
  <2>1. PICK A, B : A = ProcessedOf(s) /\ B = ProcessedOf(s)'
    OBVIOUS
  <2>2. IsFiniteSet(A) /\ B \in SUBSET A /\ A \subseteq Keys /\ B \subseteq Q
    BY <1>2, <1>5, <2>1, ProcessedFinite DEF ProcessedOf
  <2>3. SumOver(w, B) <= SumOver(v, A)
    BY <1>3, <1>4, <1>5, <2>2, SumKept
  <2> QED
    BY <1>5, <2>1, <2>3 DEF Refunded
<1> QED
  BY <1>6, <1>7

\* A processing call that commits adds its own amount, once.
LEMMA CompleteAdds ==
  ASSUME IInv, NEW c \in Calls, Complete(c)
  PROVE  /\ asked[c].amount \in Nat
         /\ Refunded(ProcessedKeys)' = asked[c].amount + Refunded(ProcessedKeys)
         /\ \A s \in Sources :
              Refunded(ProcessedOf(s))' = IF asked[c].source = s
                                            THEN asked[c].amount + Refunded(ProcessedOf(s))
                                            ELSE Refunded(ProcessedOf(s))
<1>1. PICK k \in Keys : k = Key(c)
  BY RequestKey DEF Complete, IInv, CallInv, Key
<1>2. /\ row' = row /\ row[k] = asked[c] /\ row[k] # NoRequest /\ status[k] = "APPROVED"
      /\ status' = [status EXCEPT ![k] = "PROCESSED"]
  BY <1>1, RequestKey DEF Complete, IInv, CallInv
<1>3. /\ asked[c].amount = Amounts[k] /\ Amounts' = Amounts
      /\ \A j \in Keys : Amounts[j] \in Nat
  BY <1>2, AmountNat DEF IInv, Amounts
<1>4. /\ k \notin ProcessedKeys /\ ProcessedKeys' = ProcessedKeys \cup {k}
      /\ \A s \in Sources :
           /\ k \notin ProcessedOf(s)
           /\ asked[c].source = s => ProcessedOf(s)' = ProcessedOf(s) \cup {k}
           /\ asked[c].source # s => ProcessedOf(s)' = ProcessedOf(s)
  BY <1>2 DEF ProcessedKeys, ProcessedOf, IInv, TypeOK
<1>5. Refunded(ProcessedKeys)' = asked[c].amount + Refunded(ProcessedKeys)
  <2>1. SumOver(Amounts, ProcessedKeys \cup {k}) = Amounts[k] + SumOver(Amounts, ProcessedKeys)
    BY <1>3, <1>4, ProcessedFinite, SumGrown
  <2> QED
    BY <1>3, <1>4, <2>1 DEF Refunded
<1>6. ASSUME NEW s \in Sources, asked[c].source = s
      PROVE  Refunded(ProcessedOf(s))' = asked[c].amount + Refunded(ProcessedOf(s))
  <2>1. SumOver(Amounts, ProcessedOf(s) \cup {k}) = Amounts[k] + SumOver(Amounts, ProcessedOf(s))
    BY <1>3, <1>4, ProcessedFinite, SumGrown
  <2> QED
    BY <1>3, <1>4, <1>6, <2>1 DEF Refunded
<1>7. ASSUME NEW s \in Sources, asked[c].source # s
      PROVE  Refunded(ProcessedOf(s))' = Refunded(ProcessedOf(s))
  BY <1>3, <1>4, <1>7 DEF Refunded
<1> QED
  BY <1>3, <1>5, <1>6, <1>7

\* A step moves a call past the cap of its source only by checking it.
LEMMA PassSource ==
  ASSUME IInv, [Next]_vars, NEW c \in Calls, pc'[c] = "write", task'[c] = "process"
  PROVE  /\ task[c] = "process" /\ asked'[c] = asked[c]
         /\ pc[c] = "write" \/ CheckSource(c)
<1>1. CASE \E d \in Calls : Insert(d) \/ Approve(d) \/ Complete(d) \/ Rollback(d)
  BY <1>1 DEF Insert, Approve, Complete, Rollback, Leave, IInv, TypeOK
<1>2. CASE \E d \in Calls : \E r \in Requests : initiateRefund(d, r)
  BY <1>2 DEF initiateRefund, Begin, IInv, TypeOK
<1>3. CASE \E d \in Calls, k \in Keys : approveRefund(d, k) \/ processRefund(d, k)
  BY <1>3 DEF approveRefund, processRefund, Begin, IInv, TypeOK
<1>4. CASE \E d \in Calls : CheckOrder(d) \/ CheckSource(d)
  BY <1>4 DEF CheckOrder, CheckSource, GoOn, IInv, TypeOK
<1>5. CASE UNCHANGED vars \/ \E p \in Payments : ReversePayment(p)
  BY <1>5 DEF ReversePayment, callVars, vars
<1> QED
  BY <1>1, <1>2, <1>3, <1>4, <1>5 DEF Next, Progress

\* The same of the cap of the order.
LEMMA PassOrder ==
  ASSUME IInv, [Next]_vars, NEW c \in Calls,
         pc'[c] \in {"source", "write"}, task'[c] = "process"
  PROVE  /\ task[c] = "process" /\ asked'[c] = asked[c]
         /\ pc[c] \in {"source", "write"} \/ CheckOrder(c)
<1>1. CASE \E d \in Calls : Insert(d) \/ Approve(d) \/ Complete(d) \/ Rollback(d)
  BY <1>1 DEF Insert, Approve, Complete, Rollback, Leave, IInv, TypeOK
<1>2. CASE \E d \in Calls : \E r \in Requests : initiateRefund(d, r)
  BY <1>2 DEF initiateRefund, Begin, IInv, TypeOK
<1>3. CASE \E d \in Calls, k \in Keys : approveRefund(d, k) \/ processRefund(d, k)
  BY <1>3 DEF approveRefund, processRefund, Begin, IInv, TypeOK
<1>4. CASE \E d \in Calls : CheckOrder(d) \/ CheckSource(d)
  BY <1>4 DEF CheckOrder, CheckSource, GoOn, IInv, TypeOK
<1>5. CASE UNCHANGED vars \/ \E p \in Payments : ReversePayment(p)
  BY <1>5 DEF ReversePayment, callVars, vars
<1> QED
  BY <1>1, <1>2, <1>3, <1>4, <1>5 DEF Next, Progress

\* While checks of one source do not overlap, a step keeps the refunds of a
\* source, and every refund that passed its cap, within the source.
LEMMA StepSource == IInv /\ IInv' /\ SourceInv /\ OneCheckPerSource /\ [Next]_vars => SourceInv'
<1> SUFFICES ASSUME IInv, IInv', SourceInv, OneCheckPerSource, [Next]_vars PROVE SourceInv'
  OBVIOUS
<1>1. /\ \A s \in Sources : Worth[s] \in Nat /\ s # NoSource
      /\ \A s \in Sources : Refunded(ProcessedOf(s)) \in Nat
      /\ \A s \in Sources : Refunded(ProcessedOf(s))' \in Nat
      /\ \A c \in Calls : pc[c] # "idle" => asked[c].amount \in Nat
  <2>1. \A s \in Sources : Refunded(ProcessedOf(s)) \in Nat
    BY RefundedNat DEF IInv
  <2>2. \A s \in Sources : Refunded(ProcessedOf(s))' \in Nat
    <3>1. (TypeOK => \A s \in Sources : Refunded(ProcessedOf(s)) \in Nat)'
      BY RefundedNat, PTL
    <3> QED
      BY <3>1 DEF IInv
  <2>3. \A c \in Calls : pc[c] # "idle" => asked[c].amount \in Nat
    BY RequestAssumption DEF IInv, CallInv, Request
  <2> QED
    BY <2>1, <2>2, <2>3, WorthAssumption, SourceAssumption
<1>2. CASE \E d \in Calls : Complete(d)
  <2>1. PICK d \in Calls : Complete(d)
    BY <1>2
  <2>2. task[d] = "process" /\ pc[d] = "write"
    BY <2>1 DEF Complete
  <2>3. SourceWithin'
    <3> SUFFICES ASSUME NEW s \in Sources
                 PROVE  Refunded(ProcessedOf(s))' <= Worth[s]
      BY DEF SourceWithin
    <3> QED
      BY <2>1, <2>2, CompleteAdds DEF SourceInv, SourceWithin
  <2>4. ASSUME NEW c \in Calls, NEW s \in Sources,
               pc'[c] = "write", task'[c] = "process", asked'[c].source = s
        PROVE  asked'[c].amount + Refunded(ProcessedOf(s))' <= Worth[s]
    <3>1. c # d /\ task[c] = "process" /\ asked'[c] = asked[c] /\ pc[c] = "write"
      <4>1. pc'[d] = "idle" /\ \A e \in Calls \ {d} : pc'[e] = pc[e]
        BY <2>1 DEF Complete, Leave, IInv, TypeOK
      <4> QED
        BY <2>4, <4>1, PassSource
    <3>2. asked[d].source # s
      BY <2>2, <2>4, <3>1 DEF OneCheckPerSource
    <3>3. Refunded(ProcessedOf(s))' = Refunded(ProcessedOf(s))
      BY <2>1, <3>2, CompleteAdds
    <3> QED
      BY <2>4, <3>1, <3>3 DEF SourceInv
  <2> QED
    BY <2>3, <2>4 DEF SourceInv
<1>3. CASE ~ \E d \in Calls : Complete(d)
  <2>1. \A s \in Sources : Refunded(ProcessedOf(s))' <= Refunded(ProcessedOf(s))
    BY <1>3, OthersAddNothing
  <2>2. SourceWithin'
    <3> SUFFICES ASSUME NEW s \in Sources
                 PROVE  Refunded(ProcessedOf(s))' <= Worth[s]
      BY DEF SourceWithin
    <3> QED
      BY <1>1, <2>1 DEF SourceInv, SourceWithin
  <2>3. ASSUME NEW c \in Calls, NEW s \in Sources,
               pc'[c] = "write", task'[c] = "process", asked'[c].source = s
        PROVE  asked'[c].amount + Refunded(ProcessedOf(s))' <= Worth[s]
    <3>1. /\ task[c] = "process" /\ asked'[c] = asked[c]
          /\ pc[c] = "write" \/ CheckSource(c)
      BY <2>3, PassSource
    <3>2. asked[c].amount + Refunded(ProcessedOf(s)) <= Worth[s]
      <4>1. CASE pc[c] = "write"
        BY <2>3, <3>1, <4>1 DEF SourceInv
      <4>2. CASE CheckSource(c)
        BY <1>1, <2>3, <3>1, <4>2 DEF CheckSource, SourceCap, WithinSource
      <4> QED
        BY <3>1, <4>1, <4>2
    <3>3. asked[c].amount \in Nat
      BY <1>1, <3>1 DEF CheckSource
    <3> QED
      BY <1>1, <2>1, <3>1, <3>2, <3>3
  <2> QED
    BY <2>2, <2>3 DEF SourceInv
<1> QED
  BY <1>2, <1>3

\* The same of the cap of the order; what its payments and credit applications
\* brought in is the most that a check can find.
LEMMA StepOrder == IInv /\ IInv' /\ OrderInv /\ OneCheckPerOrder /\ [Next]_vars => OrderInv'
<1> SUFFICES ASSUME IInv, IInv', OrderInv, OneCheckPerOrder, [Next]_vars PROVE OrderInv'
  OBVIOUS
<1> DEFINE total == SumOver(Worth, Sources)
<1>1. /\ total \in Nat /\ GrossApplied \in Nat /\ GrossApplied <= total
      /\ Refunded(ProcessedKeys) \in Nat /\ Refunded(ProcessedKeys)' \in Nat
      /\ \A c \in Calls : pc[c] # "idle" => asked[c].amount \in Nat
  <2>1. Refunded(ProcessedKeys) \in Nat
    BY RefundedNat DEF IInv
  <2>2. Refunded(ProcessedKeys)' \in Nat
    <3>1. (TypeOK => Refunded(ProcessedKeys) \in Nat)'
      BY RefundedNat, PTL
    <3> QED
      BY <3>1 DEF IInv
  <2>3. \A c \in Calls : pc[c] # "idle" => asked[c].amount \in Nat
    BY RequestAssumption DEF IInv, CallInv, Request
  <2>4. \A s \in Sources : Worth[s] \in Nat
    BY WorthAssumption
  <2> DEFINE paid == {p \in Payments : payment[p] = "COMPLETED"} \cup CreditApps
  <2>5. paid \in SUBSET Sources /\ IsFiniteSet(paid)
    <3>1. paid \in SUBSET Sources
      BY DEF Sources
    <3> QED
      BY <3>1, SourceAssumption, FS_Subset
  <2>6. total \in Nat
    BY <2>4, SourceAssumption, SumNat
  <2>7. SumOver(Worth, paid) \in Nat /\ SumOver(Worth, paid) <= total
    BY <2>4, <2>5, SourceAssumption, SumNat, SumSubset
  <2> QED
    BY <2>1, <2>2, <2>3, <2>6, <2>7 DEF GrossApplied
<1> HIDE DEF total
<1>2. /\ Refunded(ProcessedKeys) <= total
      /\ \A c \in Calls : pc[c] \in {"source", "write"} /\ task[c] = "process" =>
           asked[c].amount + Refunded(ProcessedKeys) <= total
  BY DEF OrderInv, OrderWithin, total
<1>3. ASSUME /\ Refunded(ProcessedKeys)' <= total
             /\ \A c \in Calls : pc'[c] \in {"source", "write"} /\ task'[c] = "process" =>
                  asked'[c].amount + Refunded(ProcessedKeys)' <= total
      PROVE  OrderInv'
  BY <1>3 DEF OrderInv, OrderWithin, total
<1>4. CASE \E d \in Calls : Complete(d)
  <2>1. PICK d \in Calls : Complete(d)
    BY <1>4
  <2>2. task[d] = "process" /\ pc[d] = "write"
    BY <2>1 DEF Complete
  <2>3. Refunded(ProcessedKeys)' <= total
    BY <1>2, <2>1, <2>2, CompleteAdds
  <2>4. ASSUME NEW c \in Calls, pc'[c] \in {"source", "write"}, task'[c] = "process"
        PROVE  FALSE
    <3>1. pc'[d] = "idle" /\ \A e \in Calls \ {d} : pc'[e] = pc[e]
      BY <2>1 DEF Complete, Leave, IInv, TypeOK
    <3>2. c # d /\ task[c] = "process" /\ pc[c] \in {"source", "write"}
      BY <2>4, <3>1, PassOrder
    <3> QED
      BY <2>2, <3>2 DEF OneCheckPerOrder
  <2> QED
    BY <1>3, <2>3, <2>4
<1>5. CASE ~ \E d \in Calls : Complete(d)
  <2>1. Refunded(ProcessedKeys)' <= Refunded(ProcessedKeys)
    BY <1>5, OthersAddNothing
  <2>2. Refunded(ProcessedKeys)' <= total
    BY <1>1, <1>2, <2>1
  <2>3. ASSUME NEW c \in Calls, pc'[c] \in {"source", "write"}, task'[c] = "process"
        PROVE  asked'[c].amount + Refunded(ProcessedKeys)' <= total
    <3>1. /\ task[c] = "process" /\ asked'[c] = asked[c]
          /\ pc[c] \in {"source", "write"} \/ CheckOrder(c)
      BY <2>3, PassOrder
    <3>2. asked[c].amount \in Nat
      BY <1>1, <3>1 DEF CheckOrder
    <3>3. asked[c].amount + Refunded(ProcessedKeys) <= total
      <4>1. CASE pc[c] \in {"source", "write"}
        BY <1>2, <3>1, <4>1
      <4>2. CASE CheckOrder(c)
        BY <1>1, <3>2, <4>2 DEF CheckOrder, WithinOrder
      <4> QED
        BY <3>1, <4>1, <4>2
    <3> QED
      BY <1>1, <2>1, <3>1, <3>2, <3>3
  <2> QED
    BY <1>3, <2>2, <2>3
<1> QED
  BY <1>4, <1>5

\* An order without refunds is within its caps.
LEMMA InitCaps == Init => SourceInv /\ OrderInv
<1> SUFFICES ASSUME Init PROVE SourceInv /\ OrderInv
  OBVIOUS
<1>1. ProcessedKeys = {} /\ \A s \in Sources : ProcessedOf(s) = {}
  BY DEF Init, ProcessedKeys, ProcessedOf
<1>2. Refunded(ProcessedKeys) = 0 /\ \A s \in Sources : Refunded(ProcessedOf(s)) = 0
  BY <1>1, SumEmpty DEF Refunded
<1>3. SumOver(Worth, Sources) \in Nat /\ \A s \in Sources : Worth[s] \in Nat
  BY WorthAssumption, SourceAssumption, SumNat
<1>4. \A c \in Calls : pc[c] = "idle"
  BY DEF Init
<1> QED
  BY <1>2, <1>3, <1>4 DEF SourceInv, OrderInv, SourceWithin, OrderWithin

\* As long as no approval comes late, PROCESSED is final.
LEMMA StepPaid == IInv /\ PaidInv /\ ApprovalsAreFresh /\ [Next]_vars => PaidInv'
<1> SUFFICES ASSUME IInv, PaidInv, ApprovalsAreFresh, [Next]_vars PROVE PaidInv'
  OBVIOUS
<1> USE RequestKey DEF IInv
<1>1. ASSUME NEW c \in Calls, Insert(c)
      PROVE  PaidInv'
  <2>1. PICK k \in Keys : k = Key(c)
    BY <1>1 DEF Insert, CallInv, Key
  <2>2. /\ processed' = processed /\ processed[k] = 0
        /\ status' = [status EXCEPT ![k] = NewStatus(asked[c])]
        /\ NewStatus(asked[c]) # "PROCESSED"
    BY <1>1, <2>1 DEF Insert, NewStatus, RowInv
  <2> QED
    BY <2>2 DEF PaidInv, TypeOK
<1>2. ASSUME NEW c \in Calls, Approve(c)
      PROVE  PaidInv'
  <2>1. PICK k \in Keys : k = Key(c)
    BY <1>2 DEF Approve, CallInv, Key
  <2>2. status[k] = "PENDING_APPROVAL"
    BY <1>2, <2>1 DEF Approve, ApprovalsAreFresh
  <2>3. processed' = processed /\ status' = [status EXCEPT ![k] = "APPROVED"]
    BY <1>2, <2>1 DEF Approve
  <2> QED
    BY <2>2, <2>3 DEF PaidInv, TypeOK
<1>3. ASSUME NEW c \in Calls, Complete(c)
      PROVE  PaidInv'
  <2>1. PICK k \in Keys : k = Key(c)
    BY <1>3 DEF Complete, CallInv, Key
  <2>2. /\ processed' = [processed EXCEPT ![k] = @ + 1] /\ processed[k] \in Nat
        /\ status' = [status EXCEPT ![k] = "PROCESSED"]
    BY <1>3, <2>1 DEF Complete, TypeOK
  <2> QED
    BY <2>2 DEF PaidInv, TypeOK
<1>4. ASSUME ~ \E c \in Calls : Insert(c) \/ Approve(c) \/ Complete(c)
      PROVE  PaidInv'
  <2>1. UNCHANGED <<status, processed>>
    BY <1>4 DEF Next, Progress, initiateRefund, approveRefund, processRefund, CheckOrder,
                CheckSource, Rollback, ReversePayment, tableVars, vars
  <2> QED
    BY <2>1 DEF PaidInv
<1> QED
  BY <1>1, <1>2, <1>3, <1>4

\* Then the caps of the rows PROCESSED now are those of all ever refunded.
LEMMA PaidAreProcessed ==
  PaidInv => PaidKeys = ProcessedKeys /\ \A s \in Sources : PaidOf(s) = ProcessedOf(s)
<1> SUFFICES ASSUME PaidInv
             PROVE  PaidKeys = ProcessedKeys /\ \A s \in Sources : PaidOf(s) = ProcessedOf(s)
  OBVIOUS
<1>1. PaidKeys = ProcessedKeys
  BY DEF PaidInv, PaidKeys, ProcessedKeys
<1> QED
  BY <1>1 DEF PaidOf, ProcessedOf

\* No approval has come late before the first call.
LEMMA InitPaid == Init => PaidInv
  BY DEF Init, PaidInv

\* What has ever been refunded of a source stays within the source as long as
\* no two refunds of it are between their cap and their commit at once and no
\* approval puts a processed refund back.
THEOREM SourceCapHolds == Spec => SourceCapIfSerial
<1>1. SourceInv /\ PaidInv => SourceNeverOverdrawn
  BY PaidAreProcessed DEF SourceInv, SourceWithin, SourceNeverOverdrawn
<1>2. Spec /\ []OneCheckPerSource => []SourceInv
  BY InitCaps, StepSource, Invariance, PTL DEF Spec
<1>3. Spec /\ []ApprovalsAreFresh => []PaidInv
  BY InitPaid, StepPaid, Invariance, PTL DEF Spec
<1> QED
  BY <1>1, <1>2, <1>3, PTL DEF SourceCapIfSerial

\* What has ever been refunded of the order stays within what was paid for it
\* as long as no two refunds of it are between the order's cap and their
\* commit at once and no approval puts a processed refund back.
THEOREM OrderCapHolds == Spec => OrderCapIfSerial
<1>1. OrderInv /\ PaidInv => OrderNeverOverdrawn
  BY PaidAreProcessed DEF OrderInv, OrderWithin, OrderNeverOverdrawn
<1>2. Spec /\ []OneCheckPerOrder => []OrderInv
  BY InitCaps, StepOrder, Invariance, PTL DEF Spec
<1>3. Spec /\ []ApprovalsAreFresh => []PaidInv
  BY InitPaid, StepPaid, Invariance, PTL DEF Spec
<1> QED
  BY <1>1, <1>2, <1>3, PTL DEF OrderCapIfSerial

\* A call alone in its transaction approves what it has read.
FreshInv ==
  \A c \in Calls : task[c] = "approve" => pc[c] = "write" /\ status[Key(c)] = "PENDING_APPROVAL"

LEMMA StepFresh ==
  ASSUME \A c, d \in Calls : c = d
  PROVE  IInv /\ FreshInv /\ [Next]_vars => FreshInv'
<1> SUFFICES ASSUME IInv, FreshInv, [Next]_vars PROVE FreshInv'
  OBVIOUS
<1> USE RequestKey DEF IInv
<1>1. ASSUME NEW c \in Calls, Insert(c) \/ Approve(c) \/ Complete(c) \/ Rollback(c)
      PROVE  FreshInv'
  <2>1. task'[c] = "none"
    BY <1>1 DEF Insert, Approve, Complete, Rollback, Leave, TypeOK
  <2> QED
    BY <2>1 DEF FreshInv
<1>2. ASSUME NEW c \in Calls, NEW r \in Requests, initiateRefund(c, r)
      PROVE  FreshInv'
  <2>1. task'[c] = "initiate"
    BY <1>2 DEF initiateRefund, Begin, TypeOK
  <2> QED
    BY <2>1 DEF FreshInv
<1>3. ASSUME NEW c \in Calls, NEW k \in Keys, approveRefund(c, k)
      PROVE  FreshInv'
  <2>1. pc'[c] = "write" /\ asked'[c] = row[k] /\ status'[k] = "PENDING_APPROVAL"
    BY <1>3 DEF approveRefund, Begin, tableVars, TypeOK
  <2>2. row[k].key = k
    BY <1>3 DEF approveRefund, RowInv
  <2> QED
    BY <2>1, <2>2 DEF FreshInv, Key
<1>4. ASSUME NEW c \in Calls, NEW k \in Keys, processRefund(c, k)
      PROVE  FreshInv'
  <2>1. task'[c] = "process"
    BY <1>4 DEF processRefund, Begin, TypeOK
  <2> QED
    BY <2>1 DEF FreshInv
<1>5. ASSUME NEW c \in Calls, CheckOrder(c) \/ CheckSource(c)
      PROVE  FreshInv'
  <2>1. task'[c] = task[c] /\ pc[c] # "write"
    BY <1>5 DEF CheckOrder, CheckSource, GoOn
  <2> QED
    BY <2>1 DEF FreshInv
<1>6. ASSUME UNCHANGED vars \/ \E p \in Payments : ReversePayment(p)
      PROVE  FreshInv'
  BY <1>6 DEF ReversePayment, tableVars, callVars, vars, FreshInv, Key
<1> QED
  BY <1>1, <1>2, <1>3, <1>4, <1>5, <1>6 DEF Next, Progress

\* One call at a time is enough for both.
THEOREM OneAtATime ==
  (\A c, d \in Calls : c = d) => (Spec => [](SourceNeverOverdrawn /\ OrderNeverOverdrawn))
<1> SUFFICES ASSUME \A c, d \in Calls : c = d
             PROVE  Spec => [](SourceNeverOverdrawn /\ OrderNeverOverdrawn)
  OBVIOUS
<1>1. OneCheckPerSource /\ OneCheckPerOrder
  BY DEF OneCheckPerSource, OneCheckPerOrder
<1>2. []OneCheckPerSource /\ []OneCheckPerOrder
  BY <1>1, PTL
<1>3. Init => FreshInv
  BY DEF Init, FreshInv
<1>4. IInv /\ FreshInv /\ [Next]_vars => FreshInv'
  BY StepFresh
<1>5. FreshInv => ApprovalsAreFresh
  BY DEF FreshInv, ApprovalsAreFresh
<1>6. Spec => []ApprovalsAreFresh
  BY <1>3, <1>4, <1>5, Invariance, PTL DEF Spec
<1>7. Spec => []SourceNeverOverdrawn /\ []OrderNeverOverdrawn
  BY <1>2, <1>6, SourceCapHolds, OrderCapHolds, PTL DEF SourceCapIfSerial, OrderCapIfSerial
<1> QED
  BY <1>7, PTL
=============================================================================
