---------------------------- MODULE PaymentProofs ----------------------------
(***************************************************************************)
(* Proofs about the payment transition service, for any number of legs,    *)
(* concurrent calls, keys, drawer sessions and requests.                   *)
(***************************************************************************)
EXTENDS PaymentTransition, FiniteSetTheorems, TLAPS

\* How far a leg has come.  Every transition leads to a higher rank.
Rank(st) ==
  IF st \in {"PENDING", "PROCESSING", "AUTHORIZED"} THEN 0
  ELSE IF st \in {"COMPLETED", "CAPTURED"} THEN 1
  ELSE IF st = "SETTLED" THEN 2 ELSE 3

\* A call has its request; from its SELECT on it holds the leg, whose status
\* stays the one it read; and it carries only a movement the ledger allows.
CallInv ==
  \A c \in Callers :
    /\ pc[c] # "idle" => req[c] \in Requests
    /\ pc[c] \in {"effects", "reclass", "snapshot", "commit", "store"} => legLock[Leg(c)] = c
    /\ pc[c] \in {"effects", "reclass", "snapshot", "commit"} =>
         was[c] = status[Leg(c)] /\ status[Leg(c)] \in SourceStatuses[Action(c)]
    /\ pc[c] \in {"idle", "lock", "effects", "reclass", "store"} => moved[c] = NoSession
    /\ pc[c] = "reclass" => Action(c) \in {"CANCEL", "FAIL_BOUNCE"}
    /\ pc[c] \in {"snapshot", "commit"} => moved[c] \in Ledger!Movements(req[c])

\* A flip went where its action leads, and the leg has not fallen behind it.
FlipInv ==
  \A l \in Legs : \A i \in DOMAIN log[l] :
    /\ log[l][i].to = TargetStatus[log[l][i].by.action]
    /\ Rank(log[l][i].to) <= Rank(status[l])

IInv == TypeOK /\ LogReplaysStatus /\ CallInv /\ FlipInv /\ OneFlipPerRequest

-----------------------------------------------------------------------------
(* The status graph                                                        *)

\* Every transition starts and ends in a known status, and leads upwards.
LEMMA Graph ==
  \A a \in Actions :
    /\ TargetStatus[a] \in Statuses
    /\ SourceStatuses[a] \subseteq Statuses
    /\ \A s \in SourceStatuses[a] : Rank(s) < Rank(TargetStatus[a])
  BY DEF Actions, TargetStatus, SourceStatuses, Statuses, Rank

\* A paid leg is left only by REVERSE or SETTLE, a failed one never.
LEMMA PaidEdges ==
  \A a \in Actions : \A s \in SourceStatuses[a] :
    /\ s \in CompletedStatuses => TargetStatus[a] \in CompletedStatuses \cup {"REVERSED"}
    /\ Bucket(s) # "failed"
  BY DEF Actions, TargetStatus, SourceStatuses, CompletedStatuses, Bucket

\* The fields of a request.
LEMMA RequestFields ==
  \A r \in Requests : /\ r.leg \in Legs /\ r.action \in Actions /\ r.key \in Keys
                      /\ r.session \in Sessions \cup {NoSession} /\ r.fallback \in Fallbacks
                      /\ r # NoRequest
  BY RequestAssumption, SentinelAssumption DEF Request

-----------------------------------------------------------------------------
(* The invariant                                                           *)

\* The bucket a status counts in is one of the four.
LEMMA BucketType == \A st : Bucket(st) \in Buckets
  BY DEF Bucket, Buckets

\* The legs as they were created, without calls, satisfy the invariant.
LEMMA InitIInv == Init => IInv
<1> SUFFICES ASSUME Init PROVE IInv
  OBVIOUS
<1> USE DEF Init
<1>1. TypeOK
  BY BucketType, InitAssumption DEF TypeOK, Statuses, TypeCodes, Answers, NoView, Buckets
<1>2. LogReplaysStatus
  BY DEF LogReplaysStatus
<1>3. CallInv
  BY DEF CallInv
<1>4. FlipInv /\ OneFlipPerRequest
  BY DEF FlipInv, OneFlipPerRequest
<1> QED
  BY <1>1, <1>2, <1>3, <1>4 DEF IInv

\* A step that writes neither statuses nor events keeps what relates them.
LEMMA SameLegs ==
  ASSUME UNCHANGED <<status, log>>, LogReplaysStatus, FlipInv, OneFlipPerRequest
  PROVE  LogReplaysStatus' /\ FlipInv' /\ OneFlipPerRequest'
  BY DEF LogReplaysStatus, FlipInv, OneFlipPerRequest

\* Each action but the commit of a flip preserves the invariant.
LEMMA StepIInv == IInv /\ [Next]_vars /\ (\A c \in Callers : ~Commit(c)) => IInv'
<1> SUFFICES ASSUME IInv, [Next]_vars, \A c \in Callers : ~Commit(c) PROVE IInv'
  OBVIOUS
<1> USE RequestFields, SentinelAssumption, DrawerAssumption
    DEF IInv, tableVars, lockVars, callVars
<1>1. ASSUME NEW c \in Callers, NEW r \in Requests, LookUpCached(c, r)
      PROVE  IInv'
  <2>1. TypeOK'
    BY <1>1 DEF LookUpCached, Reply, Leg, Action, Answers, TypeOK, CallInv
  <2>2. CallInv'
    BY <1>1 DEF LookUpCached, Reply, Leg, Action, TypeOK, CallInv
  <2> QED
    BY <1>1, <2>1, <2>2, SameLegs DEF LookUpCached
<1>2. ASSUME NEW c \in Callers, NEW r \in Requests, LookUpNew(c, r)
      PROVE  IInv'
  <2>1. TypeOK'
    BY <1>2 DEF LookUpNew, Reply, Leg, Action, Answers, TypeOK, CallInv
  <2>2. CallInv'
    BY <1>2 DEF LookUpNew, Reply, Leg, Action, TypeOK, CallInv
  <2> QED
    BY <1>2, <2>1, <2>2, SameLegs DEF LookUpNew
<1>3. ASSUME NEW c \in Callers, LockLeg(c)
      PROVE  IInv'
  <2>1. TypeOK'
    <3>1. Leg(c) \in Legs
      BY <1>3 DEF LockLeg, CallInv, Leg
    <3>2. legLock' \in [Legs -> Callers \cup {NoCaller}]
      BY <1>3, <3>1 DEF LockLeg, TypeOK
    <3>3. was' \in [Callers -> Statuses \cup {"unread"}]
      BY <1>3, <3>1 DEF LockLeg, TypeOK
    <3>4. pc' \in [Callers -> {"idle", "lock", "effects", "reclass", "snapshot", "commit", "store"}]
      BY <1>3 DEF LockLeg, TypeOK
    <3> QED
      BY <1>3, <3>2, <3>3, <3>4 DEF LockLeg, TypeOK
  <2>2. CallInv'
    BY <1>3 DEF LockLeg, LegFree, Leg, Action, Target, TypeOK, CallInv
  <2> QED
    BY <1>3, <2>1, <2>2, SameLegs DEF LockLeg
<1>4. ASSUME NEW c \in Callers, Illegal(c)
      PROVE  IInv'
  <2>1. TypeOK'
    BY <1>4 DEF Illegal, Leave, Reply, Leg, Action, NoView, Buckets, Answers, TypeOK, CallInv
  <2>2. CallInv'
    BY <1>4 DEF Illegal, Leave, Reply, Leg, Action, TypeOK, CallInv
  <2> QED
    BY <1>4, <2>1, <2>2, SameLegs DEF Illegal
<1>5. ASSUME NEW c \in Callers, DeferredSale(c)
      PROVE  IInv'
  <2>1. TypeOK'
    BY <1>5 DEF DeferredSale, ToSnapshot, Leg, Action, TypeOK, CallInv
  <2>2. CallInv'
    BY <1>5 DEF DeferredSale, ToSnapshot, Leg, Action, Ledger!Movements, TypeOK, CallInv
  <2> QED
    BY <1>5, <2>1, <2>2, SameLegs DEF DeferredSale
<1>6. ASSUME NEW c \in Callers, Compensate(c)
      PROVE  IInv'
  <2>1. TypeOK'
    BY <1>6 DEF Compensate, CanCompensate, ToSnapshot, Leg, Action, TypeOK, CallInv
  <2>2. CallInv'
    BY <1>6 DEF Compensate, CanCompensate, ToSnapshot, Leg, Action, Ledger!Movements, TypeOK, CallInv
  <2> QED
    BY <1>6, <2>1, <2>2, SameLegs DEF Compensate
<1>7. ASSUME NEW c \in Callers, CannotCompensate(c)
      PROVE  IInv'
  <2>1. TypeOK'
    BY <1>7 DEF CannotCompensate, Leave, Reply, Leg, Action, NoView, Buckets, Answers, TypeOK, CallInv
  <2>2. CallInv'
    BY <1>7 DEF CannotCompensate, Leave, Reply, Leg, Action, TypeOK, CallInv
  <2> QED
    BY <1>7, <2>1, <2>2, SameLegs DEF CannotCompensate
<1>8. ASSUME NEW c \in Callers, DecideReclass(c)
      PROVE  IInv'
  <2>1. TypeOK'
    <3>1. newType' \in [Callers -> TypeCodes \cup {"keep"}]
      BY <1>8 DEF DecideReclass, TypeOK, CallInv, TypeCodes, Fallbacks
    <3>2. pc' \in [Callers -> {"idle", "lock", "effects", "reclass", "snapshot", "commit", "store"}]
      BY <1>8 DEF DecideReclass, ToSnapshot, TypeOK
    <3> QED
      BY <1>8, <3>1, <3>2 DEF DecideReclass, TypeOK
  <2>2. CallInv'
    BY <1>8 DEF DecideReclass, ToSnapshot, Leg, Action, Ledger!Movements, TypeOK, CallInv
  <2> QED
    BY <1>8, <2>1, <2>2, SameLegs DEF DecideReclass
<1>9. ASSUME NEW c \in Callers, Reclassify(c)
      PROVE  IInv'
  <2>1. TypeOK'
    <3>1. pc' \in [Callers -> {"idle", "lock", "effects", "reclass", "snapshot", "commit", "store"}]
      BY <1>9 DEF Reclassify, ToSnapshot, TypeOK
    <3>2. headerLock' \in Callers \cup {NoCaller}
      BY <1>9 DEF Reclassify
    <3> QED
      BY <1>9, <3>1, <3>2 DEF Reclassify, TypeOK
  <2>2. CallInv'
    BY <1>9 DEF Reclassify, ToSnapshot, Leg, Action, Ledger!Movements, TypeOK, CallInv
  <2> QED
    BY <1>9, <2>1, <2>2, SameLegs DEF Reclassify
<1>10. ASSUME NEW c \in Callers, NoEffect(c)
      PROVE  IInv'
  <2>1. TypeOK'
    BY <1>10 DEF NoEffect, ToSnapshot, Leg, Action, TypeOK, CallInv
  <2>2. CallInv'
    BY <1>10 DEF NoEffect, ToSnapshot, Leg, Action, Ledger!Movements, TypeOK, CallInv
  <2> QED
    BY <1>10, <2>1, <2>2, SameLegs DEF NoEffect
<1>11. ASSUME NEW c \in Callers, ReadSnapshot(c)
      PROVE  IInv'
  <2>1. TypeOK'
    BY <1>11, BucketType DEF ReadSnapshot, Leg, Action, Target, TypeOK, CallInv
  <2>2. CallInv'
    BY <1>11 DEF ReadSnapshot, Leg, Action, Target, TypeOK, CallInv
  <2> QED
    BY <1>11, <2>1, <2>2, SameLegs DEF ReadSnapshot
<1>12. ASSUME NEW c \in Callers, StoreNoOp(c)
      PROVE  IInv'
  <2>1. TypeOK'
    BY <1>12 DEF StoreNoOp, StoreResult, Leave, Reply, Leg, Action, NoView, Buckets, Answers, Cached, TypeOK, CallInv
  <2>2. CallInv'
    BY <1>12 DEF StoreNoOp, StoreResult, Leave, Reply, Leg, Action, TypeOK, CallInv
  <2> QED
    BY <1>12, <2>1, <2>2, SameLegs DEF StoreNoOp
<1>13. ASSUME NEW c \in Callers, Rollback(c)
      PROVE  IInv'
  <2>1. TypeOK'
    BY <1>13 DEF Rollback, Leave, Reply, Leg, Action, NoView, Buckets, Answers, TypeOK, CallInv
  <2>2. CallInv'
    BY <1>13 DEF Rollback, Leave, Reply, Leg, Action, TypeOK, CallInv
  <2> QED
    BY <1>13, <2>1, <2>2, SameLegs DEF Rollback
<1>14. ASSUME NEW s \in Sessions, closeSession(s)
      PROVE  IInv'
  <2>1. TypeOK'
    BY <1>14 DEF closeSession, Leg, Action, TypeOK, CallInv
  <2>2. CallInv'
    BY <1>14 DEF closeSession, Leg, Action, TypeOK, CallInv
  <2> QED
    BY <1>14, <2>1, <2>2, SameLegs DEF closeSession
<1>15. ASSUME NEW k \in Keys, ExpireKey(k)
      PROVE  IInv'
  <2>1. TypeOK'
    BY <1>15 DEF ExpireKey, Leg, Action, TypeOK, CallInv
  <2>2. CallInv'
    BY <1>15 DEF ExpireKey, Leg, Action, TypeOK, CallInv
  <2> QED
    BY <1>15, <2>1, <2>2, SameLegs DEF ExpireKey
<1>16. CASE UNCHANGED vars
  BY <1>16 DEF vars, TypeOK, LogReplaysStatus, CallInv, FlipInv, OneFlipPerRequest, Leg, Action
<1> QED
  BY <1>1, <1>2, <1>3, <1>4, <1>5, <1>6, <1>7, <1>8, <1>9, <1>10, <1>11, <1>12, <1>13, <1>14, <1>15, <1>16 DEF Next, Progress

-----------------------------------------------------------------------------
(* The commit of a flip                                                    *)

\* The flip that call c commits.
FlipOf(c) == [from |-> was[c], to |-> Target(c), by |-> req[c], moved |-> moved[c]]

\* A call that commits holds its leg in a status its action may leave, so its
\* flip starts where the leg stands and leads to a higher rank.
LEMMA CommitFlip ==
  ASSUME IInv, NEW c \in Callers, Commit(c)
  PROVE  /\ Leg(c) \in Legs /\ req[c] \in Requests /\ Action(c) \in Actions
         /\ legLock[Leg(c)] = c
         /\ was[c] = status[Leg(c)]
         /\ status[Leg(c)] \in SourceStatuses[Action(c)]
         /\ Target(c) \in Statuses
         /\ Rank(status[Leg(c)]) < Rank(Target(c))
         /\ FlipOf(c) \in Flip
         /\ status' = [status EXCEPT ![Leg(c)] = Target(c)]
         /\ log' = [log EXCEPT ![Leg(c)] = Append(log[Leg(c)], FlipOf(c))]
         /\ DOMAIN log = Legs /\ DOMAIN status = Legs
<1> USE DEF IInv
<1>1. pc[c] = "commit" /\ req[c] \in Requests /\ legLock[Leg(c)] = c
      /\ was[c] = status[Leg(c)] /\ status[Leg(c)] \in SourceStatuses[Action(c)]
  BY DEF Commit, CallInv
<1>2. Leg(c) \in Legs /\ Action(c) \in Actions
  BY <1>1, RequestFields DEF Leg, Action
<1>3. Target(c) \in Statuses /\ Rank(status[Leg(c)]) < Rank(Target(c))
  BY <1>1, <1>2, Graph DEF Target
<1>4. was[c] \in Statuses /\ moved[c] \in Sessions \cup {NoSession}
  BY <1>1, <1>2 DEF TypeOK
<1>5. FlipOf(c) \in Flip
  BY <1>1, <1>3, <1>4 DEF FlipOf, Flip
<1>6. status' = [status EXCEPT ![Leg(c)] = Target(c)]
      /\ log' = [log EXCEPT ![Leg(c)] = Append(log[Leg(c)], FlipOf(c))]
  BY DEF Commit, FlipOf
<1> QED
  BY <1>1, <1>2, <1>3, <1>5, <1>6 DEF TypeOK

\* The events of the leg after the commit: those before it, and the new one.
LEMMA CommitLog ==
  ASSUME IInv, NEW c \in Callers, Commit(c)
  PROVE  LET k == Leg(c)
             n == Len(log[k])
         IN  /\ n \in Nat /\ log[k] \in Seq(Flip) /\ log'[k] \in Seq(Flip)
             /\ Len(log'[k]) = n + 1
             /\ DOMAIN log'[k] = 1..(n + 1) /\ DOMAIN log[k] = 1..n
             /\ log'[k][n + 1] = FlipOf(c)
             /\ \A i \in 1..n : log'[k][i] = log[k][i]
             /\ \A l \in Legs \ {k} : log'[l] = log[l] /\ status'[l] = status[l]
             /\ status'[k] = Target(c)
<1> DEFINE k == Leg(c)
<1>1. k \in Legs /\ FlipOf(c) \in Flip /\ log[k] \in Seq(Flip)
  BY CommitFlip DEF IInv, TypeOK
<1>2. log'[k] = Append(log[k], FlipOf(c)) /\ status'[k] = Target(c)
  BY <1>1, CommitFlip
<1>3. \A l \in Legs \ {k} : log'[l] = log[l] /\ status'[l] = status[l]
  BY <1>1, CommitFlip
<1> HIDE DEF k
<1>4. /\ Len(log[k]) \in Nat /\ log'[k] \in Seq(Flip)
      /\ Len(log'[k]) = Len(log[k]) + 1
      /\ DOMAIN log'[k] = 1..(Len(log[k]) + 1) /\ DOMAIN log[k] = 1..Len(log[k])
      /\ log'[k][Len(log[k]) + 1] = FlipOf(c)
      /\ \A i \in 1..Len(log[k]) : log'[k][i] = log[k][i]
  BY <1>1, <1>2
<1> QED
  BY <1>1, <1>2, <1>3, <1>4 DEF k

\* The commit preserves the invariant.
LEMMA CommitIInv ==
  ASSUME IInv, NEW c \in Callers, Commit(c)
  PROVE  IInv'
<1> DEFINE k == Leg(c)
           n == Len(log[k])
<1> USE DEF IInv
<1>c. /\ k \in Legs /\ req[c] \in Requests /\ Action(c) \in Actions /\ legLock[k] = c
      /\ was[c] = status[k] /\ Rank(status[k]) < Rank(Target(c)) /\ Target(c) \in Statuses
      /\ status[k] \in SourceStatuses[Action(c)]
  BY CommitFlip
<1>l. /\ n \in Nat /\ log[k] \in Seq(Flip) /\ log'[k] \in Seq(Flip)
      /\ Len(log'[k]) = n + 1
      /\ DOMAIN log'[k] = 1..(n + 1) /\ DOMAIN log[k] = 1..n
      /\ log'[k][n + 1] = FlipOf(c)
      /\ \A i \in 1..n : log'[k][i] = log[k][i]
      /\ \A l \in Legs \ {k} : log'[l] = log[l] /\ status'[l] = status[l]
      /\ status'[k] = Target(c)
  BY CommitLog
<1>f. FlipOf(c).from = status[k] /\ FlipOf(c).to = Target(c) /\ FlipOf(c).by = req[c]
  BY <1>c DEF FlipOf
<1>s. status' = [status EXCEPT ![k] = Target(c)]
  BY CommitFlip
<1>k. k = req[c].leg
  BY DEF Leg
<1> HIDE DEF k, n
<1>1. TypeOK'
  <2>1. status' \in [Legs -> Statuses]
    BY <1>c, <1>s DEF TypeOK
  <2>2. log' \in [Legs -> Seq(Flip)]
    <3>1. log' = [log EXCEPT ![k] = Append(log[k], FlipOf(c))]
      BY CommitFlip DEF k
    <3>2. Append(log[k], FlipOf(c)) \in Seq(Flip)
      BY <1>c, <1>l, <3>1 DEF TypeOK
    <3> QED
      BY <3>1, <3>2 DEF TypeOK
  <2>3. typeCode' \in TypeCodes /\ header' \in [Legs -> Buckets] /\ session' = session
    BY DEF Commit, TypeOK
  <2>4. cache' \in [Keys -> Cached \cup {NoResult}]
    BY <1>c, RequestFields DEF Commit, StoreResult, TypeOK, Cached
  <2>5. /\ legLock' \in [Legs -> Callers \cup {NoCaller}]
        /\ headerLock' \in Callers \cup {NoCaller}
        /\ req' = req
    BY DEF Commit, Leave, TypeOK
  <2>6. /\ pc' \in [Callers -> {"idle", "lock", "effects", "reclass", "snapshot", "commit", "store"}]
        /\ was' \in [Callers -> Statuses \cup {"unread"}]
        /\ moved' \in [Callers -> Sessions \cup {NoSession}]
        /\ newType' \in [Callers -> TypeCodes \cup {"keep"}]
    BY DEF Commit, Leave, TypeOK
  <2>7. view' \in [Callers -> [Legs -> Buckets]] /\ answer' \in [Callers -> Answers]
    BY DEF Commit, Leave, Reply, TypeOK, NoView, Buckets, Answers
  <2> QED
    BY <2>1, <2>2, <2>3, <2>4, <2>5, <2>6, <2>7 DEF TypeOK
<1>2. LogReplaysStatus'
  <2> SUFFICES ASSUME NEW l \in Legs
               PROVE  LET m == Len(log'[l])
                      IN  /\ \A i \in 1..m : log'[l][i].from = IF i = 1 THEN InitStatus[l] ELSE log'[l][i - 1].to
                          /\ status'[l] = IF m = 0 THEN InitStatus[l] ELSE log'[l][m].to
    BY DEF LogReplaysStatus
  <2>1. CASE l # k
    BY <1>l, <2>1 DEF LogReplaysStatus
  <2>2. CASE l = k
    <3>1. /\ \A i \in 1..n : log[k][i].from = IF i = 1 THEN InitStatus[k] ELSE log[k][i - 1].to
          /\ status[k] = IF n = 0 THEN InitStatus[k] ELSE log[k][n].to
      BY <1>c DEF LogReplaysStatus, n
    <3>2. ASSUME NEW i \in 1..(n + 1)
          PROVE  log'[k][i].from = IF i = 1 THEN InitStatus[k] ELSE log'[k][i - 1].to
      <4>1. CASE i \in 1..n
        <5>1. i = 1 \/ i - 1 \in 1..n
          BY <1>l, <4>1
        <5>2. log'[k][i] = log[k][i] /\ (i # 1 => log'[k][i - 1] = log[k][i - 1])
          BY <1>l, <4>1, <5>1
        <5> QED
          BY <3>1, <4>1, <5>2
      <4>2. CASE i = n + 1
        BY <1>l, <1>f, <3>1, <4>2
      <4> QED
        BY <1>l, <4>1, <4>2
    <3> QED
      BY <1>l, <1>f, <2>2, <3>2
  <2> QED
    BY <2>1, <2>2
<1>3. CallInv'
  <2>1. \A d \in Callers \ {c} :
          pc[d] \in {"effects", "reclass", "snapshot", "commit", "store"} =>
            Leg(d) \in Legs \ {k} /\ legLock'[Leg(d)] = d
    BY <1>c, RequestFields DEF CallInv, TypeOK, Commit, Leave, Leg
  <2>2. \A d \in Callers \ {c} : pc'[d] = pc[d] /\ req'[d] = req[d] /\ was'[d] = was[d] /\ moved'[d] = moved[d]
    BY DEF Commit, Leave, TypeOK
  <2>3. pc'[c] = "idle" /\ moved'[c] = NoSession
    BY DEF Commit, Leave, TypeOK
  <2>4. ASSUME NEW d \in Callers \ {c},
               pc[d] \in {"effects", "reclass", "snapshot", "commit"}
        PROVE  was'[d] = status'[Leg(d)] /\ status'[Leg(d)] \in SourceStatuses[Action(d)]
    BY <1>l, <2>1, <2>2, <2>4 DEF CallInv
  <2>5. \A d \in Callers : Leg(d)' = Leg(d) /\ Action(d)' = Action(d) /\ Ledger!Movements(req[d])' = Ledger!Movements(req[d])
    BY DEF Commit, Leave, Leg, Action, Ledger!Movements
  <2>6. ASSUME NEW d \in Callers
        PROVE  /\ pc'[d] # "idle" => req'[d] \in Requests
               /\ pc'[d] \in {"effects", "reclass", "snapshot", "commit", "store"} => legLock'[Leg(d)] = d
               /\ pc'[d] \in {"effects", "reclass", "snapshot", "commit"} =>
                    was'[d] = status'[Leg(d)] /\ status'[Leg(d)] \in SourceStatuses[Action(d)]
               /\ pc'[d] \in {"idle", "lock", "effects", "reclass", "store"} => moved'[d] = NoSession
               /\ pc'[d] = "reclass" => Action(d) \in {"CANCEL", "FAIL_BOUNCE"}
               /\ pc'[d] \in {"snapshot", "commit"} => moved'[d] \in Ledger!Movements(req[d])
    <3>1. CASE d = c
      BY <2>3, <3>1
    <3>2. CASE d # c
      BY <2>1, <2>2, <2>4, <3>2 DEF CallInv
    <3> QED
      BY <3>1, <3>2
  <2> QED
    BY <2>5, <2>6 DEF CallInv
<1>4. FlipInv'
  <2> SUFFICES ASSUME NEW l \in Legs, NEW i \in DOMAIN log'[l]
               PROVE  /\ log'[l][i].to = TargetStatus[log'[l][i].by.action]
                      /\ Rank(log'[l][i].to) <= Rank(status'[l])
    BY DEF FlipInv
  <2>r. \A st : Rank(st) \in Nat
    BY DEF Rank
  <2>1. CASE l # k
    BY <1>l, <2>1 DEF FlipInv
  <2>2. CASE l = k /\ i \in 1..n
    <3>1. log[k][i].to = TargetStatus[log[k][i].by.action] /\ Rank(log[k][i].to) <= Rank(status[k])
      BY <1>c, <1>l, <2>2 DEF FlipInv
    <3>2. Rank(log[k][i].to) <= Rank(Target(c))
      BY <1>c, <2>r, <3>1
    <3>3. log'[l][i] = log[k][i] /\ status'[l] = Target(c)
      BY <1>l, <2>2
    <3> QED
      BY <3>1, <3>2, <3>3
  <2>3. CASE l = k /\ i = n + 1
    BY <1>l, <1>f, <2>3, <2>r DEF Target, Action
  <2> QED
    BY <1>l, <2>1, <2>2, <2>3
<1>5. OneFlipPerRequest'
  <2> SUFFICES ASSUME NEW l \in Legs, NEW i \in DOMAIN log'[l], NEW j \in DOMAIN log'[l],
                      log'[l][i].by = log'[l][j].by
               PROVE  i = j
    BY DEF OneFlipPerRequest
  <2>1. CASE l # k
    BY <1>l, <2>1 DEF OneFlipPerRequest
  <2>2. ASSUME NEW h \in 1..n
        PROVE  log[k][h].by # req[c]
    <3>1. Rank(log[k][h].to) <= Rank(status[k]) /\ log[k][h].to = TargetStatus[log[k][h].by.action]
      BY <1>c, <1>l DEF FlipInv
    <3>2. Rank(status[k]) \in Nat /\ Rank(Target(c)) \in Nat
      BY DEF Rank
    <3> QED
      BY <1>c, <3>1, <3>2 DEF Target, Action
  <2>3. CASE l = k
    <3>1. (i \in 1..n \/ i = n + 1) /\ (j \in 1..n \/ j = n + 1)
      BY <1>l, <2>3
    <3>2. CASE i \in 1..n /\ j \in 1..n
      BY <1>c, <1>l, <2>3, <3>2 DEF OneFlipPerRequest
    <3>3. CASE i \in 1..n /\ j = n + 1
      BY <1>l, <1>f, <2>2, <2>3, <3>3
    <3>4. CASE i = n + 1 /\ j \in 1..n
      BY <1>l, <1>f, <2>2, <2>3, <3>4
    <3> QED
      BY <3>1, <3>2, <3>3, <3>4
  <2> QED
    BY <2>1, <2>3
<1> QED
  BY <1>1, <1>2, <1>3, <1>4, <1>5

\* The inductive invariant holds in every reachable state of the service.
THEOREM Invariance == Spec => []IInv
<1>1. IInv /\ [Next]_vars => IInv'
  BY StepIInv, CommitIInv
<1> QED
  BY <1>1, InitIInv, PTL DEF Spec

-----------------------------------------------------------------------------
(* What follows from it                                                    *)

\* The variables of the service keep their types.
THEOREM TypeCorrect == Spec => []TypeOK
<1>1. IInv => TypeOK
  BY DEF IInv
<1> QED
  BY <1>1, Invariance, PTL

\* The events of a leg are the history of its status, however calls overlap.
THEOREM EventsReplay == Spec => []LogReplaysStatus
<1>1. IInv => LogReplaysStatus
  BY DEF IInv
<1> QED
  BY <1>1, Invariance, PTL

\* A request is carried out at most once, whatever its key's cache holds.
THEOREM CarriedOutOnce == Spec => []OneFlipPerRequest
<1>1. IInv => OneFlipPerRequest
  BY DEF IInv
<1> QED
  BY <1>1, Invariance, PTL

\* Every step but a commit leaves statuses and events alone.
LEMMA OnlyCommitFlips ==
  ASSUME [Next]_vars, \A c \in Callers : ~Commit(c)
  PROVE  UNCHANGED <<status, log>>
<1>1. ASSUME NEW c \in Callers, Progress(c)
      PROVE  UNCHANGED <<status, log>>
  BY <1>1 DEF Progress, LockLeg, Illegal, DeferredSale, Compensate, CannotCompensate,
              DecideReclass, Reclassify, NoEffect, ReadSnapshot, StoreNoOp, tableVars
<1>2. ASSUME NEW c \in Callers, Rollback(c) \/ \E r \in Requests : LookUpCached(c, r) \/ LookUpNew(c, r)
      PROVE  UNCHANGED <<status, log>>
  BY <1>2 DEF Rollback, LookUpCached, LookUpNew, tableVars
<1>3. ASSUME (\E s \in Sessions : closeSession(s)) \/ (\E k \in Keys : ExpireKey(k))
      PROVE  UNCHANGED <<status, log>>
  BY <1>3 DEF closeSession, ExpireKey, tableVars
<1>4. CASE UNCHANGED vars
  BY <1>4 DEF vars
<1> QED
  BY <1>1, <1>2, <1>3, <1>4 DEF Next

\* Money leaves the paid bucket only by REVERSE, and what failed stays failed.
THEOREM PaidStays == Spec => PaidLeavesByReversal
<1> DEFINE A == \A l \in Legs :
       /\ status[l] \in CompletedStatuses => status'[l] \in CompletedStatuses \cup {"REVERSED"}
       /\ Bucket(status[l]) = "failed" => status'[l] = status[l]
<1>1. ASSUME IInv, [Next]_vars
      PROVE  A \/ UNCHANGED vars
  <2>1. CASE \E c \in Callers : Commit(c)
    <3>1. PICK c \in Callers : Commit(c)
      BY <2>1
    <3>2. /\ Leg(c) \in Legs /\ Action(c) \in Actions
          /\ status[Leg(c)] \in SourceStatuses[Action(c)]
          /\ status' = [status EXCEPT ![Leg(c)] = Target(c)] /\ DOMAIN status = Legs
      BY <1>1, <3>1, CommitFlip
    <3>3. /\ status[Leg(c)] \in CompletedStatuses => Target(c) \in CompletedStatuses \cup {"REVERSED"}
          /\ Bucket(status[Leg(c)]) # "failed"
      BY <3>2, PaidEdges DEF Target
    <3>4. status'[Leg(c)] = Target(c) /\ \A l \in Legs \ {Leg(c)} : status'[l] = status[l]
      BY <1>1, <3>2 DEF IInv, TypeOK
    <3> QED
      BY <3>3, <3>4
  <2>2. CASE \A c \in Callers : ~Commit(c)
    <3>1. UNCHANGED status
      BY <1>1, <2>2, OnlyCommitFlips
    <3> QED
      BY <3>1
  <2> QED
    BY <2>1, <2>2
<1>2. IInv /\ [Next]_vars => [A]_vars
  BY <1>1
<1> QED
  BY <1>2, Invariance, PTL DEF Spec, PaidLeavesByReversal

\* Every step is one atomic transition of the payment ledger or a stutter.
THEOREM Refinement == Spec => RefinesLedger
<1>1. Init => Ledger!Init
  BY DEF Init, Ledger!Init
<1>2. ASSUME IInv, [Next]_vars
      PROVE  [Ledger!Next]_(Ledger!vars)
  <2>1. CASE \E c \in Callers : Commit(c)
    <3>1. PICK c \in Callers : Commit(c)
      BY <2>1
    <3>2. req[c] \in Requests /\ moved[c] \in Ledger!Movements(req[c]) /\ moved[c] \in Sessions \cup {NoSession}
      BY <1>2, <3>1, CommitFlip DEF IInv, TypeOK, CallInv, Commit
    <3>3. Ledger!Transition(req[c], moved[c])
      <4>1. /\ status[req[c].leg] \in SourceStatuses[req[c].action]
            /\ status' = [status EXCEPT ![req[c].leg] = TargetStatus[req[c].action]]
        BY <1>2, <3>1, CommitFlip DEF Leg, Action, Target
      <4>2. log' = [log EXCEPT ![req[c].leg] = Append(log[req[c].leg],
              [from |-> status[req[c].leg], to |-> TargetStatus[req[c].action],
               by |-> req[c], moved |-> moved[c]])]
        BY <1>2, <3>1, CommitFlip DEF FlipOf, Leg, Action, Target
      <4>3. Ledger!SourceStatuses = SourceStatuses /\ Ledger!TargetStatus = TargetStatus
        BY DEF Ledger!SourceStatuses, SourceStatuses, Ledger!TargetStatus, TargetStatus
      <4> QED
        BY <3>2, <4>1, <4>2, <4>3 DEF Ledger!Transition
    <3> QED
      BY <3>2, <3>3 DEF Ledger!Next
  <2>2. CASE \A c \in Callers : ~Commit(c)
    BY <1>2, <2>2, OnlyCommitFlips DEF Ledger!vars
  <2> QED
    BY <2>1, <2>2
<1>3. IInv /\ [Next]_vars => [Ledger!Next]_(Ledger!vars)
  BY <1>2
<1> QED
  BY <1>1, <1>3, Invariance, PTL DEF Spec, RefinesLedger, Ledger!Spec

-----------------------------------------------------------------------------
(* Money in the drawers, and what callers are told                         *)

\* The transition that r asks for took place, or the leg was created there.
Took(r) ==
  \/ TargetStatus[r.action] = InitStatus[r.leg]
  \/ \E i \in DOMAIN log[r.leg] : log[r.leg][i].to = TargetStatus[r.action]

\* A call that flips nothing holds a leg at its target; one that reverses cash
\* carries the movement; one that carries a sale holds a leg that has none.
Held(c) ==
  /\ pc[c] = "store" => status[Leg(c)] = Target(c)
  /\ pc[c] \in {"snapshot", "commit"} /\ Action(c) = "REVERSE" /\ Leg(c) \in CashLegs =>
       moved[c] # NoSession
  /\ pc[c] \in {"snapshot", "commit"} /\ Action(c) = "VERIFY" /\ moved[c] # NoSession =>
       ~HasSale(Leg(c))
HeldInv == \A c \in Callers : Held(c)

\* NoOrphanSale and ReversalIsCompensated without counting.
SaleInv ==
  \A l \in Legs :
    /\ HasSale(l) => status[l] \in CompletedStatuses \cup {"REVERSED"}
    /\ WiredSale(l) => SaleFlips(l) = {}
    /\ \A i, j \in SaleFlips(l) : i = j
ReversalInv ==
  \A l \in CashLegs :
    IF status[l] = "REVERSED" THEN \E i \in DOMAIN log[l] : ReversalFlips(l) = {i} ELSE ReversalFlips(l) = {}

\* Neither an answer nor a cached result tells of what did not happen.
ToldInv ==
  /\ \A c \in Callers : answer[c] \in {"flipped", "noop", "replayed"} =>
       req[c] \in Requests /\ Took(req[c])
  /\ \A k \in Keys : cache[k] # NoResult => Took(cache[k].request)

MoneyInv == HeldInv /\ SaleInv /\ ReversalInv /\ ToldInv

\* The legs as they were created, without calls, satisfy it.
LEMMA InitMoney == Init => MoneyInv
<1> SUFFICES ASSUME Init PROVE MoneyInv
  OBVIOUS
<1>1. \A l \in Legs : SaleFlips(l) = {} /\ ReversalFlips(l) = {}
  BY DEF Init, SaleFlips, ReversalFlips
<1>2. HeldInv
  BY DEF Init, HeldInv, Held
<1>3. SaleInv
  BY <1>1 DEF Init, SaleInv, HasSale, WiredSale, CompletedStatuses
<1>4. ReversalInv
  BY <1>1, InitAssumption, LegAssumption DEF Init, ReversalInv
<1>5. ToldInv
  BY DEF Init, ToldInv
<1> QED
  BY <1>2, <1>3, <1>4, <1>5 DEF MoneyInv

\* A step that flips nothing changes no sale, no reversal and nothing told.
LEMMA SameMoney ==
  ASSUME UNCHANGED <<status, log>>
  PROVE  /\ SaleInv => SaleInv'
         /\ ReversalInv => ReversalInv'
         /\ \A r : Took(r)' <=> Took(r)
         /\ \A l : HasSale(l)' <=> HasSale(l)
<1>1. \A l : SaleFlips(l)' = SaleFlips(l) /\ ReversalFlips(l)' = ReversalFlips(l)
  BY DEF SaleFlips, ReversalFlips
<1>2. \A l : WiredSale(l)' = WiredSale(l)
  BY DEF WiredSale
<1>3. \A l : HasSale(l)' <=> HasSale(l)
  BY <1>1, <1>2 DEF HasSale
<1>4. \A r : Took(r)' <=> Took(r)
  BY DEF Took
<1>5. SaleInv => SaleInv'
  BY <1>1, <1>2, <1>3 DEF SaleInv
<1>6. ReversalInv => ReversalInv'
  BY <1>1 DEF ReversalInv
<1> QED
  BY <1>3, <1>4, <1>5, <1>6

\* A step that is not of call d, and flips nothing, leaves what d holds.
LEMMA OtherHeld ==
  ASSUME UNCHANGED <<status, log>>, NEW d \in Callers, Held(d),
         pc'[d] = pc[d], req'[d] = req[d], moved'[d] = moved[d]
  PROVE  Held(d)'
<1>1. PICK l : l = Leg(d)
  OBVIOUS
<1>2. HasSale(l)' <=> HasSale(l)
  BY SameMoney
<1>3. Leg(d)' = l /\ Action(d)' = Action(d) /\ Target(d)' = Target(d)
  BY <1>1 DEF Leg, Action, Target
<1>4. HasSale(Leg(d))' <=> HasSale(Leg(d))
  BY <1>1, <1>2, <1>3 DEF HasSale, WiredSale, SaleFlips
<1> QED
  BY <1>1, <1>3, <1>4 DEF Held

\* Which call a step that flips nothing is of, and what becomes of it.
Idles(c) ==
  \/ \E r \in Requests : LookUpCached(c, r) \/ LookUpNew(c, r)
  \/ Illegal(c) \/ CannotCompensate(c) \/ StoreNoOp(c) \/ Rollback(c)
Works(c) ==
  \/ LockLeg(c) \/ DeferredSale(c) \/ Compensate(c) \/ DecideReclass(c)
  \/ Reclassify(c) \/ NoEffect(c) \/ ReadSnapshot(c)
Around ==
  \/ \E s \in Sessions : closeSession(s)
  \/ \E k \in Keys : ExpireKey(k)
  \/ UNCHANGED vars

\* A step that flips nothing is of one call, or of none.
LEMMA WhoSteps ==
  ASSUME [Next]_vars, \A c \in Callers : ~Commit(c)
  PROVE  (\E c \in Callers : Idles(c) \/ Works(c)) \/ Around
BY DEF Next, Progress, Idles, Works, Around

\* A call that begins or ends leaves the other calls alone.
LEMMA IdleFacts ==
  ASSUME TypeOK, NEW c \in Callers, Idles(c)
  PROVE  /\ pc'[c] \in {"idle", "lock"}
         /\ \A d \in Callers \ {c} :
              pc'[d] = pc[d] /\ req'[d] = req[d] /\ moved'[d] = moved[d] /\ answer'[d] = answer[d]
BY DEF TypeOK, Idles, LookUpCached, LookUpNew, Illegal, CannotCompensate, StoreNoOp, Rollback,
       Leave, Reply

\* A call that goes on answers nobody yet.
LEMMA WorkFacts ==
  ASSUME TypeOK, NEW c \in Callers, Works(c)
  PROVE  /\ req' = req /\ answer' = answer /\ cache' = cache
         /\ \A d \in Callers \ {c} : pc'[d] = pc[d] /\ moved'[d] = moved[d]
BY DEF TypeOK, Works, LockLeg, DeferredSale, Compensate, DecideReclass, Reclassify, NoEffect,
       ReadSnapshot, ToSnapshot

\* A call that goes on holds what its next place says.
LEMMA WorkHeld ==
  ASSUME IInv, HeldInv, UNCHANGED <<status, log>>, NEW c \in Callers, Works(c)
  PROVE  Held(c)'
<1>t. TypeOK /\ CallInv /\ Held(c)
  BY DEF IInv, HeldInv
<1>r. Leg(c)' = Leg(c) /\ Action(c)' = Action(c) /\ Target(c)' = Target(c)
  BY <1>t, WorkFacts DEF Leg, Action, Target
<1>s. HasSale(Leg(c))' <=> HasSale(Leg(c))
  BY <1>r DEF HasSale, WiredSale, SaleFlips
<1>1. ASSUME LockLeg(c)
      PROVE  Held(c)'
  BY <1>1, <1>t, <1>r DEF LockLeg, TypeOK, Held
<1>2. ASSUME DeferredSale(c)
      PROVE  Held(c)'
  <2>1. pc'[c] = "snapshot" /\ Action(c) = "VERIFY"
    BY <1>2, <1>t DEF DeferredSale, ToSnapshot, TypeOK
  <2>2. moved'[c] # NoSession => ~HasSale(Leg(c))
    BY <1>2, <1>t DEF DeferredSale, TypeOK
  <2> QED
    BY <1>r, <1>s, <2>1, <2>2 DEF Held
<1>3. ASSUME Compensate(c)
      PROVE  Held(c)'
  <2>1. pc'[c] = "snapshot" /\ Action(c) = "REVERSE"
    BY <1>3, <1>t DEF Compensate, ToSnapshot, TypeOK
  <2>2. Leg(c) \in CashLegs => moved'[c] # NoSession
    BY <1>3, <1>t DEF Compensate, CanCompensate, TypeOK
  <2> QED
    BY <1>r, <2>1, <2>2 DEF Held
<1>4. ASSUME DecideReclass(c) \/ Reclassify(c) \/ NoEffect(c)
      PROVE  Held(c)'
  <2>1. Action(c) \notin {"VERIFY", "REVERSE"} /\ pc'[c] \in {"reclass", "snapshot"}
    BY <1>4, <1>t DEF DecideReclass, Reclassify, NoEffect, ToSnapshot, TypeOK, CallInv
  <2> QED
    BY <1>r, <2>1 DEF Held
<1>5. ASSUME ReadSnapshot(c)
      PROVE  Held(c)'
  <2>1. pc[c] = "snapshot" /\ pc'[c] = "commit" /\ moved' = moved
    BY <1>5, <1>t DEF ReadSnapshot, TypeOK
  <2> QED
    BY <1>t, <1>r, <1>s, <2>1 DEF Held
<1> QED
  BY <1>1, <1>2, <1>3, <1>4, <1>5 DEF Works

\* A leg that stands at the target of a request came there.
LEMMA StandsThere ==
  ASSUME IInv, NEW r \in Requests, status[r.leg] = TargetStatus[r.action]
  PROVE  Took(r)
<1>1. r.leg \in Legs
  BY RequestFields
<1>2. PICK l \in Legs : l = r.leg
  BY <1>1
<1>3. log[l] \in Seq(Flip) /\ Len(log[l]) \in Nat /\ DOMAIN log[l] = 1..Len(log[l])
  BY DEF IInv, TypeOK
<1>4. status[l] = IF Len(log[l]) = 0 THEN InitStatus[l] ELSE log[l][Len(log[l])].to
  BY DEF IInv, LogReplaysStatus
<1> QED
  BY <1>2, <1>3, <1>4 DEF Took

\* A step that flips nothing tells nobody of a flip that did not take place.
LEMMA StepTold ==
  ASSUME IInv, HeldInv, ToldInv, [Next]_vars, \A c \in Callers : ~Commit(c)
  PROVE  ToldInv'
<1> DEFINE Told == {"flipped", "noop", "replayed"}
<1>t. TypeOK /\ CallInv /\ UNCHANGED <<status, log>> /\ \A r : Took(r)' <=> Took(r)
  BY OnlyCommitFlips, SameMoney DEF IInv
<1>1. ASSUME NEW c \in Callers, NEW r \in Requests, LookUpCached(c, r)
      PROVE  ToldInv'
  <2>1. /\ cache' = cache /\ req'[c] = r /\ r.key \in Keys /\ cache[r.key] # NoResult
        /\ answer'[c] = "replayed" => SamePayload(cache[r.key].request, r)
        /\ answer'[c] \in Told => answer'[c] = "replayed"
        /\ \A d \in Callers \ {c} : req'[d] = req[d] /\ answer'[d] = answer[d]
    BY <1>1, <1>t, RequestFields DEF LookUpCached, Reply, TypeOK
  <2>2. SamePayload(cache[r.key].request, r) => Took(r)
    BY <2>1 DEF ToldInv, SamePayload, Took
  <2>3. ASSUME NEW d \in Callers, answer'[d] \in Told
        PROVE  req'[d] \in Requests /\ Took(req'[d])
    BY <2>1, <2>2, <2>3 DEF ToldInv
  <2> QED
    BY <1>t, <2>1, <2>3 DEF ToldInv
<1>2. ASSUME NEW c \in Callers, NEW r \in Requests, LookUpNew(c, r)
      PROVE  ToldInv'
  <2>1. /\ cache' = cache /\ answer'[c] = "none"
        /\ \A d \in Callers \ {c} : req'[d] = req[d] /\ answer'[d] = answer[d]
    BY <1>2, <1>t DEF LookUpNew, Reply, TypeOK
  <2> QED
    BY <1>t, <2>1 DEF ToldInv
<1>3. ASSUME NEW c \in Callers, Illegal(c) \/ CannotCompensate(c) \/ Rollback(c)
      PROVE  ToldInv'
  <2>1. /\ cache' = cache /\ req' = req /\ answer'[c] = "error"
        /\ \A d \in Callers \ {c} : answer'[d] = answer[d]
    BY <1>3, <1>t DEF Illegal, CannotCompensate, Rollback, Leave, Reply, TypeOK
  <2> QED
    BY <1>t, <2>1 DEF ToldInv
<1>4. ASSUME NEW c \in Callers, StoreNoOp(c)
      PROVE  ToldInv'
  <2>1. PICK r \in Requests : r = req[c]
    BY <1>4 DEF StoreNoOp, IInv, CallInv
  <2>2. Took(r)
    BY <1>4, <2>1, StandsThere DEF StoreNoOp, HeldInv, Held, Leg, Action, Target
  <2>3. /\ req' = req /\ \A d \in Callers \ {c} : answer'[d] = answer[d]
        /\ cache' = [cache EXCEPT ![r.key] = [request |-> r, flipped |-> FALSE]]
    BY <1>4, <1>t, <2>1 DEF StoreNoOp, StoreResult, Leave, Reply, TypeOK
  <2>4. \A k \in Keys : cache'[k] = cache[k] \/ cache'[k].request = r
    BY <1>t, <2>3 DEF TypeOK
  <2> QED
    BY <1>t, <2>1, <2>2, <2>3, <2>4 DEF ToldInv
<1>5. ASSUME NEW c \in Callers, Works(c)
      PROVE  ToldInv'
  BY <1>5, <1>t, WorkFacts DEF ToldInv
<1>6. ASSUME Around
      PROVE  ToldInv'
  <2>1. req' = req /\ answer' = answer
    BY <1>6 DEF Around, closeSession, ExpireKey, vars, callVars
  <2>2. \A k \in Keys : cache'[k] = cache[k] \/ cache'[k] = NoResult
    BY <1>6, <1>t DEF Around, closeSession, ExpireKey, vars, TypeOK
  <2> QED
    BY <1>t, <2>1, <2>2 DEF ToldInv
<1> QED
  BY <1>1, <1>2, <1>3, <1>4, <1>5, <1>6, WhoSteps DEF Idles

\* A step that flips nothing keeps drawers and answers true.
LEMMA StepMoney ==
  ASSUME IInv, MoneyInv, [Next]_vars, \A c \in Callers : ~Commit(c)
  PROVE  MoneyInv'
<1>t. TypeOK /\ HeldInv /\ UNCHANGED <<status, log>>
  BY OnlyCommitFlips DEF IInv, MoneyInv
<1>1. SaleInv' /\ ReversalInv' /\ ToldInv'
  BY <1>t, SameMoney, StepTold DEF MoneyInv
<1>2. HeldInv'
  <2>1. ASSUME NEW c \in Callers, Idles(c)
        PROVE  HeldInv'
    <3>1. Held(c)'
      BY <1>t, <2>1, IdleFacts DEF Held
    <3>2. \A d \in Callers \ {c} : Held(d)'
      BY <1>t, <2>1, IdleFacts, OtherHeld DEF HeldInv
    <3> QED
      BY <3>1, <3>2 DEF HeldInv
  <2>2. ASSUME NEW c \in Callers, Works(c)
        PROVE  HeldInv'
    <3>1. Held(c)'
      BY <1>t, <2>2, WorkHeld
    <3>2. \A d \in Callers \ {c} : Held(d)'
      BY <1>t, <2>2, WorkFacts, OtherHeld DEF HeldInv
    <3> QED
      BY <3>1, <3>2 DEF HeldInv
  <2>3. ASSUME Around
        PROVE  HeldInv'
    <3>1. pc' = pc /\ req' = req /\ moved' = moved
      BY <2>3 DEF Around, closeSession, ExpireKey, vars, callVars
    <3> QED
      BY <1>t, <3>1, OtherHeld DEF HeldInv
  <2> QED
    BY <2>1, <2>2, <2>3, WhoSteps
<1> QED
  BY <1>1, <1>2 DEF MoneyInv

\* What a commit does to the sales and the reversals of its leg.
LEMMA CommitMovements ==
  ASSUME IInv, NEW c \in Callers, Commit(c)
  PROVE  LET k == Leg(c)
             n == Len(log[k])
         IN  /\ n \in Nat /\ SaleFlips(k) \subseteq 1..n /\ ReversalFlips(k) \subseteq 1..n
             /\ SaleFlips(k)' = SaleFlips(k) \cup
                  (IF Action(c) = "VERIFY" /\ moved[c] # NoSession THEN {n + 1} ELSE {})
             /\ ReversalFlips(k)' = ReversalFlips(k) \cup
                  (IF Action(c) = "REVERSE" /\ moved[c] # NoSession THEN {n + 1} ELSE {})
             /\ \A l \in Legs \ {k} : SaleFlips(l)' = SaleFlips(l) /\ ReversalFlips(l)' = ReversalFlips(l)
<1> DEFINE k == Leg(c)
           n == Len(log[k])
<1>l. /\ n \in Nat /\ DOMAIN log'[k] = 1..(n + 1) /\ DOMAIN log[k] = 1..n
      /\ log'[k][n + 1] = FlipOf(c)
      /\ \A i \in 1..n : log'[k][i] = log[k][i]
      /\ \A l \in Legs \ {k} : log'[l] = log[l]
  BY CommitLog
<1>f. FlipOf(c).by.action = Action(c) /\ FlipOf(c).moved = moved[c]
  BY DEF FlipOf, Action
<1>k. Leg(c)' = k
  BY DEF Commit, Leave, Leg
<1> HIDE DEF k, n
<1>1. SaleFlips(k)' = {i \in 1..(n + 1) : log'[k][i].by.action = "VERIFY" /\ log'[k][i].moved # NoSession}
      /\ SaleFlips(k) = {i \in 1..n : log[k][i].by.action = "VERIFY" /\ log[k][i].moved # NoSession}
  BY <1>l, <1>k DEF SaleFlips, k
<1>2. ReversalFlips(k)' = {i \in 1..(n + 1) : log'[k][i].by.action = "REVERSE" /\ log'[k][i].moved # NoSession}
      /\ ReversalFlips(k) = {i \in 1..n : log[k][i].by.action = "REVERSE" /\ log[k][i].moved # NoSession}
  BY <1>l, <1>k DEF ReversalFlips, k
<1>3. \A i : i \in 1..(n + 1) <=> i \in 1..n \/ i = n + 1
  BY <1>l
<1>4. SaleFlips(k)' = SaleFlips(k) \cup
        (IF Action(c) = "VERIFY" /\ moved[c] # NoSession THEN {n + 1} ELSE {})
  BY <1>l, <1>f, <1>1, <1>3
<1>5. ReversalFlips(k)' = ReversalFlips(k) \cup
        (IF Action(c) = "REVERSE" /\ moved[c] # NoSession THEN {n + 1} ELSE {})
  BY <1>l, <1>f, <1>2, <1>3
<1>6. \A l \in Legs \ {k} : SaleFlips(l)' = SaleFlips(l) /\ ReversalFlips(l)' = ReversalFlips(l)
  BY <1>l DEF SaleFlips, ReversalFlips
<1> QED
  BY <1>l, <1>k, <1>1, <1>2, <1>4, <1>5, <1>6 DEF k, n

\* Only REVERSE leads to REVERSED, nothing leads on, and VERIFY leads to paid.
LEMMA ReverseEdges ==
  \A a \in Actions : /\ "REVERSED" \notin SourceStatuses[a]
                     /\ TargetStatus[a] = "REVERSED" <=> a = "REVERSE"
                     /\ a = "VERIFY" => TargetStatus[a] \in CompletedStatuses
BY DEF Actions, SourceStatuses, TargetStatus, CompletedStatuses

\* So does the commit of a flip.
LEMMA CommitMoney ==
  ASSUME IInv, MoneyInv, NEW c \in Callers, Commit(c)
  PROVE  MoneyInv'
<1>t. TypeOK /\ CallInv
  BY DEF IInv
<1>1. PICK k \in Legs : k = Leg(c)
  BY CommitFlip
<1>2. PICK n \in Nat : n = Len(log[k])
  BY <1>1, CommitMovements
<1>a. PICK a \in Actions : a = Action(c)
  BY CommitFlip
<1>c. /\ pc[c] = "commit" /\ req' = req /\ req[c] \in Requests /\ legLock[k] = c
      /\ status[k] \in SourceStatuses[a] /\ Target(c) = TargetStatus[a]
      /\ status'[k] = TargetStatus[a]
      /\ \A l \in Legs \ {k} : status'[l] = status[l] /\ log'[l] = log[l]
  BY <1>1, <1>a, CommitFlip, CommitLog DEF Commit, Leave, Target
<1>e. /\ status[k] # "REVERSED" /\ (TargetStatus[a] = "REVERSED" <=> a = "REVERSE")
      /\ a = "VERIFY" => TargetStatus[a] \in CompletedStatuses
      /\ status[k] \in CompletedStatuses => TargetStatus[a] \in CompletedStatuses \cup {"REVERSED"}
  BY <1>c, ReverseEdges, PaidEdges
<1>m. /\ SaleFlips(k) \subseteq 1..n
      /\ SaleFlips(k)' = SaleFlips(k) \cup (IF a = "VERIFY" /\ moved[c] # NoSession THEN {n + 1} ELSE {})
      /\ ReversalFlips(k)' = ReversalFlips(k) \cup (IF a = "REVERSE" /\ moved[c] # NoSession THEN {n + 1} ELSE {})
      /\ \A l \in Legs \ {k} : SaleFlips(l)' = SaleFlips(l) /\ ReversalFlips(l)' = ReversalFlips(l)
  <2>1. Leg(c)' = Leg(c)
    BY <1>c DEF Leg
  <2>2. SaleFlips(Leg(c))' = SaleFlips(k)' /\ ReversalFlips(Leg(c))' = ReversalFlips(k)'
    BY <1>1, <2>1 DEF SaleFlips, ReversalFlips
  <2> QED
    BY <1>1, <1>2, <1>a, <2>2, CommitMovements
<1>w. \A l : WiredSale(l)' = WiredSale(l)
  BY DEF WiredSale
<1>s. \A l \in Legs \ {k} : HasSale(l)' <=> HasSale(l)
  BY <1>m, <1>w DEF HasSale
<1>h. /\ a = "REVERSE" /\ k \in CashLegs => moved[c] # NoSession
      /\ a = "VERIFY" /\ moved[c] # NoSession => ~HasSale(k)
  BY <1>1, <1>a, <1>c DEF MoneyInv, HeldInv, Held
<1>3. SaleInv'
  <2>1. ASSUME NEW l \in Legs \ {k}
        PROVE  /\ HasSale(l)' => status'[l] \in CompletedStatuses \cup {"REVERSED"}
               /\ WiredSale(l)' => SaleFlips(l)' = {}
               /\ \A i, j \in SaleFlips(l)' : i = j
    BY <1>c, <1>m, <1>w, <1>s DEF MoneyInv, SaleInv
  <2>2. CASE a = "VERIFY" /\ moved[c] # NoSession
    <3>1. SaleFlips(k) = {} /\ ~WiredSale(k)
      BY <1>h, <2>2 DEF HasSale
    <3>2. SaleFlips(k)' = {n + 1} /\ ~WiredSale(k)'
      BY <1>m, <1>w, <2>2, <3>1
    <3> QED
      BY <1>c, <1>e, <2>1, <2>2, <3>2 DEF SaleInv
  <2>3. CASE ~(a = "VERIFY" /\ moved[c] # NoSession)
    <3>1. SaleFlips(k)' = SaleFlips(k)
      BY <1>m, <2>3
    <3>2. HasSale(k)' <=> HasSale(k)
      BY <3>1, <1>w DEF HasSale
    <3>3. HasSale(k) => status[k] \in CompletedStatuses
      BY <1>e DEF MoneyInv, SaleInv
    <3> QED
      BY <1>c, <1>e, <1>w, <2>1, <3>1, <3>2, <3>3 DEF MoneyInv, SaleInv
  <2> QED
    BY <2>2, <2>3
<1>4. ReversalInv'
  <2>1. ASSUME NEW l \in CashLegs, l # k
        PROVE  IF status'[l] = "REVERSED" THEN \E i \in DOMAIN log'[l] : ReversalFlips(l)' = {i}
               ELSE ReversalFlips(l)' = {}
    BY <1>c, <1>m, <2>1, LegAssumption DEF MoneyInv, ReversalInv
  <2>2. ASSUME k \in CashLegs
        PROVE  IF status'[k] = "REVERSED" THEN \E i \in DOMAIN log'[k] : ReversalFlips(k)' = {i}
               ELSE ReversalFlips(k)' = {}
    <3>1. ReversalFlips(k) = {}
      BY <1>e, <2>2 DEF MoneyInv, ReversalInv
    <3>2. n + 1 \in DOMAIN log'[k]
      BY <1>1, <1>2, CommitLog
    <3> QED
      BY <1>c, <1>e, <1>h, <1>m, <2>2, <3>1, <3>2
  <2> QED
    BY <2>1, <2>2 DEF ReversalInv
<1>5. HeldInv'
  <2>1. ASSUME NEW d \in Callers \ {c}
        PROVE  Held(d)'
    <3>1. pc'[d] = pc[d] /\ moved'[d] = moved[d]
      BY <1>t DEF Commit, Leave, TypeOK
    <3>2. CASE pc[d] \notin {"store", "snapshot", "commit"}
      BY <3>1, <3>2 DEF Held
    <3>3. CASE pc[d] \in {"store", "snapshot", "commit"}
      <4>1. PICK l \in Legs : l = Leg(d)
        BY <1>t, <3>3, RequestFields DEF CallInv, Leg
      <4>2. l # k
        BY <1>c, <1>t, <3>3, <4>1 DEF CallInv
      <4>3. Leg(d)' = l /\ Action(d)' = Action(d) /\ Target(d)' = Target(d)
        BY <1>c, <4>1 DEF Leg, Action, Target
      <4>4. HasSale(Leg(d))' <=> HasSale(l)
        BY <1>s, <4>2, <4>3 DEF HasSale, WiredSale, SaleFlips
      <4>5. status'[l] = status[l]
        BY <1>c, <4>2
      <4> QED
        BY <3>1, <4>1, <4>3, <4>4, <4>5 DEF MoneyInv, HeldInv, Held
    <3> QED
      BY <3>2, <3>3
  <2>2. Held(c)'
    BY <1>t DEF Commit, Leave, TypeOK, Held
  <2> QED
    BY <2>1, <2>2 DEF HeldInv
<1>6. ToldInv'
  <2>1. \A r \in Requests : Took(r) => Took(r)'
    <3>1. \A l \in Legs : \A i \in DOMAIN log[l] : i \in DOMAIN log'[l] /\ log'[l][i] = log[l][i]
      BY <1>1, <1>c, CommitLog
    <3> QED
      BY <3>1, RequestFields DEF Took
  <2>2. PICK r \in Requests : r = req[c]
    BY <1>c
  <2>3. Took(r)'
    <3>1. n + 1 \in DOMAIN log'[k] /\ log'[k][n + 1].to = TargetStatus[a]
      <4>1. n + 1 \in DOMAIN log'[k] /\ log'[k][n + 1] = FlipOf(c)
        BY <1>1, <1>2, CommitLog
      <4>2. FlipOf(c).to = TargetStatus[a]
        BY <1>c DEF FlipOf
      <4> QED
        BY <4>1, <4>2
    <3> QED
      BY <1>1, <1>a, <2>2, <3>1 DEF Took, Leg, Action
  <2>4. \A d \in Callers \ {c} : answer'[d] = answer[d]
    BY <1>t DEF Commit, Reply, TypeOK
  <2>5. cache' = [cache EXCEPT ![r.key] = [request |-> r, flipped |-> TRUE]]
    BY <2>2 DEF Commit, StoreResult
  <2>6. \A j \in Keys : cache'[j] = cache[j] \/ cache'[j].request = r
    BY <1>t, <2>5 DEF TypeOK
  <2>7. ASSUME NEW d \in Callers, answer'[d] \in {"flipped", "noop", "replayed"}
        PROVE  req'[d] \in Requests /\ Took(req[d])'
    <3>1. CASE d = c
      BY <1>c, <2>2, <2>3, <3>1 DEF Took
    <3>2. CASE d # c
      <4>1. req[d] \in Requests /\ Took(req[d])
        BY <2>4, <2>7, <3>2 DEF MoneyInv, ToldInv
      <4>2. PICK q \in Requests : q = req[d]
        BY <4>1
      <4> QED
        BY <1>c, <2>1, <4>1, <4>2 DEF Took
    <3> QED
      BY <3>1, <3>2
  <2>8. ASSUME NEW j \in Keys, cache'[j] # NoResult
        PROVE  Took(cache[j].request)'
    <3>1. CASE cache'[j].request = r
      BY <2>3, <3>1 DEF Took
    <3>2. CASE cache'[j] = cache[j]
      <4>1. PICK q \in Requests : q = cache[j].request
        BY <1>t, <2>8, <3>2 DEF TypeOK, Cached
      <4>2. Took(q)'
        BY <2>1, <2>8, <3>2, <4>1 DEF MoneyInv, ToldInv
      <4> QED
        BY <3>2, <4>1, <4>2 DEF Took
    <3> QED
      BY <2>6, <3>1, <3>2
  <2> QED
    BY <2>7, <2>8 DEF ToldInv
<1> QED
  BY <1>3, <1>4, <1>5, <1>6 DEF MoneyInv

\* Drawers and answers agree with the legs in every reachable state.
THEOREM MoneyInvariance == Spec => []MoneyInv
<1>1. IInv /\ MoneyInv /\ [Next]_vars => MoneyInv'
  BY StepMoney, CommitMoney
<1> QED
  BY <1>1, InitMoney, Invariance, PTL DEF Spec

\* NoOrphanSale: a drawer has one sale of money that arrived, and no other.
THEOREM SalesArrived == Spec => []NoOrphanSale
<1>1. IInv /\ MoneyInv => NoOrphanSale
  <2> SUFFICES ASSUME IInv, MoneyInv, NEW l \in Legs
               PROVE  /\ HasSale(l) => status[l] \in CompletedStatuses \cup {"REVERSED"}
                      /\ Cardinality(SaleFlips(l)) + (IF WiredSale(l) THEN 1 ELSE 0) <= 1
    BY DEF NoOrphanSale
  <2>1. /\ HasSale(l) => status[l] \in CompletedStatuses \cup {"REVERSED"}
        /\ WiredSale(l) => SaleFlips(l) = {}
        /\ \A i, j \in SaleFlips(l) : i = j
    BY DEF MoneyInv, SaleInv
  <2>2. CASE SaleFlips(l) = {}
    <3>1. Cardinality(SaleFlips(l)) = 0
      BY <2>2, FS_EmptySet
    <3> QED
      BY <2>1, <3>1
  <2>3. CASE SaleFlips(l) # {}
    <3>1. PICK i : SaleFlips(l) = {i}
      BY <2>1, <2>3
    <3>2. Cardinality(SaleFlips(l)) = 1
      BY <3>1, FS_Singleton
    <3> QED
      BY <2>1, <2>3, <3>2
  <2> QED
    BY <2>2, <2>3
<1> QED
  BY <1>1, Invariance, MoneyInvariance, PTL

\* ReversalIsCompensated: a cash leg is REVERSED with one movement out.
THEOREM ReversalsPaidOut == Spec => []ReversalIsCompensated
<1>1. MoneyInv => ReversalIsCompensated
  <2> SUFFICES ASSUME MoneyInv, NEW l \in CashLegs
               PROVE  Cardinality(ReversalFlips(l)) = IF status[l] = "REVERSED" THEN 1 ELSE 0
    BY DEF ReversalIsCompensated
  <2> QED
    BY FS_EmptySet, FS_Singleton DEF MoneyInv, ReversalInv
<1> QED
  BY <1>1, MoneyInvariance, PTL

\* SuccessIsReal: who is told of success asked for what took place.
THEOREM AnswersAreReal == Spec => []SuccessIsReal
<1>1. MoneyInv => SuccessIsReal
  BY DEF MoneyInv, ToldInv, Took, SuccessIsReal, Target, Leg, Action
<1> QED
  BY <1>1, MoneyInvariance, PTL

-----------------------------------------------------------------------------
(* The header                                                              *)

\* What a lock of the order's row before the snapshot is read would give: of
\* the calls that have read it and not committed, there is one at most.
OneSnapshot == \A c, d \in Callers : pc[c] = "commit" /\ pc[d] = "commit" => c = d

\* The header is right at all times, and a call that is about to write it
\* knows the legs as they stand.
HeaderInv ==
  /\ header = [l \in Legs |-> Bucket(status[l])]
  /\ \A c \in Callers : pc[c] = "commit" =>
       view[c] = [l \in Legs |-> Bucket(IF l = Leg(c) THEN Target(c) ELSE status[l])]

LEMMA StepHeader == IInv /\ HeaderInv /\ OneSnapshot /\ [Next]_vars => HeaderInv'
<1> SUFFICES ASSUME IInv, HeaderInv, OneSnapshot, [Next]_vars PROVE HeaderInv'
  OBVIOUS
<1> USE DEF IInv
\* A call that knew the legs still does.
<1>1. ASSUME header' = header, status' = status,
             \A c \in Callers : pc'[c] = "commit" =>
               pc[c] = "commit" /\ view'[c] = view[c] /\ req'[c] = req[c]
      PROVE  HeaderInv'
  BY <1>1 DEF HeaderInv, Leg, Target, Action
<1>2. ASSUME NEW c \in Callers, Commit(c)
      PROVE  HeaderInv'
  <2>1. /\ pc[c] = "commit" /\ header' = view[c]
        /\ status' = [status EXCEPT ![Leg(c)] = Target(c)]
    BY <1>2 DEF Commit
  <2>2. \A l \in Legs : status'[l] = IF l = Leg(c) THEN Target(c) ELSE status[l]
    BY <2>1 DEF TypeOK
  <2>3. header' = [l \in Legs |-> Bucket(status'[l])]
    BY <2>1, <2>2 DEF HeaderInv
  <2>4. \A d \in Callers : pc'[d] # "commit"
    BY <1>2, <2>1 DEF Commit, Leave, TypeOK, OneSnapshot
  <2> QED
    BY <2>3, <2>4 DEF HeaderInv
<1>3. ASSUME NEW c \in Callers, ReadSnapshot(c)
      PROVE  HeaderInv'
  <2>1. /\ UNCHANGED <<header, status, req>>
        /\ view' = [view EXCEPT ![c] =
             [l \in Legs |-> Bucket(IF l = Leg(c) THEN Target(c) ELSE status[l])]]
        /\ \A d \in Callers \ {c} : pc'[d] = pc[d]
    BY <1>3 DEF ReadSnapshot, tableVars, TypeOK
  <2>2. ASSUME NEW d \in Callers, pc'[d] = "commit"
        PROVE  view'[d] = [l \in Legs |-> Bucket(IF l = Leg(d) THEN Target(d) ELSE status[l])]
    BY <2>1, <2>2 DEF HeaderInv, TypeOK
  <2> QED
    BY <2>1, <2>2 DEF HeaderInv, Leg, Target, Action
<1>4. ASSUME NEW c \in Callers, LockLeg(c) \/ DeferredSale(c) \/ Compensate(c) \/ DecideReclass(c)
                                \/ Reclassify(c) \/ NoEffect(c)
      PROVE  HeaderInv'
  <2>1. UNCHANGED <<header, status, req, view>>
    BY <1>4 DEF LockLeg, DeferredSale, Compensate, DecideReclass, Reclassify, NoEffect, tableVars
  <2>2. pc'[c] # "commit" /\ \A d \in Callers \ {c} : pc'[d] = pc[d]
    BY <1>4 DEF LockLeg, DeferredSale, Compensate, DecideReclass, Reclassify, NoEffect,
                ToSnapshot, TypeOK
  <2> QED
    BY <1>1, <2>1, <2>2
<1>5. ASSUME NEW c \in Callers, Illegal(c) \/ CannotCompensate(c) \/ StoreNoOp(c) \/ Rollback(c)
      PROVE  HeaderInv'
  <2>1. UNCHANGED <<header, status>> /\ Leave(c)
    BY <1>5 DEF Illegal, CannotCompensate, StoreNoOp, Rollback, tableVars
  <2> QED
    BY <1>1, <2>1 DEF Leave, TypeOK
<1>6. ASSUME NEW c \in Callers, NEW r \in Requests, LookUpCached(c, r) \/ LookUpNew(c, r)
      PROVE  HeaderInv'
  BY <1>1, <1>6 DEF LookUpCached, LookUpNew, tableVars, TypeOK
<1>7. ASSUME (\E s \in Sessions : closeSession(s)) \/ (\E k \in Keys : ExpireKey(k))
      PROVE  HeaderInv'
  BY <1>1, <1>7 DEF closeSession, ExpireKey, tableVars, callVars
<1>8. CASE UNCHANGED vars
  BY <1>1, <1>8 DEF vars
<1> QED
  BY <1>2, <1>3, <1>4, <1>5, <1>6, <1>7, <1>8 DEF Next, Progress

\* HeaderCountsLegs: the stored snapshot counts each leg as it stands, if no
\* two calls are between the reading of theirs and the commit.
THEOREM HeaderNeedsALock == Spec /\ []OneSnapshot => []HeaderCountsLegs
<1>1. Init => HeaderInv
  BY DEF Init, HeaderInv
<1>2. HeaderInv => HeaderCountsLegs
  BY DEF HeaderInv, HeaderCountsLegs
<1> QED
  BY <1>1, <1>2, StepHeader, Invariance, PTL DEF Spec

-----------------------------------------------------------------------------
(* Waiting                                                                 *)

\* A call at a statement whose row another call has locked.
Waits(c) ==
  \/ pc[c] = "lock" /\ ~LegFree(c)
  \/ pc[c] = "reclass" /\ headerLock # NoCaller
  \/ pc[c] = "commit" /\ headerLock \notin {NoCaller, c}

\* The header is locked by a call that reclassified and is not back yet.
LockInv ==
  /\ headerLock # NoCaller => pc[headerLock] \in {"snapshot", "commit"}
  /\ \A l \in Legs : legLock[l] # NoCaller => pc[legLock[l]] \notin {"idle", "lock"}

\* As long as calls are in flight, one of them does not wait: CANCEL, which
\* locks the header before it reads the snapshot, takes it after its leg, as
\* all the others do.
SomeoneGoesOn ==
  (\E c \in Callers : pc[c] # "idle") => \E c \in Callers : pc[c] # "idle" /\ ~Waits(c)

LEMMA StepLocks == IInv /\ LockInv /\ [Next]_vars => LockInv'
<1> SUFFICES ASSUME IInv, LockInv, [Next]_vars PROVE LockInv'
  OBVIOUS
<1> USE SentinelAssumption DEF IInv
<1>1. ASSUME UNCHANGED <<headerLock, legLock>>, NEW c \in Callers,
             pc[c] \notin {"idle", "lock"}, pc'[c] \in {"snapshot", "commit", "reclass"},
             pc[c] \in {"snapshot", "commit"} => pc'[c] \in {"snapshot", "commit"},
             \A d \in Callers \ {c} : pc'[d] = pc[d]
      PROVE  LockInv'
  BY <1>1 DEF LockInv, TypeOK
<1>2. ASSUME NEW c \in Callers, Leave(c)
      PROVE  LockInv'
  <2>1. /\ \A d \in Callers \ {c} : pc'[d] = pc[d]
        /\ headerLock' # c /\ (headerLock' # NoCaller => headerLock' = headerLock)
        /\ \A l \in Legs : legLock'[l] # c /\ (legLock'[l] # NoCaller => legLock'[l] = legLock[l])
    BY <1>2 DEF Leave, TypeOK
  <2> QED
    BY <2>1 DEF LockInv, TypeOK
<1>3. ASSUME NEW c \in Callers, LockLeg(c)
      PROVE  LockInv'
  <2>1. /\ headerLock' = headerLock /\ pc[c] = "lock" /\ pc'[c] \in {"store", "effects"}
        /\ \A d \in Callers \ {c} : pc'[d] = pc[d]
        /\ \A l \in Legs : legLock'[l] \in {legLock[l], c}
    BY <1>3 DEF LockLeg, TypeOK
  <2> QED
    BY <2>1 DEF LockInv, TypeOK
<1>4. ASSUME NEW c \in Callers, DeferredSale(c) \/ Compensate(c) \/ DecideReclass(c) \/ NoEffect(c)
                                \/ ReadSnapshot(c)
      PROVE  LockInv'
  <2>1. /\ pc[c] \in {"effects", "snapshot"} /\ pc'[c] \in {"snapshot", "commit", "reclass"}
        /\ pc[c] = "snapshot" => pc'[c] = "commit"
        /\ \A d \in Callers \ {c} : pc'[d] = pc[d]
    BY <1>4 DEF DeferredSale, Compensate, DecideReclass, NoEffect, ReadSnapshot, ToSnapshot, TypeOK
  <2>2. UNCHANGED <<headerLock, legLock>>
    BY <1>4 DEF DeferredSale, Compensate, DecideReclass, NoEffect, ReadSnapshot, lockVars
  <2> QED
    BY <1>1, <2>1, <2>2
<1>5. ASSUME NEW c \in Callers, Reclassify(c)
      PROVE  LockInv'
  <2>1. /\ legLock' = legLock /\ headerLock' = c /\ pc[c] = "reclass" /\ pc'[c] = "snapshot"
        /\ \A d \in Callers \ {c} : pc'[d] = pc[d]
    BY <1>5 DEF Reclassify, ToSnapshot, TypeOK
  <2> QED
    BY <2>1 DEF LockInv, TypeOK
<1>6. ASSUME NEW c \in Callers, NEW r \in Requests, LookUpCached(c, r) \/ LookUpNew(c, r)
      PROVE  LockInv'
  <2>1. /\ UNCHANGED <<headerLock, legLock>> /\ pc[c] = "idle"
        /\ \A d \in Callers \ {c} : pc'[d] = pc[d]
    BY <1>6 DEF LookUpCached, LookUpNew, lockVars, TypeOK
  <2> QED
    BY <2>1 DEF LockInv, TypeOK
<1>7. ASSUME (\E s \in Sessions : closeSession(s)) \/ (\E k \in Keys : ExpireKey(k))
             \/ UNCHANGED vars
      PROVE  LockInv'
  BY <1>7 DEF closeSession, ExpireKey, lockVars, callVars, vars, LockInv
<1> QED
  BY <1>2, <1>3, <1>4, <1>5, <1>6, <1>7
     DEF Next, Progress, Illegal, CannotCompensate, Commit, StoreNoOp, Rollback

\* No circle of calls ever waits, however many there are: what CallsReturn
\* asks of the locks.
THEOREM NoCircle == Spec => []SomeoneGoesOn
<1>1. Init => LockInv
  BY DEF Init, LockInv
<1>2. IInv /\ LockInv => SomeoneGoesOn
  <2> SUFFICES ASSUME IInv, LockInv, NEW c \in Callers, pc[c] # "idle"
               PROVE  \E d \in Callers : pc[d] # "idle" /\ ~Waits(d)
    BY DEF SomeoneGoesOn
  <2> USE SentinelAssumption DEF IInv
  \* Who holds the header waits for nothing.
  <2>1. CASE headerLock # NoCaller
    <3>1. headerLock \in Callers /\ pc[headerLock] \in {"snapshot", "commit"}
      BY <2>1 DEF LockInv, TypeOK
    <3> QED
      BY <3>1 DEF Waits
  \* With the header free, who holds a leg waits for nothing.
  <2>2. CASE headerLock = NoCaller /\ pc[c] = "lock" /\ ~LegFree(c)
    <3>1. req[c] \in Requests /\ Leg(c) \in Legs
      BY <2>2, RequestFields DEF CallInv, Leg
    <3>2. legLock[Leg(c)] \in Callers /\ pc[legLock[Leg(c)]] \notin {"idle", "lock"}
      BY <2>2, <3>1 DEF LockInv, LegFree, TypeOK
    <3> QED
      BY <2>2, <3>2 DEF Waits
  <2>3. CASE headerLock = NoCaller /\ ~(pc[c] = "lock" /\ ~LegFree(c))
    BY <2>3 DEF Waits
  <2> QED
    BY <2>1, <2>2, <2>3
<1> QED
  BY <1>1, <1>2, StepLocks, Invariance, PTL DEF Spec
=============================================================================
