---------------------------- MODULE OutboxProofs ----------------------------
(***************************************************************************)
(* Proofs about the financial outbox, for any number of events, workers,   *)
(* faults and crashes and any batch limit.                                 *)
(***************************************************************************)
EXTENDS Outbox, TLAPS

\* What each worker's position says of the events it holds.  An event of a
\* batch is PROCESSING, or PROCESSED if it is the one whose markProcessed threw;
\* the event being dispatched is in the batch and has a handler; from "mark"
\* on, its handlers have committed.
WorkerInv ==
  \A w \in Workers :
    /\ \A e \in batch[w] :
         \/ status[e] = "PROCESSING"
         \/ status[e] = "PROCESSED" /\ e = current[w] /\ pc[w] \in {"fail", "failWrite"}
    /\ pc[w] \in {"handle", "mark", "fail", "failWrite"} => current[w] \in batch[w]
    /\ pc[w] \in {"idle", "loop"} => current[w] = NoEvent
    /\ pc[w] = "idle" => batch[w] = {}
    /\ pc[w] = "mark" => current[w] \in handled
    /\ pc[w] = "failWrite" => seen[w] = attempts[current[w]]

\* A row's key is its event's, so that two rows of one event are one row.
RowInv == \A r \in rows : r.key = r.event

\* PROCESSING, PENDING and FAILED events are below the dead-letter count.
AttemptInv ==
  \A e \in Events :
    /\ status[e] # "DEAD_LETTERED" => attempts[e] < Len(RETRY_DELAYS_MINUTES)

IInv == /\ TypeOK /\ ExclusiveClaim /\ ProcessedAfterHandlers /\ FailedIsScheduled
        /\ WorkerInv /\ RowInv /\ AttemptInv

-----------------------------------------------------------------------------

\* The back-off array has five delays.
LEMMA DelaysLen == Len(RETRY_DELAYS_MINUTES) = 5
  BY DEF RETRY_DELAYS_MINUTES

\* The empty outbox satisfies the invariant.
LEMMA InitIInv == Init => IInv
  BY KindAssumption, NoEventAssumption, BoundAssumption, DelaysLen
  DEF Init, IInv, TypeOK, ExclusiveClaim, ProcessedAfterHandlers, FailedIsScheduled,
      WorkerInv, RowInv, AttemptInv, Statuses, Steps

\* Each action preserves each part of the invariant.
LEMMA StepIInv == IInv /\ [Next]_vars => IInv'
<1> SUFFICES ASSUME IInv, [Next]_vars PROVE IInv'
  OBVIOUS
<1> USE KindAssumption, NoEventAssumption, BoundAssumption, DelaysLen DEF IInv, eventVars, effectVars, workerVars, boundVars
<1>1. ASSUME NEW e \in Events, emitEventTx(e)
      PROVE  IInv'
  <2>1. TypeOK'
    BY <1>1 DEF emitEventTx, TypeOK, WorkerInv, AttemptInv, Statuses, Steps
  <2>2. ExclusiveClaim'
    BY <1>1 DEF emitEventTx, TypeOK, ExclusiveClaim, WorkerInv
  <2>3. ProcessedAfterHandlers'
    BY <1>1 DEF emitEventTx, TypeOK, ProcessedAfterHandlers, WorkerInv
  <2>4. FailedIsScheduled'
    BY <1>1 DEF emitEventTx, TypeOK, FailedIsScheduled, WorkerInv
  <2>5. WorkerInv'
    BY <1>1 DEF emitEventTx, TypeOK, ExclusiveClaim, WorkerInv, Steps
  <2>6. RowInv'
    BY <1>1 DEF emitEventTx, TypeOK, RowInv, WorkerInv
  <2>7. AttemptInv'
    BY <1>1 DEF emitEventTx, TypeOK, AttemptInv, WorkerInv
  <2> QED
    BY <2>1, <2>2, <2>3, <2>4, <2>5, <2>6, <2>7
<1>2. ASSUME NEW e \in Events, BackoffElapses(e)
      PROVE  IInv'
  <2>1. TypeOK'
    BY <1>2 DEF BackoffElapses, TypeOK, WorkerInv, AttemptInv, Statuses, Steps
  <2>2. ExclusiveClaim'
    BY <1>2 DEF BackoffElapses, TypeOK, ExclusiveClaim, WorkerInv
  <2>3. ProcessedAfterHandlers'
    BY <1>2 DEF BackoffElapses, TypeOK, ProcessedAfterHandlers, WorkerInv
  <2>4. FailedIsScheduled'
    BY <1>2 DEF BackoffElapses, TypeOK, FailedIsScheduled, WorkerInv
  <2>5. WorkerInv'
    BY <1>2 DEF BackoffElapses, TypeOK, ExclusiveClaim, WorkerInv, Steps
  <2>6. RowInv'
    BY <1>2 DEF BackoffElapses, TypeOK, RowInv, WorkerInv
  <2>7. AttemptInv'
    BY <1>2 DEF BackoffElapses, TypeOK, AttemptInv, WorkerInv
  <2> QED
    BY <2>1, <2>2, <2>3, <2>4, <2>5, <2>6, <2>7
<1>3. ASSUME NEW e \in Events, manualRetry(e)
      PROVE  IInv'
  <2>1. TypeOK'
    BY <1>3 DEF manualRetry, Retryable, TypeOK, WorkerInv, AttemptInv, Statuses, Steps
  <2>2. ExclusiveClaim'
    BY <1>3 DEF manualRetry, Retryable, TypeOK, ExclusiveClaim, WorkerInv
  <2>3. ProcessedAfterHandlers'
    BY <1>3 DEF manualRetry, Retryable, TypeOK, ProcessedAfterHandlers, WorkerInv
  <2>4. FailedIsScheduled'
    BY <1>3 DEF manualRetry, Retryable, TypeOK, FailedIsScheduled, WorkerInv
  <2>5. WorkerInv'
    BY <1>3 DEF manualRetry, Retryable, TypeOK, ExclusiveClaim, WorkerInv, Steps
  <2>6. RowInv'
    BY <1>3 DEF manualRetry, Retryable, TypeOK, RowInv, WorkerInv
  <2>7. AttemptInv'
    BY <1>3 DEF manualRetry, Retryable, TypeOK, AttemptInv, WorkerInv
  <2> QED
    BY <2>1, <2>2, <2>3, <2>4, <2>5, <2>6, <2>7
<1>4. ASSUME NEW w \in Workers, claimBatch(w)
      PROVE  IInv'
  <2>1. TypeOK'
    BY <1>4 DEF claimBatch, Eligible, Claimable, TypeOK, WorkerInv, AttemptInv, Statuses, Steps
  <2>2. ExclusiveClaim'
    BY <1>4 DEF claimBatch, Eligible, Claimable, TypeOK, ExclusiveClaim, WorkerInv
  <2>3. ProcessedAfterHandlers'
    BY <1>4 DEF claimBatch, Eligible, Claimable, TypeOK, ProcessedAfterHandlers, WorkerInv
  <2>4. FailedIsScheduled'
    BY <1>4 DEF claimBatch, Eligible, Claimable, TypeOK, FailedIsScheduled, WorkerInv
  <2>5. WorkerInv'
    BY <1>4 DEF claimBatch, Eligible, Claimable, TypeOK, ExclusiveClaim, WorkerInv, Steps
  <2>6. RowInv'
    BY <1>4 DEF claimBatch, Eligible, Claimable, TypeOK, RowInv, WorkerInv
  <2>7. AttemptInv'
    BY <1>4 DEF claimBatch, Eligible, Claimable, TypeOK, AttemptInv, WorkerInv
  <2> QED
    BY <2>1, <2>2, <2>3, <2>4, <2>5, <2>6, <2>7
<1>5. ASSUME NEW w \in Workers, NEW e \in Events, Dispatch(w, e)
      PROVE  IInv'
  <2>1. TypeOK'
    BY <1>5 DEF Dispatch, HasHandler, TypeOK, WorkerInv, AttemptInv, Statuses, Steps
  <2>2. ExclusiveClaim'
    BY <1>5 DEF Dispatch, HasHandler, TypeOK, ExclusiveClaim, WorkerInv
  <2>3. ProcessedAfterHandlers'
    BY <1>5 DEF Dispatch, HasHandler, TypeOK, ProcessedAfterHandlers, WorkerInv
  <2>4. FailedIsScheduled'
    BY <1>5 DEF Dispatch, HasHandler, TypeOK, FailedIsScheduled, WorkerInv
  <2>5. WorkerInv'
    BY <1>5 DEF Dispatch, HasHandler, TypeOK, ExclusiveClaim, WorkerInv, Steps
  <2>6. RowInv'
    BY <1>5 DEF Dispatch, HasHandler, TypeOK, RowInv, WorkerInv
  <2>7. AttemptInv'
    BY <1>5 DEF Dispatch, HasHandler, TypeOK, AttemptInv, WorkerInv
  <2> QED
    BY <2>1, <2>2, <2>3, <2>4, <2>5, <2>6, <2>7
<1>6. ASSUME NEW w \in Workers, NEW e \in Events, SkipUnowned(w, e)
      PROVE  IInv'
  <2>1. TypeOK'
    BY <1>6 DEF SkipUnowned, HasHandler, markProcessed, Advance, TypeOK, WorkerInv, AttemptInv, Statuses, Steps
  <2>2. ExclusiveClaim'
    BY <1>6 DEF SkipUnowned, HasHandler, markProcessed, Advance, TypeOK, ExclusiveClaim, WorkerInv
  <2>3. ProcessedAfterHandlers'
    BY <1>6 DEF SkipUnowned, HasHandler, markProcessed, Advance, TypeOK, ProcessedAfterHandlers, WorkerInv
  <2>4. FailedIsScheduled'
    BY <1>6 DEF SkipUnowned, HasHandler, markProcessed, Advance, TypeOK, FailedIsScheduled, WorkerInv
  <2>5. WorkerInv'
    BY <1>6 DEF SkipUnowned, HasHandler, markProcessed, Advance, TypeOK, ExclusiveClaim, WorkerInv, Steps
  <2>6. RowInv'
    BY <1>6 DEF SkipUnowned, HasHandler, markProcessed, Advance, TypeOK, RowInv, WorkerInv
  <2>7. AttemptInv'
    BY <1>6 DEF SkipUnowned, HasHandler, markProcessed, Advance, TypeOK, AttemptInv, WorkerInv
  <2> QED
    BY <2>1, <2>2, <2>3, <2>4, <2>5, <2>6, <2>7
<1>7. ASSUME NEW w \in Workers, Handle(w)
      PROVE  IInv'
  <2>1. TypeOK'
    BY <1>7 DEF Handle, Effect, IdempotencyKey, TypeOK, WorkerInv, AttemptInv, Statuses, Steps
  <2>2. ExclusiveClaim'
    BY <1>7 DEF Handle, Effect, IdempotencyKey, TypeOK, ExclusiveClaim, WorkerInv
  <2>3. ProcessedAfterHandlers'
    BY <1>7 DEF Handle, Effect, IdempotencyKey, TypeOK, ProcessedAfterHandlers, WorkerInv
  <2>4. FailedIsScheduled'
    BY <1>7 DEF Handle, Effect, IdempotencyKey, TypeOK, FailedIsScheduled, WorkerInv
  <2>5. WorkerInv'
    BY <1>7 DEF Handle, Effect, IdempotencyKey, TypeOK, ExclusiveClaim, WorkerInv, Steps
  <2>6. RowInv'
    BY <1>7 DEF Handle, Effect, IdempotencyKey, TypeOK, RowInv, WorkerInv
  <2>7. AttemptInv'
    BY <1>7 DEF Handle, Effect, IdempotencyKey, TypeOK, AttemptInv, WorkerInv
  <2> QED
    BY <2>1, <2>2, <2>3, <2>4, <2>5, <2>6, <2>7
<1>8. ASSUME NEW w \in Workers, HandlerThrows(w)
      PROVE  IInv'
  <2>1. TypeOK'
    BY <1>8 DEF HandlerThrows, TypeOK, WorkerInv, AttemptInv, Statuses, Steps
  <2>2. ExclusiveClaim'
    BY <1>8 DEF HandlerThrows, TypeOK, ExclusiveClaim, WorkerInv
  <2>3. ProcessedAfterHandlers'
    BY <1>8 DEF HandlerThrows, TypeOK, ProcessedAfterHandlers, WorkerInv
  <2>4. FailedIsScheduled'
    BY <1>8 DEF HandlerThrows, TypeOK, FailedIsScheduled, WorkerInv
  <2>5. WorkerInv'
    BY <1>8 DEF HandlerThrows, TypeOK, ExclusiveClaim, WorkerInv, Steps
  <2>6. RowInv'
    BY <1>8 DEF HandlerThrows, TypeOK, RowInv, WorkerInv
  <2>7. AttemptInv'
    BY <1>8 DEF HandlerThrows, TypeOK, AttemptInv, WorkerInv
  <2> QED
    BY <2>1, <2>2, <2>3, <2>4, <2>5, <2>6, <2>7
<1>9. ASSUME NEW w \in Workers, MarkDone(w)
      PROVE  IInv'
  <2>1. TypeOK'
    BY <1>9 DEF MarkDone, markProcessed, Advance, TypeOK, WorkerInv, AttemptInv, Statuses, Steps
  <2>2. ExclusiveClaim'
    BY <1>9 DEF MarkDone, markProcessed, Advance, TypeOK, ExclusiveClaim, WorkerInv
  <2>3. ProcessedAfterHandlers'
    BY <1>9 DEF MarkDone, markProcessed, Advance, TypeOK, ProcessedAfterHandlers, WorkerInv
  <2>4. FailedIsScheduled'
    BY <1>9 DEF MarkDone, markProcessed, Advance, TypeOK, FailedIsScheduled, WorkerInv
  <2>5. WorkerInv'
    BY <1>9 DEF MarkDone, markProcessed, Advance, TypeOK, ExclusiveClaim, WorkerInv, Steps
  <2>6. RowInv'
    BY <1>9 DEF MarkDone, markProcessed, Advance, TypeOK, RowInv, WorkerInv
  <2>7. AttemptInv'
    BY <1>9 DEF MarkDone, markProcessed, Advance, TypeOK, AttemptInv, WorkerInv
  <2> QED
    BY <2>1, <2>2, <2>3, <2>4, <2>5, <2>6, <2>7
<1>10. ASSUME NEW w \in Workers, MarkThrows(w)
      PROVE  IInv'
  <2>1. TypeOK'
    BY <1>10 DEF MarkThrows, markProcessed, TypeOK, WorkerInv, AttemptInv, Statuses, Steps
  <2>2. ExclusiveClaim'
    BY <1>10 DEF MarkThrows, markProcessed, TypeOK, ExclusiveClaim, WorkerInv
  <2>3. ProcessedAfterHandlers'
    BY <1>10 DEF MarkThrows, markProcessed, TypeOK, ProcessedAfterHandlers, WorkerInv
  <2>4. FailedIsScheduled'
    BY <1>10 DEF MarkThrows, markProcessed, TypeOK, FailedIsScheduled, WorkerInv
  <2>5. WorkerInv'
    BY <1>10 DEF MarkThrows, markProcessed, TypeOK, ExclusiveClaim, WorkerInv, Steps
  <2>6. RowInv'
    BY <1>10 DEF MarkThrows, markProcessed, TypeOK, RowInv, WorkerInv
  <2>7. AttemptInv'
    BY <1>10 DEF MarkThrows, markProcessed, TypeOK, AttemptInv, WorkerInv
  <2> QED
    BY <2>1, <2>2, <2>3, <2>4, <2>5, <2>6, <2>7
<1>11. ASSUME NEW w \in Workers, MarkFailedRead(w)
      PROVE  IInv'
  <2>1. TypeOK'
    BY <1>11 DEF MarkFailedRead, TypeOK, WorkerInv, AttemptInv, Statuses, Steps
  <2>2. ExclusiveClaim'
    BY <1>11 DEF MarkFailedRead, TypeOK, ExclusiveClaim, WorkerInv
  <2>3. ProcessedAfterHandlers'
    BY <1>11 DEF MarkFailedRead, TypeOK, ProcessedAfterHandlers, WorkerInv
  <2>4. FailedIsScheduled'
    BY <1>11 DEF MarkFailedRead, TypeOK, FailedIsScheduled, WorkerInv
  <2>5. WorkerInv'
    BY <1>11 DEF MarkFailedRead, TypeOK, ExclusiveClaim, WorkerInv, Steps
  <2>6. RowInv'
    BY <1>11 DEF MarkFailedRead, TypeOK, RowInv, WorkerInv
  <2>7. AttemptInv'
    BY <1>11 DEF MarkFailedRead, TypeOK, AttemptInv, WorkerInv
  <2> QED
    BY <2>1, <2>2, <2>3, <2>4, <2>5, <2>6, <2>7
<1>12. ASSUME NEW w \in Workers, MarkFailedWrite(w)
      PROVE  IInv'
  <2>1. TypeOK'
    BY <1>12 DEF MarkFailedWrite, FailureStatus, nextRetryAt, Advance, TypeOK, WorkerInv, AttemptInv, Statuses, Steps
  <2>2. ExclusiveClaim'
    BY <1>12 DEF MarkFailedWrite, FailureStatus, nextRetryAt, Advance, TypeOK, ExclusiveClaim, WorkerInv
  <2>3. ProcessedAfterHandlers'
    BY <1>12 DEF MarkFailedWrite, FailureStatus, nextRetryAt, Advance, TypeOK, ProcessedAfterHandlers, WorkerInv
  <2>4. FailedIsScheduled'
    BY <1>12 DEF MarkFailedWrite, FailureStatus, nextRetryAt, Advance, TypeOK, FailedIsScheduled, WorkerInv
  <2>5. WorkerInv'
    BY <1>12 DEF MarkFailedWrite, FailureStatus, nextRetryAt, Advance, TypeOK, ExclusiveClaim, WorkerInv, Steps
  <2>6. RowInv'
    BY <1>12 DEF MarkFailedWrite, FailureStatus, nextRetryAt, Advance, TypeOK, RowInv, WorkerInv
  <2>7. AttemptInv'
    BY <1>12 DEF MarkFailedWrite, FailureStatus, nextRetryAt, Advance, TypeOK, AttemptInv, WorkerInv
  <2> QED
    BY <2>1, <2>2, <2>3, <2>4, <2>5, <2>6, <2>7
<1>13. ASSUME NEW w \in Workers, Abort(w)
      PROVE  IInv'
  <2>1. TypeOK'
    BY <1>13 DEF Abort, Abandon, TypeOK, WorkerInv, AttemptInv, Statuses, Steps
  <2>2. ExclusiveClaim'
    BY <1>13 DEF Abort, Abandon, TypeOK, ExclusiveClaim, WorkerInv
  <2>3. ProcessedAfterHandlers'
    BY <1>13 DEF Abort, Abandon, TypeOK, ProcessedAfterHandlers, WorkerInv
  <2>4. FailedIsScheduled'
    BY <1>13 DEF Abort, Abandon, TypeOK, FailedIsScheduled, WorkerInv
  <2>5. WorkerInv'
    BY <1>13 DEF Abort, Abandon, TypeOK, ExclusiveClaim, WorkerInv, Steps
  <2>6. RowInv'
    BY <1>13 DEF Abort, Abandon, TypeOK, RowInv, WorkerInv
  <2>7. AttemptInv'
    BY <1>13 DEF Abort, Abandon, TypeOK, AttemptInv, WorkerInv
  <2> QED
    BY <2>1, <2>2, <2>3, <2>4, <2>5, <2>6, <2>7
<1>14. ASSUME NEW w \in Workers, Crash(w)
      PROVE  IInv'
  <2>1. TypeOK'
    BY <1>14 DEF Crash, Abandon, TypeOK, WorkerInv, AttemptInv, Statuses, Steps
  <2>2. ExclusiveClaim'
    BY <1>14 DEF Crash, Abandon, TypeOK, ExclusiveClaim, WorkerInv
  <2>3. ProcessedAfterHandlers'
    BY <1>14 DEF Crash, Abandon, TypeOK, ProcessedAfterHandlers, WorkerInv
  <2>4. FailedIsScheduled'
    BY <1>14 DEF Crash, Abandon, TypeOK, FailedIsScheduled, WorkerInv
  <2>5. WorkerInv'
    BY <1>14 DEF Crash, Abandon, TypeOK, ExclusiveClaim, WorkerInv, Steps
  <2>6. RowInv'
    BY <1>14 DEF Crash, Abandon, TypeOK, RowInv, WorkerInv
  <2>7. AttemptInv'
    BY <1>14 DEF Crash, Abandon, TypeOK, AttemptInv, WorkerInv
  <2> QED
    BY <2>1, <2>2, <2>3, <2>4, <2>5, <2>6, <2>7
<1>16. ASSUME NEW w \in Workers, HandlerUnheard(w)
      PROVE  IInv'
  <2>1. TypeOK'
    BY <1>16 DEF HandlerUnheard, Effect, IdempotencyKey, TypeOK, WorkerInv, AttemptInv, Statuses, Steps
  <2>2. ExclusiveClaim'
    BY <1>16 DEF HandlerUnheard, Effect, IdempotencyKey, TypeOK, ExclusiveClaim, WorkerInv
  <2>3. ProcessedAfterHandlers'
    BY <1>16 DEF HandlerUnheard, Effect, IdempotencyKey, TypeOK, ProcessedAfterHandlers, WorkerInv
  <2>4. FailedIsScheduled'
    BY <1>16 DEF HandlerUnheard, Effect, IdempotencyKey, TypeOK, FailedIsScheduled, WorkerInv
  <2>5. WorkerInv'
    BY <1>16 DEF HandlerUnheard, Effect, IdempotencyKey, TypeOK, ExclusiveClaim, WorkerInv, Steps
  <2>6. RowInv'
    BY <1>16 DEF HandlerUnheard, Effect, IdempotencyKey, TypeOK, RowInv, WorkerInv
  <2>7. AttemptInv'
    BY <1>16 DEF HandlerUnheard, Effect, IdempotencyKey, TypeOK, AttemptInv, WorkerInv
  <2> QED
    BY <2>1, <2>2, <2>3, <2>4, <2>5, <2>6, <2>7
<1>15. ASSUME UNCHANGED vars PROVE IInv'
  BY <1>15 DEF vars, TypeOK, ExclusiveClaim, ProcessedAfterHandlers, FailedIsScheduled, WorkerInv, RowInv, AttemptInv
<1> QED
  BY <1>1, <1>2, <1>3, <1>4, <1>5, <1>6, <1>7, <1>8, <1>9, <1>10, <1>11, <1>12, <1>13, <1>14, <1>15, <1>16 DEF Next, Work

\* The inductive invariant holds in every reachable state of the outbox.
THEOREM Invariance == Spec => []IInv
  BY InitIInv, StepIInv, PTL DEF Spec

-----------------------------------------------------------------------------

\* The outbox's variables keep their types: in particular attempts never
\* exceeds the number of back-off delays.
THEOREM TypeCorrect == Spec => []TypeOK
<1>1. IInv => TypeOK
  BY DEF IInv
<1> QED
  BY <1>1, Invariance, PTL

\* However many workers overlap, no event is ever held by two of them.
THEOREM NoDoubleClaim == Spec => []ExclusiveClaim
<1>1. IInv => ExclusiveClaim
  BY DEF IInv
<1> QED
  BY <1>1, Invariance, PTL

\* However often an event is delivered, its handlers leave at most one row.
THEOREM AtMostOneEffect == Spec => []EffectAtMostOnce
<1>1. IInv => EffectAtMostOnce
  BY DEF IInv, TypeOK, RowInv, EffectAtMostOnce
<1> QED
  BY <1>1, Invariance, PTL

\* No event a handler owns is acknowledged before the handlers committed.
THEOREM NoLostDelivery == Spec => []ProcessedAfterHandlers
<1>1. IInv => ProcessedAfterHandlers
  BY DEF IInv
<1> QED
  BY <1>1, Invariance, PTL

\* No step of anyone takes an event out of PROCESSED once the worker that
\* wrote it is done with it.
THEOREM ProcessedStays == Spec => ProcessedIsFinal
<1>1. IInv /\ [Next]_vars => [\A e \in Events : status[e] = "PROCESSED" /\ ~InHand(e) => status'[e] = "PROCESSED"]_vars
  <2> SUFFICES ASSUME IInv, Next, NEW e \in Events, status[e] = "PROCESSED", ~InHand(e)
               PROVE  status'[e] = "PROCESSED"
    OBVIOUS
  <2> USE DEF IInv, TypeOK, WorkerInv
  <2>1. ASSUME NEW f \in Events, emitEventTx(f) \/ BackoffElapses(f) \/ manualRetry(f)
        PROVE  status'[e] = "PROCESSED"
    BY <2>1 DEF emitEventTx, BackoffElapses, manualRetry, Retryable
  <2>2. ASSUME NEW w \in Workers, claimBatch(w)
        PROVE  status'[e] = "PROCESSED"
    <3>1. PICK S \in SUBSET Eligible :
            status' = [f \in Events |-> IF f \in S THEN "PROCESSING" ELSE status[f]]
      BY <2>2 DEF claimBatch
    <3>2. e \notin S
      BY <3>1 DEF Eligible, Claimable
    <3> QED
      BY <3>1, <3>2
  <2>3. ASSUME NEW w \in Workers, Work(w)
        PROVE  status'[e] = "PROCESSED"
    <3>1. current[w] # e
      BY DEF InHand
    <3> QED
      BY <2>3, <3>1 DEF Work, Dispatch, SkipUnowned, Handle, Effect, HandlerThrows, MarkDone,
                        MarkFailedRead, MarkFailedWrite, markProcessed, eventVars
  <2>4. ASSUME NEW w \in Workers, HandlerUnheard(w) \/ MarkThrows(w) \/ Abort(w) \/ Crash(w)
        PROVE  status'[e] = "PROCESSED"
    BY <2>4 DEF HandlerUnheard, MarkThrows, markProcessed, Abort, Crash, eventVars
  <2> QED
    BY <2>1, <2>2, <2>3, <2>4 DEF Next
<1> QED
  BY <1>1, Invariance, PTL DEF Spec, ProcessedIsFinal

-----------------------------------------------------------------------------

\* An event a worker has in hand is in its batch and in no other.
LEMMA InHandInBatch ==
  IInv => \A w \in Workers : current[w] # NoEvent =>
            /\ current[w] \in batch[w] /\ current[w] \in Events
            /\ pc[w] \in {"handle", "mark", "fail", "failWrite"}
            /\ \A v \in Workers : v # w => current[v] # current[w] /\ current[w] \notin batch[v]
<1> SUFFICES ASSUME IInv, NEW w \in Workers, current[w] # NoEvent
             PROVE  /\ current[w] \in batch[w] /\ current[w] \in Events
                    /\ pc[w] \in {"handle", "mark", "fail", "failWrite"}
                    /\ \A v \in Workers : v # w => current[v] # current[w] /\ current[w] \notin batch[v]
  OBVIOUS
<1>1. \A v \in Workers : current[v] # NoEvent => current[v] \in batch[v]
  BY DEF IInv, TypeOK, Steps, WorkerInv
<1>2. current[w] \in Events /\ pc[w] \in {"handle", "mark", "fail", "failWrite"}
  BY DEF IInv, TypeOK, Steps, WorkerInv
<1>3. \A v \in Workers : v # w => current[w] \notin batch[v]
  BY <1>1 DEF IInv, ExclusiveClaim
<1> QED
  BY <1>1, <1>2, <1>3

\* Every initial state and step of the outbox is one of the delivery promise.
THEOREM Refinement == Spec => RefinesDelivery
<1>1. Init => Delivery!Init
  BY DEF Init, Delivery!Init, PhaseOf
<1>2. IInv /\ [Next]_vars => [Delivery!Next]_(Delivery!vars)
  <2> SUFFICES ASSUME IInv, [Next]_vars
               PROVE  [Delivery!Next]_(Delivery!vars)
    OBVIOUS
  <2> DEFINE Unheard == {e \in Events : status[e] = "PROCESSED" /\ InHand(e)}
  <2>a. \A w \in Workers : current[w] # NoEvent =>
            /\ current[w] \in batch[w] /\ current[w] \in Events
            /\ \A v \in Workers : v # w => current[v] # current[w] /\ current[w] \notin batch[v]
    BY InHandInBatch
  <2>b. NoEvent \notin Events
    BY NoEventAssumption
  \* Nobody takes or lets go of an event, and none becomes or leaves PROCESSED.
  <2>c. ASSUME UNCHANGED current, \A e \in Events : status'[e] = "PROCESSED" <=> status[e] = "PROCESSED"
        PROVE  Unheard' = Unheard
    BY <2>c DEF InHand
  \* A worker lets go of what it had in hand.
  <2>d. ASSUME NEW w \in Workers, current' = [current EXCEPT ![w] = NoEvent], UNCHANGED status
        PROVE  Unheard' = Unheard \ {current[w]}
    <3>1. \A e \in Events : e \in Unheard' <=> e \in Unheard /\ e # current[w]
      BY <2>a, <2>b, <2>d DEF InHand, IInv, TypeOK
    <3> QED
      BY <3>1
  <2> USE DEF IInv, TypeOK, PhaseOf, eventVars, effectVars
  <2>1. ASSUME NEW e \in Events, emitEventTx(e)
        PROVE  Delivery!Publish(e)
    <3>1. Unheard' = Unheard
      BY <2>1, <2>c DEF emitEventTx, workerVars
    <3> QED
      BY <2>1, <3>1 DEF emitEventTx, Delivery!Publish, Delivery!Move
  <2>2. ASSUME NEW e \in Events, BackoffElapses(e)
        PROVE  UNCHANGED Delivery!vars
    <3>1. Unheard' = Unheard
      BY <2>2, <2>c DEF BackoffElapses, workerVars
    <3> QED
      BY <2>2, <3>1 DEF BackoffElapses, Delivery!vars
  <2>3. ASSUME NEW e \in Events, manualRetry(e)
        PROVE  Delivery!Requeue(e) \/ UNCHANGED Delivery!vars
    <3>1. Unheard' = Unheard
      BY <2>3, <2>c DEF manualRetry, Retryable, workerVars
    <3> QED
      BY <2>3, <3>1 DEF manualRetry, Retryable, Delivery!Requeue, Delivery!Move, Delivery!vars
  <2>4. ASSUME NEW w \in Workers, claimBatch(w)
        PROVE  \E S \in SUBSET Events : Delivery!Take(S)
    <3>1. PICK S \in SUBSET Eligible :
            /\ S # {}
            /\ status' = [e \in Events |-> IF e \in S THEN "PROCESSING" ELSE status[e]]
      BY <2>4 DEF claimBatch
    <3>2. S \in SUBSET Events /\ \A e \in S : PhaseOf(status[e]) = "waiting" /\ status[e] # "PROCESSED"
      BY <3>1 DEF Eligible, Claimable
    <3>3. Unheard' = Unheard
      BY <2>4, <2>c, <3>1, <3>2 DEF claimBatch
    <3>4. Delivery!Take(S)
      BY <2>4, <3>1, <3>2, <3>3 DEF claimBatch, Delivery!Take
    <3> QED
      BY <3>2, <3>4
  <2>5. ASSUME NEW w \in Workers, NEW e \in Events, Dispatch(w, e)
        PROVE  UNCHANGED Delivery!vars
    <3>1. current[w] = NoEvent /\ status[e] = "PROCESSING"
      BY <2>5 DEF Dispatch, WorkerInv
    <3>2. \A f \in Events : f # e => (InHand(f)' <=> InHand(f))
      BY <2>5, <2>b, <3>1 DEF Dispatch, InHand
    <3>3. \A f \in Events : f \in Unheard' <=> f \in Unheard
      BY <2>5, <3>1, <3>2 DEF Dispatch
    <3>4. Unheard' = Unheard
      BY <3>3
    <3> QED
      BY <2>5, <3>4 DEF Dispatch, Delivery!vars
  <2>6. ASSUME NEW w \in Workers, NEW e \in Events, SkipUnowned(w, e)
        PROVE  Delivery!Acknowledge(e)
    <3>0. current[w] = NoEvent /\ status[e] = "PROCESSING" /\ e \in batch[w]
      BY <2>6 DEF SkipUnowned, WorkerInv
    <3>1. /\ current[w] = NoEvent /\ status[e] = "PROCESSING" /\ e \in batch[w]
          /\ \A v \in Workers : current'[v] = current[v]
      BY <2>6, <3>0 DEF SkipUnowned, Advance
    <3>2. ~InHand(e)
      <4> SUFFICES ASSUME NEW v \in Workers, current[v] = e PROVE FALSE
        BY DEF InHand
      <4>1. v # w /\ current[v] # NoEvent
        BY <2>b, <3>0
      <4> QED
        BY <2>a, <3>0, <4>1
    <3>3. \A f \in Events : f \in Unheard' <=> f \in Unheard
      BY <2>6, <3>1, <3>2 DEF SkipUnowned, markProcessed, InHand
    <3>4. Unheard' = Unheard
      BY <3>3
    <3>5. Delivery!Move(e, "taken", "done")
      BY <2>6, <3>1 DEF SkipUnowned, markProcessed, Delivery!Move
    <3> QED
      BY <2>6, <3>4, <3>5 DEF SkipUnowned, HasHandler, Delivery!Acknowledge
  <2>7. ASSUME NEW w \in Workers, NEW e \in Events, e = current[w], Handle(w) \/ HandlerUnheard(w)
        PROVE  Delivery!Consume(e)
    <3>1. Unheard' = Unheard
      BY <2>7, <2>c DEF Handle, HandlerUnheard
    <3>2. status[e] = "PROCESSING"
      BY <2>7 DEF Handle, HandlerUnheard, WorkerInv
    <3> QED
      BY <2>7, <3>1, <3>2 DEF Handle, HandlerUnheard, Effect, IdempotencyKey, Delivery!Consume
  <2>8. ASSUME NEW w \in Workers, NEW e \in Events, e = current[w], MarkDone(w)
        PROVE  Delivery!Acknowledge(e)
    <3>1. status[e] = "PROCESSING" /\ e \in handled
      BY <2>8 DEF MarkDone, WorkerInv
    <3>2. ~InHand(e)'
      BY <2>8, <2>a, <2>b DEF MarkDone, Advance, InHand
    <3>3. \A f \in Events : f # e => (InHand(f)' <=> InHand(f))
      BY <2>8, <2>b DEF MarkDone, Advance, InHand
    <3>4. \A f \in Events : f \in Unheard' <=> f \in Unheard
      BY <2>8, <3>1, <3>2, <3>3 DEF MarkDone, markProcessed
    <3>5. Unheard' = Unheard
      BY <3>4
    <3>6. Delivery!Move(e, "taken", "done")
      BY <2>8, <3>1 DEF MarkDone, markProcessed, Delivery!Move
    <3> QED
      BY <3>1, <3>5, <3>6 DEF Delivery!Acknowledge
  <2>9. ASSUME NEW w \in Workers, NEW e \in Events, e = current[w], MarkThrows(w)
        PROVE  Delivery!Acknowledge(e) \/ UNCHANGED Delivery!vars
    <3>1. status[e] = "PROCESSING" /\ e \in handled
      BY <2>9 DEF MarkThrows, WorkerInv
    <3>2. CASE UNCHANGED status
      <4>1. Unheard' = Unheard
        BY <2>9, <2>c, <3>2 DEF MarkThrows
      <4> QED
        BY <2>9, <3>2, <4>1 DEF MarkThrows, Delivery!vars
    <3>3. CASE markProcessed(e)
      <4>1. InHand(e)' /\ current' = current
        BY <2>9 DEF MarkThrows, InHand
      <4>2. \A f \in Events : f \in Unheard' <=> f \in Unheard \cup {e}
        BY <3>3, <4>1 DEF markProcessed, InHand
      <4>3. Unheard' = Unheard \cup {e}
        BY <4>2
      <4>4. Delivery!Move(e, "taken", "done")
        BY <2>9, <3>1, <3>3 DEF MarkThrows, markProcessed, Delivery!Move
      <4> QED
        BY <3>1, <4>3, <4>4 DEF Delivery!Acknowledge
    <3> QED
      BY <2>9, <3>2, <3>3 DEF MarkThrows
  <2>10. ASSUME NEW w \in Workers, NEW e \in Events, e = current[w], MarkFailedWrite(w)
         PROVE  Delivery!GiveBack(e) \/ Delivery!Bury(e) \/ Delivery!Withdraw(e)
    <3>1. status[e] \in {"PROCESSING", "PROCESSED"} /\ InHand(e)
      BY <2>10 DEF MarkFailedWrite, WorkerInv, InHand
    <3>2. ~InHand(e)'
      BY <2>10, <2>a, <2>b DEF MarkFailedWrite, Advance, InHand
    <3>3. \A f \in Events : f # e => (InHand(f)' <=> InHand(f))
      BY <2>10, <2>b DEF MarkFailedWrite, Advance, InHand
    <3>4. PICK st \in {"FAILED", "DEAD_LETTERED"} : status' = [status EXCEPT ![e] = st]
      BY <2>10 DEF MarkFailedWrite, FailureStatus
    <3>5. \A f \in Events : f \in Unheard' <=> f \in Unheard \ {e}
      BY <3>2, <3>3, <3>4
    <3>6. Unheard' = Unheard \ {e} /\ (status[e] = "PROCESSING" => Unheard' = Unheard)
      BY <3>5
    <3>7. UNCHANGED <<rows, handled>>
      BY <2>10 DEF MarkFailedWrite
    <3>8. CASE status[e] = "PROCESSING"
      BY <3>4, <3>6, <3>7, <3>8 DEF Delivery!GiveBack, Delivery!Bury, Delivery!Move
    <3>9. CASE status[e] = "PROCESSED"
      <4>1. e \in Unheard
        BY <3>1, <3>9
      <4>2. Delivery!Move(e, "done", "waiting") \/ Delivery!Move(e, "done", "buried")
        BY <3>4, <3>7, <3>9 DEF Delivery!Move
      <4> QED
        BY <3>6, <4>1, <4>2 DEF Delivery!Withdraw
    <3> QED
      BY <3>1, <3>8, <3>9
  <2>11. ASSUME NEW w \in Workers, HandlerThrows(w) \/ MarkFailedRead(w)
         PROVE  UNCHANGED Delivery!vars
    <3>1. Unheard' = Unheard
      BY <2>11, <2>c DEF HandlerThrows, MarkFailedRead
    <3> QED
      BY <2>11, <3>1 DEF HandlerThrows, MarkFailedRead, Delivery!vars
  <2>12. ASSUME NEW w \in Workers, Abort(w) \/ Crash(w)
         PROVE  UNCHANGED Delivery!vars \/ \E e \in Events : Delivery!Settle(e)
    <3>1. Unheard' = Unheard \ {current[w]} /\ UNCHANGED <<status, rows, handled>>
      BY <2>12, <2>d DEF Abort, Crash, Abandon
    <3>2. CASE current[w] \in Unheard
      BY <3>1, <3>2 DEF Delivery!Settle
    <3>3. CASE current[w] \notin Unheard
      <4>1. Unheard' = Unheard
        BY <3>1, <3>3
      <4> QED
        BY <3>1, <4>1 DEF Delivery!vars
    <3> QED
      BY <3>2, <3>3
  <2>13. ASSUME UNCHANGED vars
         PROVE  UNCHANGED Delivery!vars
    <3>1. Unheard' = Unheard
      BY <2>13, <2>c DEF vars
    <3> QED
      BY <2>13, <3>1 DEF vars, Delivery!vars
  <2>14. \A w \in Workers : pc[w] \in {"handle", "mark", "failWrite"} => current[w] \in Events
    BY DEF WorkerInv
  <2>15. ASSUME NEW w \in Workers, Work(w) \/ HandlerUnheard(w) \/ MarkThrows(w)
         PROVE  [Delivery!Next]_(Delivery!vars)
    <3>1. CASE \E e \in Events : Dispatch(w, e) \/ SkipUnowned(w, e)
      BY <2>5, <2>6, <3>1 DEF Delivery!Next
    <3>2. CASE Handle(w) \/ HandlerUnheard(w) \/ MarkDone(w) \/ MarkThrows(w) \/ MarkFailedWrite(w)
      <4>1. PICK e \in Events : e = current[w]
        BY <2>14, <3>2 DEF Handle, HandlerUnheard, MarkDone, MarkThrows, MarkFailedWrite
      <4> QED
        BY <2>7, <2>8, <2>9, <2>10, <3>2, <4>1 DEF Delivery!Next
    <3>3. CASE HandlerThrows(w) \/ MarkFailedRead(w)
      BY <2>11, <3>3
    <3> QED
      BY <2>15, <3>1, <3>2, <3>3 DEF Work
  <2> QED
    BY <2>1, <2>2, <2>3, <2>4, <2>12, <2>13, <2>15 DEF Next, Delivery!Next
<1> QED
  BY <1>1, <1>2, Invariance, PTL DEF Spec, RefinesDelivery, Delivery!Spec


-----------------------------------------------------------------------------
(* What EventuallySettled rests on                                         *)

\* As long as nothing died, an event that was claimed is in the batch of a
\* worker that goes on: only a death leaves one PROCESSING for ever.
NothingStranded ==
  crashes = 0 => \A e \in Events :
    status[e] = "PROCESSING" => \E w \in Workers : e \in batch[w] /\ pc[w] # "idle"

\* A worker leaves an event PROCESSED or with one attempt more, also when it
\* writes over its own PROCESSED, and none but the operator takes attempts
\* back: there is an end to the rounds.
RoundsCount ==
  [][\A e \in Events :
       /\ status[e] \in {"PROCESSING", "PROCESSED"} /\ status'[e] # status[e] =>
            status'[e] = "PROCESSED" \/ attempts'[e] = attempts[e] + 1
       /\ attempts'[e] < attempts[e] => manualRetry(e)]_vars

StrandInv ==
  /\ NothingStranded
  /\ \A e \in Events : status[e] = "ABSENT" => attempts[e] = 0

LEMMA StepStrand == IInv /\ StrandInv /\ [Next]_vars => StrandInv'
<1> SUFFICES ASSUME IInv, StrandInv, [Next]_vars PROVE StrandInv'
  OBVIOUS
<1> USE DEF IInv, eventVars, effectVars, workerVars, boundVars
\* No event is claimed and no worker lets go of one.
<1>1. ASSUME crashes' = 0 => crashes = 0,
             \A e \in Events : /\ status'[e] = "PROCESSING" => status[e] = "PROCESSING"
                               /\ status'[e] = "ABSENT" => status[e] = "ABSENT" /\ attempts'[e] = attempts[e],
             \A w \in Workers : /\ batch'[w] = batch[w]
                                /\ pc[w] # "idle" => pc'[w] # "idle"
      PROVE  StrandInv'
  BY <1>1 DEF StrandInv, NothingStranded
\* A worker is done with an event, which is PROCESSING no more.
<1>2. ASSUME NEW w \in Workers, NEW e \in batch[w], Advance(w, e), crashes' = crashes,
             status'[e] \notin {"PROCESSING", "ABSENT"},
             \A f \in Events \ {e} : status'[f] = status[f] /\ attempts'[f] = attempts[f]
      PROVE  StrandInv'
  <2>1. ASSUME NEW f \in Events, crashes' = 0, status'[f] = "PROCESSING"
        PROVE  \E v \in Workers : f \in batch'[v] /\ pc'[v] # "idle"
    <3>1. f # e /\ status[f] = "PROCESSING" /\ crashes = 0
      BY <1>2, <2>1
    <3>2. PICK v \in Workers : f \in batch[v] /\ pc[v] # "idle"
      BY <3>1 DEF StrandInv, NothingStranded
    <3>3. f \in batch'[v] /\ pc'[v] # "idle"
      BY <1>2, <3>1, <3>2 DEF Advance, TypeOK
    <3> QED
      BY <3>3
  <2>2. \A f \in Events : status'[f] = "ABSENT" => attempts'[f] = 0
    BY <1>2 DEF StrandInv
  <2> QED
    BY <2>1, <2>2 DEF StrandInv, NothingStranded
<1>3. ASSUME NEW e \in Events, emitEventTx(e) \/ BackoffElapses(e) \/ manualRetry(e)
      PROVE  StrandInv'
  BY <1>1, <1>3 DEF emitEventTx, BackoffElapses, manualRetry, TypeOK
<1>4. ASSUME NEW w \in Workers, claimBatch(w)
      PROVE  StrandInv'
  <2>1. PICK S \in SUBSET Eligible :
          /\ status' = [e \in Events |-> IF e \in S THEN "PROCESSING" ELSE status[e]]
          /\ batch' = [batch EXCEPT ![w] = S] /\ pc' = [pc EXCEPT ![w] = "loop"]
          /\ UNCHANGED <<attempts, crashes>> /\ pc[w] = "idle"
    BY <1>4 DEF claimBatch
  <2>2. ASSUME NEW e \in Events, crashes = 0, status'[e] = "PROCESSING"
        PROVE  \E v \in Workers : e \in batch'[v] /\ pc'[v] # "idle"
    <3>1. CASE e \in S
      BY <2>1, <3>1 DEF TypeOK
    <3>2. CASE e \notin S
      <4>1. PICK v \in Workers : e \in batch[v] /\ pc[v] # "idle"
        BY <2>1, <2>2, <3>2 DEF StrandInv, NothingStranded
      <4>2. e \in batch'[v] /\ pc'[v] # "idle"
        BY <2>1, <4>1 DEF TypeOK
      <4> QED
        BY <4>2
    <3> QED
      BY <3>1, <3>2
  <2> QED
    BY <2>1, <2>2 DEF StrandInv, NothingStranded
<1>5. ASSUME NEW w \in Workers, NEW e \in Events, Dispatch(w, e)
      PROVE  StrandInv'
  BY <1>1, <1>5 DEF Dispatch, TypeOK
<1>6. ASSUME NEW w \in Workers, NEW e \in Events, SkipUnowned(w, e)
      PROVE  StrandInv'
  BY <1>2, <1>6 DEF SkipUnowned, markProcessed, TypeOK
<1>7. ASSUME NEW w \in Workers, Handle(w) \/ HandlerThrows(w) \/ HandlerUnheard(w) \/ MarkFailedRead(w)
      PROVE  StrandInv'
  BY <1>1, <1>7 DEF Handle, HandlerThrows, HandlerUnheard, MarkFailedRead, TypeOK
<1>12. ASSUME NEW w \in Workers, MarkThrows(w)
       PROVE  StrandInv'
  BY <1>1, <1>12 DEF MarkThrows, markProcessed, TypeOK
<1>8. ASSUME NEW w \in Workers, MarkDone(w)
      PROVE  StrandInv'
  <2>1. current[w] \in batch[w] /\ current[w] \in Events
    BY <1>8 DEF MarkDone, WorkerInv, TypeOK
  <2> QED
    BY <1>2, <1>8, <2>1 DEF MarkDone, markProcessed, TypeOK
<1>9. ASSUME NEW w \in Workers, MarkFailedWrite(w)
      PROVE  StrandInv'
  <2>1. current[w] \in batch[w] /\ current[w] \in Events
    BY <1>9 DEF MarkFailedWrite, WorkerInv, TypeOK
  <2> QED
    BY <1>2, <1>9, <2>1 DEF MarkFailedWrite, FailureStatus, TypeOK
<1>10. ASSUME NEW w \in Workers, Abort(w) \/ Crash(w)
       PROVE  StrandInv'
  <2>1. crashes' # 0 /\ UNCHANGED <<status, attempts>>
    BY <1>10 DEF Abort, Crash, TypeOK
  <2> QED
    BY <2>1 DEF StrandInv, NothingStranded
<1>11. ASSUME UNCHANGED vars
       PROVE  StrandInv'
  BY <1>1, <1>11 DEF vars
<1> QED
  BY <1>3, <1>4, <1>5, <1>6, <1>7, <1>8, <1>9, <1>10, <1>11, <1>12 DEF Next, Work

LEMMA StrandInvariance == Spec => [](IInv /\ StrandInv)
<1>1. Init => StrandInv
  BY DEF Init, StrandInv, NothingStranded
<1> QED
  BY <1>1, StepStrand, Invariance, PTL DEF Spec

\* Whatever overlaps and fails, only a death strands an event.
THEOREM OnlyDeathsStrand == Spec => []NothingStranded
<1>1. StrandInv => NothingStranded
  BY DEF StrandInv
<1> QED
  BY <1>1, StrandInvariance, PTL

\* Each round ends in PROCESSED or is counted, so that after five of them an
\* event is DEAD_LETTERED, unless the operator starts it anew.
THEOREM RoundsAreCounted == Spec => RoundsCount
<1>1. ASSUME IInv, StrandInv, [Next]_vars, NEW e \in Events
      PROVE  /\ status[e] \in {"PROCESSING", "PROCESSED"} /\ status'[e] # status[e] =>
                  status'[e] = "PROCESSED" \/ attempts'[e] = attempts[e] + 1
             /\ attempts'[e] < attempts[e] => manualRetry(e)
  <2> USE DEF IInv, eventVars, effectVars, workerVars, boundVars
  <2> DEFINE Goal == /\ status[e] \in {"PROCESSING", "PROCESSED"} /\ status'[e] # status[e] =>
                          status'[e] = "PROCESSED" \/ attempts'[e] = attempts[e] + 1
                     /\ attempts'[e] < attempts[e] => manualRetry(e)
  <2>0. attempts[e] \in Nat
    BY <1>1, DelaysLen DEF TypeOK
  <2>1. ASSUME NEW f \in Events, emitEventTx(f) \/ BackoffElapses(f) \/ manualRetry(f)
        PROVE  Goal
    BY <1>1, <2>0, <2>1
       DEF emitEventTx, BackoffElapses, manualRetry, Retryable, StrandInv, TypeOK
  <2>2. ASSUME NEW w \in Workers, NEW f \in Events, SkipUnowned(w, f) \/ Dispatch(w, f)
        PROVE  Goal
    BY <1>1, <2>0, <2>2 DEF SkipUnowned, Dispatch, markProcessed, TypeOK
  <2>3. ASSUME NEW w \in Workers, claimBatch(w)
        PROVE  Goal
    <3>1. PICK S \in SUBSET Eligible :
            status' = [f \in Events |-> IF f \in S THEN "PROCESSING" ELSE status[f]]
      BY <2>3 DEF claimBatch
    <3>2. status'[e] = status[e] \/ status[e] \in {"PENDING", "FAILED"}
      BY <3>1 DEF Eligible, Claimable
    <3> QED
      BY <2>0, <2>3, <3>2 DEF claimBatch
  <2>4. ASSUME NEW w \in Workers, MarkDone(w)
        PROVE  Goal
    BY <1>1, <2>0, <2>4 DEF MarkDone, markProcessed, TypeOK
  <2>5. ASSUME NEW w \in Workers, MarkFailedWrite(w)
        PROVE  Goal
    <3>1. current[w] \in Events /\ seen[w] = attempts[current[w]]
      BY <1>1, <2>5 DEF MarkFailedWrite, WorkerInv, TypeOK
    <3>2. /\ attempts' = [attempts EXCEPT ![current[w]] = seen[w] + 1]
          /\ \A f \in Events \ {current[w]} : status'[f] = status[f]
      BY <1>1, <2>5 DEF MarkFailedWrite, TypeOK
    <3> QED
      BY <1>1, <2>0, <3>1, <3>2 DEF TypeOK
  <2>6. ASSUME NEW w \in Workers, \/ Handle(w) \/ HandlerThrows(w) \/ HandlerUnheard(w)
                                  \/ MarkThrows(w) \/ MarkFailedRead(w) \/ Abort(w) \/ Crash(w)
        PROVE  Goal
    BY <1>1, <2>0, <2>6
       DEF Handle, HandlerThrows, HandlerUnheard, MarkThrows, markProcessed, MarkFailedRead, Abort, Crash, TypeOK
  <2>7. ASSUME UNCHANGED vars
        PROVE  Goal
    BY <2>0, <2>7 DEF vars
  <2> QED
    BY <1>1, <2>1, <2>2, <2>3, <2>4, <2>5, <2>6, <2>7 DEF Next, Work
<1>2. IInv /\ StrandInv /\ [Next]_vars =>
        [\A e \in Events :
           /\ status[e] \in {"PROCESSING", "PROCESSED"} /\ status'[e] # status[e] =>
                status'[e] = "PROCESSED" \/ attempts'[e] = attempts[e] + 1
           /\ attempts'[e] < attempts[e] => manualRetry(e)]_vars
  BY <1>1
<1> QED
  BY <1>2, StrandInvariance, PTL DEF Spec, RoundsCount
=============================================================================
