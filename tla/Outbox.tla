------------------------------- MODULE Outbox -------------------------------
(***************************************************************************)
(* The financial outbox: org_domain_events_outbox, its worker              *)
(* (processOutboxBatch, called every minute by pg_cron) and the operator's *)
(* manual retry.                                                           *)
(*                                                                         *)
(* Several invocations of the worker may overlap, and each is a process    *)
(* here.  A worker claims a batch in one SQL statement, then goes through  *)
(* it one event at a time: it runs the handlers that own the event's type, *)
(* and writes the outcome back in later, separate statements.  It can die  *)
(* between any two of them.                                                *)
(*                                                                         *)
(* Time is abstracted to what the claim query tests: the back-off of an    *)
(* event has elapsed ("due"), has not ("later"), or there is none.         *)
(***************************************************************************)
EXTENDS Naturals, Sequences, FiniteSets

CONSTANTS Events,      \* rows the application may append to the outbox
          Workers,     \* invocations of POST /api/finance/process-outbox
          NoEvent,     \* "no event", for a worker between two events
          Kind,        \* event_type of each event, one per dispatch case
          BatchLimit,  \* claimBatch's limit (50 in the code)
          MaxFaults,   \* bound: database statements that throw
          MaxCrashes   \* bound: worker processes that die

ASSUME KindAssumption  == Kind \in [Events -> {"history", "loyalty", "other"}]
ASSUME NoEventAssumption == NoEvent \notin Events
ASSUME LimitAssumption == BatchLimit \in Nat \ {0}
ASSUME BoundAssumption == MaxFaults \in Nat /\ MaxCrashes \in Nat

VARIABLES status,    \* status column, "ABSENT" before the row is inserted
          attempts,  \* attempts column
          retry,     \* next_retry_at against the clock: due, later or none
          rows,      \* rows the handlers wrote: order history, loyalty ledger
          handled,   \* events all of whose handlers have once returned normally
          batch,     \* claimed events a worker has still to finish
          current,   \* the event a worker is dispatching
          pc,        \* where a worker is in processOutboxBatch
          seen,      \* attempts as markFailed read it
          faults, crashes

eventVars  == <<status, attempts, retry>>
effectVars == <<rows, handled>>
workerVars == <<batch, current, pc, seen>>
boundVars  == <<faults, crashes>>
vars == <<status, attempts, retry, rows, handled, batch, current, pc, seen, faults, crashes>>

Statuses == {"ABSENT", "PENDING", "PROCESSING", "PROCESSED", "FAILED", "DEAD_LETTERED"}
Steps    == {"idle", "loop", "handle", "mark", "fail", "failWrite"}

RETRY_DELAYS_MINUTES == <<1, 5, 15, 60, 240>>

\* The delays array is indexed from 0 in the code: its last index is Len - 1.
nextRetryAt_OneTooFar(n) ==  \* mutant: one delay more than the array has
  IF n <= Len(RETRY_DELAYS_MINUTES) THEN "later" ELSE "none"
nextRetryAt(n) == IF n < Len(RETRY_DELAYS_MINUTES) THEN "later" ELSE "none"

\* The event types the registry routes to a handler: "other" is any type it
\* does not, those a consumer lists as its own included.
OwnedKinds == {"history", "loyalty"}
HasHandler_NoLoyalty(e) == Kind[e] = "history"  \* mutant: handler not registered
HasHandler(e) == Kind[e] \in OwnedKinds

\* loyalty-earn-<event id>, and the (tenant, outbox_event_id) unique index.
IdempotencyKey_PerAttempt(e) == <<e, attempts[e]>>  \* mutant: key of the attempt
IdempotencyKey(e) == e

TypeOK ==
  /\ status   \in [Events -> Statuses]
  /\ attempts \in [Events -> 0..Len(RETRY_DELAYS_MINUTES)]
  /\ retry    \in [Events -> {"due", "later", "none"}]
  /\ rows     \subseteq [event : Events, key : Events]
  /\ handled  \subseteq Events
  /\ batch    \in [Workers -> SUBSET Events]
  /\ current  \in [Workers -> Events \cup {NoEvent}]
  /\ pc       \in [Workers -> Steps]
  /\ seen     \in [Workers -> 0..Len(RETRY_DELAYS_MINUTES)]
  /\ faults   \in 0..MaxFaults
  /\ crashes  \in 0..MaxCrashes

Init ==
  /\ status   = [e \in Events |-> "ABSENT"]
  /\ attempts = [e \in Events |-> 0]
  /\ retry    = [e \in Events |-> "none"]
  /\ rows     = {}
  /\ handled  = {}
  /\ batch    = [w \in Workers |-> {}]
  /\ current  = [w \in Workers |-> NoEvent]
  /\ pc       = [w \in Workers |-> "idle"]
  /\ seen     = [w \in Workers |-> 0]
  /\ faults   = 0
  /\ crashes  = 0

-----------------------------------------------------------------------------
(* The application and the clock                                           *)

\* emitEventTx: the row is part of the caller's transaction, so it appears
\* when that transaction commits and never if it rolls back.
emitEventTx(e) ==
  /\ status[e] = "ABSENT"
  /\ status'   = [status EXCEPT ![e] = "PENDING"]
  /\ attempts' = [attempts EXCEPT ![e] = 0]
  /\ retry'    = [retry EXCEPT ![e] = "due"]
  /\ UNCHANGED <<effectVars, workerVars, boundVars>>

BackoffElapses(e) ==
  /\ retry[e] = "later"
  /\ retry' = [retry EXCEPT ![e] = "due"]
  /\ UNCHANGED <<status, attempts, effectVars, workerVars, boundVars>>

Retryable(e) == status[e] \in {"FAILED", "DEAD_LETTERED"}

\* The operator's re-queue: one conditional UPDATE.
manualRetry(e) ==
  /\ Retryable(e)
  /\ status'   = [status EXCEPT ![e] = "PENDING"]
  /\ attempts' = [attempts EXCEPT ![e] = 0]
  /\ retry'    = [retry EXCEPT ![e] = "due"]
  /\ UNCHANGED <<effectVars, workerVars, boundVars>>

-----------------------------------------------------------------------------
(* The worker                                                              *)

Claimable_Reaper(e) ==  \* mutant: takes PROCESSING rows over with no lease
  status[e] \in {"PENDING", "FAILED", "PROCESSING"} /\ retry[e] = "due"
Claimable(e) == status[e] \in {"PENDING", "FAILED"} /\ retry[e] = "due"
Eligible     == {e \in Events : Claimable(e)}

\* claim_outbox_batch: SELECT ... FOR UPDATE SKIP LOCKED and the UPDATE to
\* PROCESSING are one transaction.  It takes as many eligible rows as the limit
\* allows, less those another transaction has locked.  attempts is untouched.
claimBatch(w) ==
  /\ pc[w] = "idle"
  /\ \E S \in SUBSET Eligible :
       /\ S # {}
       /\ Cardinality(S) <= BatchLimit
       /\ status' = [e \in Events |-> IF e \in S THEN "PROCESSING" ELSE status[e]]
       /\ batch'  = [batch EXCEPT ![w] = S]
  /\ pc' = [pc EXCEPT ![w] = "loop"]
  /\ UNCHANGED <<attempts, retry, effectVars, current, seen, boundVars>>

\* The worker is done with e and takes the next event, or returns.
Advance(w, e) ==
  /\ batch'   = [batch EXCEPT ![w] = @ \ {e}]
  /\ pc'      = [pc EXCEPT ![w] = IF batch[w] = {e} THEN "idle" ELSE "loop"]
  /\ current' = [current EXCEPT ![w] = NoEvent]
  /\ seen'    = [seen EXCEPT ![w] = 0]

\* Dies, or lets an exception out of the loop: the rest of the batch is lost.
Abandon(w) ==
  /\ batch'   = [batch EXCEPT ![w] = {}]
  /\ pc'      = [pc EXCEPT ![w] = "idle"]
  /\ current' = [current EXCEPT ![w] = NoEvent]
  /\ seen'    = [seen EXCEPT ![w] = 0]

markProcessed(e) == status' = [status EXCEPT ![e] = "PROCESSED"]

\* The top of the loop: find the handlers that own the event type.
Dispatch(w, e) ==
  /\ pc[w] = "loop" /\ e \in batch[w]
  /\ HasHandler(e)
  /\ current' = [current EXCEPT ![w] = e]
  /\ pc'      = [pc EXCEPT ![w] = "handle"]
  /\ UNCHANGED <<eventVars, effectVars, batch, seen, boundVars>>

\* No handler: marked processed on the spot.
SkipUnowned(w, e) ==
  /\ pc[w] = "loop" /\ e \in batch[w]
  /\ ~HasHandler(e)
  /\ markProcessed(e)
  /\ Advance(w, e)
  /\ UNCHANGED <<attempts, retry, effectVars, boundVars>>

\* What the handlers' transaction leaves.  A row with the event's key is there
\* already on a redelivery, and then nothing is written.  It may also have
\* nothing to write: no active loyalty program, zero points, no linked order.
Effect(e) ==
  /\ \/ /\ \A r \in rows : r.key # IdempotencyKey(e)
        /\ rows' = rows \cup {[event |-> e, key |-> IdempotencyKey(e)]}
     \/ UNCHANGED rows
  /\ handled' = handled \cup {e}

\* The handlers' transaction commits.
Handle(w) ==
  /\ pc[w] = "handle"
  /\ Effect(current[w])
  /\ pc' = [pc EXCEPT ![w] = "mark"]
  /\ UNCHANGED <<eventVars, batch, current, seen, boundVars>>

\* A handler throws: a bad payload, a database error.  Its writes roll back.
HandlerThrows(w) ==
  /\ pc[w] = "handle"
  /\ pc' = [pc EXCEPT ![w] = "fail"]
  /\ UNCHANGED <<eventVars, effectVars, batch, current, seen, boundVars>>

\* The handlers' transaction commits and the connection is gone before the
\* worker hears of it: it sees an exception.
HandlerUnheard(w) ==
  /\ pc[w] = "handle"
  /\ faults < MaxFaults
  /\ faults' = faults + 1
  /\ Effect(current[w])
  /\ pc' = [pc EXCEPT ![w] = "fail"]
  /\ UNCHANGED <<eventVars, batch, current, seen, crashes>>

MarkDone(w) ==
  /\ pc[w] = "mark"
  /\ markProcessed(current[w])
  /\ Advance(w, current[w])
  /\ UNCHANGED <<attempts, retry, effectVars, boundVars>>

\* markProcessed itself throws: its UPDATE failed, or it is committed and the
\* answer was lost.  It stands inside the try block, so an event whose handlers
\* have committed goes down the failure path, PROCESSED or not.
MarkThrows(w) ==
  /\ pc[w] = "mark"
  /\ faults < MaxFaults
  /\ faults' = faults + 1
  /\ UNCHANGED status \/ markProcessed(current[w])
  /\ pc' = [pc EXCEPT ![w] = "fail"]
  /\ UNCHANGED <<attempts, retry, effectVars, batch, current, seen, crashes>>

\* markFailed, first statement: read attempts.
MarkFailedRead(w) ==
  /\ pc[w] = "fail"
  /\ seen' = [seen EXCEPT ![w] = attempts[current[w]]]
  /\ pc'   = [pc EXCEPT ![w] = "failWrite"]
  /\ UNCHANGED <<eventVars, effectVars, batch, current, boundVars>>

FailureStatus_NeverDead(at) == "FAILED"  \* mutant: the state before B7
FailureStatus(at) == IF at = "none" THEN "DEAD_LETTERED" ELSE "FAILED"

\* markFailed, second statement: an UPDATE by id with what was read, whatever
\* the status has become.
MarkFailedWrite(w) ==
  LET e == current[w]
      n == seen[w] + 1
      at == nextRetryAt(n)
  IN  /\ pc[w] = "failWrite"
      /\ status'   = [status EXCEPT ![e] = FailureStatus(at)]
      /\ attempts' = [attempts EXCEPT ![e] = n]
      /\ retry'    = [retry EXCEPT ![e] = at]
      /\ Advance(w, e)
      /\ UNCHANGED <<effectVars, boundVars>>

\* markFailed, or markProcessed on the no-handler path, throws out of the loop.
Abort(w) ==
  /\ \/ pc[w] \in {"fail", "failWrite"}
     \/ pc[w] = "loop" /\ \E e \in batch[w] : ~HasHandler(e)
  /\ crashes < MaxCrashes
  /\ crashes' = crashes + 1
  /\ Abandon(w)
  /\ UNCHANGED <<eventVars, effectVars, faults>>

\* The serverless invocation is killed or times out.
Crash(w) ==
  /\ pc[w] # "idle"
  /\ crashes < MaxCrashes
  /\ crashes' = crashes + 1
  /\ Abandon(w)
  /\ UNCHANGED <<eventVars, effectVars, faults>>

-----------------------------------------------------------------------------

Work(w) ==
  \/ \E e \in Events : Dispatch(w, e) \/ SkipUnowned(w, e)
  \/ Handle(w) \/ HandlerThrows(w)
  \/ MarkDone(w)
  \/ MarkFailedRead(w) \/ MarkFailedWrite(w)

Next ==
  \/ \E e \in Events : emitEventTx(e) \/ BackoffElapses(e) \/ manualRetry(e)
  \/ \E w \in Workers : \/ claimBatch(w) \/ Work(w)
                       \/ HandlerUnheard(w) \/ MarkThrows(w) \/ Abort(w) \/ Crash(w)

Spec == Init /\ [][Next]_vars

\* A live worker goes on, cron calls again, and the clock advances.  Nothing
\* makes the application emit, the operator retry, or a fault happen.
Fairness ==
  /\ \A w \in Workers : WF_vars(Work(w)) /\ WF_vars(claimBatch(w))
  /\ \A e \in Events : WF_vars(BackoffElapses(e))

FairSpec == Spec /\ Fairness

-----------------------------------------------------------------------------
(* Properties                                                              *)

\* No event is in the hands of two workers: overlapping cron invocations of
\* processOutboxBatch never double-claim (claim_outbox_batch, SKIP LOCKED).
ExclusiveClaim ==
  \A v, w \in Workers : v # w => batch[v] \cap batch[w] = {}

\* However often an event is redelivered (a handler that commits and then a
\* markProcessed that throws, a manual retry), it leaves at most one history
\* or ledger row: a LOYALTY_EARN never credits the points twice.
EffectAtMostOnce ==
  \A r, s \in rows : r.event = s.event => r = s

\* A PROCESSED event of a type the registry owns has been through its
\* handlers: the worker never acknowledges an event before they committed.
ProcessedAfterHandlers ==
  \A e \in Events : status[e] = "PROCESSED" /\ Kind[e] \in OwnedKinds => e \in handled

\* A failed event is either going to be retried or is DEAD_LETTERED, never a
\* FAILED row that no claim will select again (the state B7 removed).
FailedIsScheduled ==
  \A e \in Events : /\ status[e] \in {"PENDING", "FAILED"} => retry[e] \in {"due", "later"}
                    /\ status[e] = "DEAD_LETTERED" => retry[e] = "none"

\* The worker has not done with e yet.
InHand(e) == \E w \in Workers : current[w] = e

\* PROCESSED is final once the worker that wrote it is done with the event,
\* although markProcessed and markFailed update by id without looking at the
\* status.  Until then it is not: a worker that lost the answer to its
\* markProcessed writes FAILED or DEAD_LETTERED over it.
ProcessedIsFinal ==
  [][\A e \in Events : status[e] = "PROCESSED" /\ ~InHand(e) => status'[e] = "PROCESSED"]_vars

\* Every event that is waiting to be delivered, the first time or again,
\* ends up PROCESSED or visible to the operator as DEAD_LETTERED, unless
\* the operator resets its attempts for ever.
OperatorRests == <>[][\A e \in Events : ~manualRetry(e)]_vars

EventuallySettled ==
  OperatorRests =>
    \A e \in Events :
      status[e] \in {"PENDING", "FAILED"} ~> status[e] \in {"PROCESSED", "DEAD_LETTERED"}

\* The same while no invocation dies and nothing throws out of the loop.
SettledIfWorkersLive == [](crashes = 0) => EventuallySettled

-----------------------------------------------------------------------------
(* Refinement: the outbox implements the delivery it promises              *)

PhaseOf(st) ==
  IF st = "ABSENT" THEN "absent"
  ELSE IF st \in {"PENDING", "FAILED"} THEN "waiting"
  ELSE IF st = "PROCESSING" THEN "taken"
  ELSE IF st = "PROCESSED" THEN "done" ELSE "buried"

Delivery == INSTANCE OutboxDelivery
  WITH Consumed  <- {e \in Events : Kind[e] \in OwnedKinds},
       phase     <- [e \in Events |-> PhaseOf(status[e])],
       effective <- {r.event : r \in rows},
       consumed  <- handled,
       unheard   <- {e \in Events : status[e] = "PROCESSED" /\ InHand(e)}

\* Every step of the worker, the clock and the operator is a step of the
\* delivery promise or changes nothing it speaks of.
RefinesDelivery == Delivery!Spec

=============================================================================
