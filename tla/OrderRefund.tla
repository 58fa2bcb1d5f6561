---------------------------- MODULE OrderRefund ----------------------------
(***************************************************************************)
(* order-refund.service.ts: initiateRefund, approveRefund, processRefund,  *)
(* for the refunds of one order.  Calls run at once, each inside one READ  *)
(* COMMITTED transaction, and see the committed rows at each read:         *)
(*                                                                         *)
(*   initiate: look the key up -> order cap -> source cap -> insert        *)
(*   approve:  read the PENDING_APPROVAL row -> update it by id            *)
(*   process:  lock the APPROVED row FOR UPDATE -> order cap -> source cap *)
(*             -> issue the value, mark PROCESSED, commit                  *)
(*                                                                         *)
(* A refund row is named by its idempotency key.  granted, processed and   *)
(* issued count what the table, its events and the destination ledgers     *)
(* record of a row; the code keeps no such counters.                       *)
(***************************************************************************)
EXTENDS Naturals, FiniteSets, Totals

CONSTANTS Keys,       \* idempotency keys of refund requests
          Calls,      \* service calls in flight
          Payments,   \* payment legs of the order that may be refunded
          CreditApps, \* credit applications of the order
          Worth,      \* amount of each payment and credit application
          Requests,   \* payloads the clients may send
          NoSource, NoCall, NoRequest

Sources == Payments \cup CreditApps

\* method: STORED is WALLET or CREDIT_NOTE, TENDER is CASH or ORIGINAL_METHOD.
\* source is the lineage, NoSource for goodwill and manual exceptions.
Request == [key : Keys, source : Sources \cup {NoSource}, amount : Nat \ {0},
            method : {"STORED", "TENDER"}, approval : BOOLEAN]

ASSUME SourceAssumption == /\ IsFiniteSet(Sources) /\ Payments \cap CreditApps = {}
                           /\ NoSource \notin Sources
ASSUME WorthAssumption == Worth \in [Sources -> Nat]
ASSUME KeyAssumption == IsFiniteSet(Keys)
ASSUME RequestAssumption == Requests \subseteq Request /\ NoRequest \notin Request
ASSUME CallAssumption == NoCall \notin Calls

VARIABLES row,        \* the payload each key's row was created with
          status,     \* refund_status, "none" without a row
          granted,    \* times the row was set APPROVED
          processed,  \* times it was set PROCESSED
          issued,     \* times its value was put into a destination
          payment,    \* payment_status of the legs
          rowLock,    \* FOR UPDATE lock of a refund row
          pc, task, asked \* a call's place, kind and request

tableVars == <<row, status, granted, processed, issued>>
callVars  == <<pc, task, asked>>
vars == <<row, status, granted, processed, issued, payment, rowLock, pc, task, asked>>

Statuses == {"none", "PENDING_APPROVAL", "APPROVED", "PROCESSED"}

TypeOK ==
  /\ row       \in [Keys -> Requests \cup {NoRequest}]
  /\ status    \in [Keys -> Statuses]
  /\ granted   \in [Keys -> Nat]
  /\ processed \in [Keys -> Nat]
  /\ issued    \in [Keys -> Nat]
  /\ payment   \in [Payments -> {"COMPLETED", "REVERSED"}]
  /\ rowLock   \in [Keys -> Calls \cup {NoCall}]
  /\ pc        \in [Calls -> {"idle", "order", "source", "write"}]
  /\ task      \in [Calls -> {"none", "initiate", "approve", "process"}]
  /\ asked     \in [Calls -> Requests \cup {NoRequest}]

Init ==
  /\ row       = [k \in Keys |-> NoRequest]
  /\ status    = [k \in Keys |-> "none"]
  /\ granted   = [k \in Keys |-> 0]
  /\ processed = [k \in Keys |-> 0]
  /\ issued    = [k \in Keys |-> 0]
  /\ payment   = [p \in Payments |-> "COMPLETED"]
  /\ rowLock   = [k \in Keys |-> NoCall]
  /\ pc        = [c \in Calls |-> "idle"]
  /\ task      = [c \in Calls |-> "none"]
  /\ asked     = [c \in Calls |-> NoRequest]

-----------------------------------------------------------------------------
(* Balances and caps                                                       *)

ProcessedKeys == {k \in Keys : status[k] = "PROCESSED"}
ProcessedOf(s) == {k \in ProcessedKeys : row[k].source = s}
Amounts      == [k \in Keys |-> IF row[k] = NoRequest THEN 0 ELSE row[k].amount]
Refunded(ks) == SumOver(Amounts, ks)

\* total_paid_amount and total_credit_applied_amount of the header, kept up to
\* date here (what the header may miss is the payment service's question).
GrossApplied ==
  SumOver(Worth, {p \in Payments : payment[p] = "COMPLETED"} \cup CreditApps)

WithinOrder_Skipped(r) == TRUE  \* mutant: no check of the order's balance
WithinOrder(r) == r.amount + Refunded(ProcessedKeys) <= GrossApplied
WithinSource(r) ==
  r.source # NoSource =>
    r.amount + Refunded(ProcessedOf(r.source)) <= Worth[r.source]

-----------------------------------------------------------------------------
(* A call                                                                  *)

Key(c) == asked[c].key

Begin(c, t, r, place) ==
  /\ pc'    = [pc EXCEPT ![c] = place]
  /\ task'  = [task EXCEPT ![c] = t]
  /\ asked' = [asked EXCEPT ![c] = r]

GoOn(c, place) == pc' = [pc EXCEPT ![c] = place] /\ UNCHANGED <<task, asked>>

\* Commit or rollback: the call is over and its row lock goes.
Leave(c) ==
  /\ pc'    = [pc EXCEPT ![c] = "idle"]
  /\ task'  = [task EXCEPT ![c] = "none"]
  /\ asked' = [asked EXCEPT ![c] = NoRequest]
  /\ rowLock' = [k \in Keys |-> IF rowLock[k] = c THEN NoCall ELSE rowLock[k]]

\* A known key is answered with its row, or with a conflict: nothing changes,
\* and no action stands for it.
initiateRefund(c, r) ==
  /\ pc[c] = "idle"
  /\ row[r.key] = NoRequest
  /\ Begin(c, "initiate", r, "order")
  /\ UNCHANGED <<tableVars, payment, rowLock>>

\* findFirstOrThrow: the row is read, not locked.
approveRefund(c, k) ==
  /\ pc[c] = "idle"
  /\ status[k] = "PENDING_APPROVAL"
  /\ Begin(c, "approve", row[k], "write")
  /\ UNCHANGED <<tableVars, payment, rowLock>>

\* SELECT ... refund_status = APPROVED FOR UPDATE: waits for the holder and
\* tests the status again when it has the row.
RowFree_NoForUpdate(k) == TRUE  \* mutant: the SELECT takes no lock
RowFree(k) == rowLock[k] = NoCall

Awaiting_AnyStatus(k) == status[k] # "none"  \* mutant: lost status filter
Awaiting(k) == status[k] = "APPROVED"

processRefund(c, k) ==
  /\ pc[c] = "idle"
  /\ Awaiting(k) /\ RowFree(k)
  /\ rowLock' = [rowLock EXCEPT ![k] = c]
  /\ Begin(c, "process", row[k], "order")
  /\ UNCHANGED <<tableVars, payment>>

\* getRefundableBalanceSummaryTx, for initiate and process alike.
CheckOrder(c) ==
  /\ pc[c] = "order"
  /\ WithinOrder(asked[c])
  /\ GoOn(c, "source")
  /\ UNCHANGED <<tableVars, payment, rowLock>>

\* Only initiate looks at the status of the payment.
Refundable(c) ==
  task[c] = "initiate" /\ asked[c].source \in Payments => payment[asked[c].source] = "COMPLETED"

SourceCap_Skipped(c) == TRUE  \* mutant: no re-check of the source
SourceCap(c) == WithinSource(asked[c])

CheckSource(c) ==
  /\ pc[c] = "source"
  /\ Refundable(c) /\ SourceCap(c)
  /\ GoOn(c, "write")
  /\ UNCHANGED <<tableVars, payment, rowLock>>

\* A cap is exceeded, a statement fails, or the server dies: all undone.
Rollback(c) ==
  /\ pc[c] # "idle"
  /\ Leave(c)
  /\ UNCHANGED <<tableVars, payment>>

NewStatus_Pending(r) == IF r.approval THEN "PENDING" ELSE "APPROVED"  \* mutant: payment.ts's code
NewStatus(r) == IF r.approval THEN "PENDING_APPROVAL" ELSE "APPROVED"

\* The INSERT: uq_refund_idempotency lets one of two rows of a key through.
Insert(c) ==
  /\ pc[c] = "write" /\ task[c] = "initiate"
  /\ row[Key(c)] = NoRequest
  /\ row' = [row EXCEPT ![Key(c)] = asked[c]]
  /\ status' = [status EXCEPT ![Key(c)] = NewStatus(asked[c])]
  /\ granted' = [granted EXCEPT ![Key(c)] = IF asked[c].approval THEN 0 ELSE 1]
  /\ Leave(c)
  /\ UNCHANGED <<processed, issued, payment>>

\* The UPDATE by id repeats no status; it waits for the row lock.
Approve(c) ==
  /\ pc[c] = "write" /\ task[c] = "approve"
  /\ rowLock[Key(c)] = NoCall
  /\ status'  = [status EXCEPT ![Key(c)] = "APPROVED"]
  /\ granted' = [granted EXCEPT ![Key(c)] = @ + 1]
  /\ Leave(c)
  /\ UNCHANGED <<row, processed, issued, payment>>

\* Stored value is keyed and skipped when its ledger row exists.  A tender is
\* paid by a keyed voucher when execution is enabled: a posted one takes no
\* second line and the call fails.  Otherwise the refund is only recorded.
\* (Stored value goes to the order's customer.  The code's "&& customerId" is
\* always true: org_orders_mst.customer_id is NOT NULL since migration
\* 0001_core_schema.sql:411.)
Pays_NoKey(c, enabled) ==  \* mutant: stored value without its key
  \/ asked[c].method = "STORED"
  \/ enabled /\ asked[c].method = "TENDER" /\ issued[Key(c)] = 0
Pays(c, enabled) ==
  /\ issued[Key(c)] = 0
  /\ asked[c].method = "STORED" \/ enabled

Complete(c) ==
  /\ pc[c] = "write" /\ task[c] = "process"
  /\ \E enabled \in BOOLEAN :
       /\ enabled /\ asked[c].method = "TENDER" => issued[Key(c)] = 0
       /\ issued' = IF Pays(c, enabled) THEN [issued EXCEPT ![Key(c)] = @ + 1] ELSE issued
  /\ status'    = [status EXCEPT ![Key(c)] = "PROCESSED"]
  /\ processed' = [processed EXCEPT ![Key(c)] = @ + 1]
  /\ Leave(c)
  /\ UNCHANGED <<row, granted, payment>>

\* transitionPaymentTx reverses a leg; it does not look at refunds.
ReversePayment(p) ==
  /\ payment[p] = "COMPLETED"
  /\ payment' = [payment EXCEPT ![p] = "REVERSED"]
  /\ UNCHANGED <<tableVars, rowLock, callVars>>

Progress(c) == CheckOrder(c) \/ CheckSource(c) \/ Insert(c) \/ Approve(c) \/ Complete(c)

Next ==
  \/ \E c \in Calls : \/ \E r \in Requests : initiateRefund(c, r)
                      \/ \E k \in Keys : approveRefund(c, k) \/ processRefund(c, k)
                      \/ Progress(c)
                      \/ Rollback(c)
  \/ \E p \in Payments : ReversePayment(p)

Spec == Init /\ [][Next]_vars

-----------------------------------------------------------------------------
(* Properties                                                              *)

\* No refund is processed more often than it was approved, however many
\* calls process it at once, and whatever an approval overwrites meanwhile.
ProcessedWasGranted == \A k \in Keys : processed[k] <= granted[k]

\* The value of a refund leaves at most once, also when an approval that
\* comes late makes the refund be processed again; stored value leaves with
\* the first processing and never without one.
ValueIssuedOnce ==
  \A k \in Keys :
    /\ issued[k] <= 1
    /\ issued[k] > 0 => processed[k] > 0
    /\ processed[k] > 0 /\ row[k].method = "STORED" => issued[k] = 1

\* What was ever refunded, also where a late approval has put the row back to
\* APPROVED and out of the sums the caps are checked with.
PaidKeys  == {k \in Keys : processed[k] > 0}
PaidOf(s) == {k \in PaidKeys : row[k].source = s}

\* "Over-refund protection (existing caps) remains authoritative": what has
\* ever been refunded of a source stays within the source, although
\* initiating a refund reserves nothing.
SourceNeverOverdrawn ==
  \A s \in Sources : Refunded(PaidOf(s)) <= Worth[s]

\* Nor do the refunds of the order, goodwill included, exceed what its
\* payments and credit applications ever brought in.
OrderNeverOverdrawn ==
  Refunded(PaidKeys) <= SumOver(Worth, Sources)

\* What a lock of the source would give: of the calls that have passed a
\* source's cap and have not committed, there is one at most.
OneCheckPerSource ==
  \A c, d \in Calls :
    /\ task[c] = "process" /\ pc[c] = "write"
    /\ task[d] = "process" /\ pc[d] = "write"
    /\ asked[c].source = asked[d].source
    => c = d

\* What a lock of the order would give.
OneCheckPerOrder ==
  \A c, d \in Calls :
    /\ task[c] = "process" /\ pc[c] \in {"source", "write"}
    /\ task[d] = "process" /\ pc[d] \in {"source", "write"}
    => c = d

\* What a status in the WHERE of the approval's UPDATE would give: nobody
\* approves a refund that has moved on since the call read it.
ApprovalsAreFresh ==
  \A c \in Calls :
    task[c] = "approve" /\ pc[c] = "write" => status[Key(c)] = "PENDING_APPROVAL"

\* The caps that processRefund checks again do hold what they are for, for
\* any overlap of initiations, approvals, processings and reversals, except
\* two: two refunds of one source (of the order) between their check and
\* their commit at once, and an approval that comes late.  Without either,
\* no source, and not the order, is ever refunded beyond what it took.
SourceCapIfSerial ==
  []OneCheckPerSource /\ []ApprovalsAreFresh => []SourceNeverOverdrawn
OrderCapIfSerial ==
  []OneCheckPerOrder /\ []ApprovalsAreFresh => []OrderNeverOverdrawn

\* Every step is a step of the promise, or changes nothing of it.
PromiseOf(k) ==
  IF processed[k] > 0 THEN "paid"
  ELSE IF granted[k] > 0 THEN "granted"
  ELSE IF row[k] # NoRequest THEN "asked" ELSE "none"
Promise == INSTANCE RefundPromise WITH promise <- [k \in Keys |-> PromiseOf(k)]
RefinesPromise == Promise!Spec
=============================================================================
