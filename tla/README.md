# CleanMateX: a verification project for its order services

CleanMateX is a multi-tenant laundry management system: a Next.js application
(`web-admin`) with its server code under `web-admin/lib/services`, a PostgreSQL
database with its migrations under `supabase/migrations`, and client apps. Its
core logic, and the part where mistakes cost money or garments, is the order
backend: payments, refunds, stored value and the events they emit, the workflow
that an order goes through until it is handed over, and the editing of orders by
several people. Every service there is a set of request handlers that run concurrently in
serverless processes, share nothing but the database, and use READ COMMITTED
transactions, row locks, conditional updates and unique indexes to stay
correct. That is what this project models.

All paths below are relative to the repository; services without a directory
are in `web-admin/lib/services/`.

## 1. Inventory

### Components that are modelled

| Component | State | Operations | Where it is hard |
|---|---|---|---|
| Financial outbox (`outbox.service.ts`, `outbox-processor.service.ts`, migration 0296) | rows of `org_domain_events_outbox`: status, attempts, next_retry_at | emitEventTx, claimBatch, the worker's loop, markProcessed, markFailed, manualRetry | overlapping cron invocations; death of a worker after the claim; handler committed but acknowledgement failed; retry schedule |
| Payment leg transitions (`payment-transition.service.ts`) | legs of an order, their PAYMENT_* events, cash movements, the order header's snapshot, idempotency keys | transitionPaymentTx with VERIFY, CANCEL, FAIL_BOUNCE, VOID, REVERSE, CAPTURE, SETTLE | unlocked key lookup, leg and header locks in different orders, other legs read before they commit, a drawer session that closes meanwhile |
| Gateway webhook (`gateway-webhook.service.ts`) | rows of `sys_gw_webhook_events_tr` | one POST: deduplicate, find the leg, verify, resolve, transition, record | no surrounding transaction; repeated, reordered and contradictory events; back-office users on the same leg; death of the server; answer 200 whatever happened |
| Order refunds (`order-refund.service.ts`) | rows of `org_order_refunds_dtl`, value issued | initiateRefund, approveRefund, processRefund | caps re-read without a common lock; approval from a stale read; retries of a key; value issued in the same transaction |
| Stored value (`stored-value.service.ts`, `loyalty.service.ts`, `gift-card-service.ts`, `order-credit-application.service.ts`, `order-cancel-financials.service.ts`) | balances of wallets, advances, gift cards, credit notes and points, their ledgers, credit applications of orders | redeem*Tx, topUpWalletTx, issueAdvanceTx, issueCreditNoteTx, processEarnPoints, refundGiftCardTx, the legs of a checkout, applyOrderCreditApplication, reverseCreditApplicationTx | redemptions lock the balance and credits do not; several balances in one transaction; a cancellation that runs twice or beside a spend |
| Workflow engine and handover (`workflow/workflow-engine.service.ts`, `pickup/pickup-completion.service.ts`, `delivery/delivery-completion.service.ts`, `lib/utils/idempotency.ts`) | orders' status and state_version, history, release rows, stops, a route's counter, idempotency keys | executeAction (release, hold, resume, stop, confirm), completePickup, completeDelivery, the clean-up of keys | two key protocols over one table; keys given back after a failure whose transaction may have committed; key rows that vanish; a counter computed from sibling rows |
| Order editing (`order-lock.service.ts`, `order-service.ts` `updateOrder`, the edit page) | the lock row, the order's updated_at, its items and pieces | load, lock, refresh, expire, unlock, force unlock, save | check and write are different statements of different transactions; a lock that expires under its owner; two saves that delete and insert at once |

How they interact: `transitionPaymentTx` and `processRefund` append events to
the outbox inside their transactions; the outbox worker calls the loyalty and
order-history handlers; the webhook calls `transitionPaymentTx`; a refund reads
the status and amount of payment legs that `transitionPaymentTx` may be moving;
`transitionPaymentTx` reads drawer sessions that `closeSession` closes; a refund
to a wallet or a credit note, and the earn that the outbox delivers, call the
stored-value services; a cancellation gives back what checkouts applied;
the handovers call the workflow engine inside their transaction; every
idempotent operation shares `org_idempotency_keys`, which a nightly job prunes.

What makes each correct:

- *Outbox*: an event is in the hands of one worker; its handlers' effect happens
  at most once; it is acknowledged only after they committed; it ends, or an
  operator sees it; an event nobody works on stays delivered once it is.
- *Transitions*: status, event and movement change together and once; the
  header agrees with the legs; a cash movement is written once per sale and once
  per reversal; a retry is answered truthfully; calls never wait on each other for ever.
- *Webhook*: a leg moves only as verified events of that leg say; an event's row
  is truthful, and final once its request has answered; a confirmed payment does not stay pending.
- *Refunds*: nothing is paid without approval; value leaves once; the refunds
  of a payment, and of an order, never exceed it.
- *Stored value*: a balance is the sum of its ledger and never negative; what an
  order took is taken once and given back at most once; checkouts of one
  customer do not deadlock, unless on two balances of one type.
- *Engine and handover*: a reply, and a cached reply, stands for a committed
  move, the caller's own as long as its key is; an order follows the action
  graph, once per request; release rows and the
  route's counter say where the orders are; no key stays in flight for ever.
- *Editing*: a save replaces only what its author knew; the rows of two saves
  never mix.

### Components that are not modelled

`PROJECT.json` lists each with its files and the reason. In short:

- *single-row updates behind one check*: opening, counting and approving a drawer
  session, POS sessions, the run log of the finance jobs, assembly and pieces,
  whose steps end in an action of the modelled engine;
- *written by their callers' transactions*: vouchers and their wiring;
- *compositions*: checkout orchestration, whose credit legs are a batch of
  `StoredValue` and whose payment legs are the initial states of
  `PaymentTransition`; AR invoices, statements and customer receipts;
- *out of reach or without a protocol*: the decimal arithmetic of the order
  snapshot, tax and discounts; general ledger posting, whose failures every
  modelled caller swallows; CRUD services, reports, user interface,
  notifications, client apps;
- *dead*: the edge function `supabase/functions/outbox-worker`, which migration
  0410 (lines 29-31) unscheduled.

## 2. Modules

| Module | What it is |
|---|---|
| `Outbox` | the outbox table, its workers, the clock and the operator |
| `OutboxDelivery` | abstract: what the outbox promises about one event |
| `OutboxProofs` | theorems about `Outbox` |
| `PaymentLifecycle` | the status graph of a leg, as `lib/constants/order-financial.ts` tabulates it |
| `PaymentTransition` | concurrent calls of `transitionPaymentTx`, statement by statement |
| `PaymentLedger` | abstract: each flip is one atomic, recorded step of the graph |
| `PaymentProofs` | theorems about `PaymentTransition` |
| `GatewayWebhook` | concurrent webhook requests over `PaymentLedger` |
| `WebhookProofs` | theorems about `GatewayWebhook` |
| `Totals` | the sum of a function over a finite set of indices |
| `TotalTheorems` | its laws, for the proofs about amounts |
| `OrderRefund` | concurrent initiate, approve and process calls |
| `RefundPromise` | abstract: a refund is asked for, granted, paid, in this order and once |
| `RefundProofs` | theorems about `OrderRefund` |
| `StoredValue` | concurrent transactions on one customer's balances and credit applications |
| `CreditPromise` | abstract: the value of an application is owed, taken, perhaps returned |
| `StoredValueProofs` | theorems about `StoredValue` |
| `Fulfilment` | concurrent calls of the engine and of the two handovers, with their keys |
| `OrderLifecycle` | abstract: an order moves along the action graph, once per request |
| `FulfilmentProofs` | theorems about `Fulfilment` |
| `EditLock` | pages that load, lock, lose and save one order |
| `EditLockProofs` | theorems about `EditLock` |
| `MC...` | constants of each for TLC; every `.cfg` belongs to one of them |

`GatewayWebhook` composes with the payment service: its calls of
`transitionPaymentTx` are single `Ledger!Transition` steps, which is what
`PaymentTransition` is shown to implement (`RefinesLedger`, checked and proved).

### How state and actions correspond to the code

A *step* in every module is what one database statement (or one transaction,
where all its effects appear at its commit) makes visible. Inside an
interactive transaction the writes are invisible to others until the commit, so
a call carries them in per-call variables (`req`, `moved`, `newType`, `view` of
`PaymentTransition`; `asked` of `OrderRefund`) and its last action publishes
them all; what it *reads* it reads at its own step from what is committed then,
as READ COMMITTED does. `SELECT ... FOR UPDATE` and the row lock of an UPDATE
are lock variables held until the call leaves. `Rollback` may happen at any
step: a failing statement, a transaction timeout, a process that dies.

**Outbox.** `status`, `attempts` and `retry` are columns; `retry` abstracts
`next_retry_at` against the clock to due, later or none, which is all the claim
query tests. `rows` is what handlers wrote (order history, loyalty ledger), each
with its unique key. A worker is at a place `pc` of `processOutboxBatch` with
the `batch` it claimed. `claimBatch` takes any non-empty set of eligible rows up
to the limit: SKIP LOCKED may leave any of them out. `Handle` is the handlers'
transaction, `HandlerUnheard` one that committed and whose answer is lost;
`MarkDone` and `MarkThrows` the acknowledgement that stands inside the same try
block and may throw after it committed; `MarkFailedRead` and `MarkFailedWrite` the two statements of
`markFailed`; `Abort` an exception out of the loop; `Crash` the end of the
process. Event types are three kinds: routed to the history consumer, to the
loyalty handler, or to none.
The promise `OutboxDelivery` knows which acknowledged events are `unheard` by the
party that sent the acknowledgement: only those may be delivered again.

**PaymentTransition.** The places of a call are `lock` (after the unlocked key
lookup), `effects`, `reclass`, `snapshot`, `commit` and `store` (the leg is at
its target already). `log[l]` is, per leg, what committed flips left: from, to,
the request, and the drawer session of the movement. Amounts do not matter to
the properties and are left out; `header` records the bucket in which the stored
snapshot counts each leg. `cache` is the idempotency table. GL dispatch is left
out: its failures are swallowed.

**GatewayWebhook.** `row[e]` is `processing_status`; `seen` and `action` are the
request's local variables, so the staleness of the status it resolves from is
explicit. `visible` is the set of legs whose creation has committed: the gateway
may be faster. A statement that throws (`StatementThrows`, `Unhandled`) may have
committed; `Settled` says that nobody writes the row any more. Parsing, schema
check and the HMAC are inputs (`Authentic`).

**OrderRefund.** A refund row is named by its idempotency key. `granted`,
`processed` and `issued` count what rows, events and destination ledgers record;
the code has no such counters. Destinations are of two kinds, stored value
(always issued, keyed) and tender (paid through a voucher when execution is
enabled). A payment may be reversed at any time. `processRefund` issues stored
value `&& customerId`; every order has a customer
(`supabase/migrations/0001_core_schema.sql:411`, NOT NULL, and no later migration
relaxes it), so the guard never skips it. The sums that the caps are about
(`PaidOf`) count what was ever paid; those the code reads count the rows that are
PROCESSED now.

**StoredValue.** A transaction is a call with the set `todo` of legs to come; a
leg is an *entry*, the ledger row it would write, with its account and its signed
amount. A redemption looks its key up, then locks, tests and debits. A credit
reads the balance unlocked with its lookup (`seen`) and then increments it, or
creates the row, or, for points, writes the sum back; a gift card's refund reads
under the lock and stops at the original amount. `draft` and the row locks hold
what is written until `Commit` publishes it. A spend takes its legs in the order
of `STORED_VALUE_LOCK_RANK`; a cancellation takes the applications in any order
(its `findMany` has none), flips each with the conditional UPDATE, and credits.
`Rollback` at any step covers an insufficient balance, expired or void cards, a
violated unique key, a deadlock broken by PostgreSQL and a dead process.

**Fulfilment.** An engine call goes through `Find`, `Stake` and `Verify` (read,
upsert, read back), a handover through `Claim` (INSERT ON CONFLICT DO NOTHING)
and `Inspect`, and `Unclaim` after a failure. Either fetches a cached result in a
second SELECT, by key alone (`Reread`): `reply` is the request whose result a call
is answered with, and `lost` remembers the calls whose key went to another
payload between the two. Both then lock the order; a delivery
also the stop and the route, and counts the delivered stops in a statement of its
own. `Write` is the rest of the transaction and its COMMIT, whose
acknowledgement may be lost: the call then treats it as a failure. A key row
remembers which call wrote it (`by`) only to say that it is seven days old when
that call has ended. The graph is the end of the seeded one (migrations 0436 and
0447). Gates, screens, evidence and collection of money appear as `Abort`.

**EditLock.** `version` counts the saves, and rows are named by the save that
wrote them. `updateOrder` is the read of the order, the look at the lock with the
deletion of an expired one, the comparison, and then a transaction whose two
DELETE statements are two steps each: what the statement sees when it starts,
and what is left of it when the transactions it waited for have ended. `known` is
the only ghost: the versions a user loaded or that were committed while a save of
theirs was running. Every save is the page's, which sends `expectedUpdatedAt`:
`updateOrder` compares it only if it is there (`order-service.ts:2900`), and a caller
without it promises nothing. An order starts with its items and their pieces, or
with neither (a quick drop); orders whose items lack pieces, from before migration
0073 and until the repair of 0112, are outside `Init`.

## 3. Runs

Bounds are constants of the `.cfg` files; no state constraint is used.

| Run | Shows | Bounds |
|---|---|---|
| `outbox` | type invariant; no double claim; effect at most once; no acknowledgement before the handlers; refinement of `OutboxDelivery`, where only the worker whose acknowledgement was lost takes an event back from PROCESSED; settlement when no worker dies | 3 events (one per kind), 2 workers, batch limit 2, 1 statement fault, 1 death |
| `payment` | type invariant; log replays status; cash movements match statuses; requests carried out once; answers true; paid money leaves by REVERSE; refinement of `PaymentLedger`; calls return | 2 calls, 2 legs (pending cash, authorized card), 2 keys shared by different requests, 6 requests, 1 session |
| `payment_header` | *refutes* that the header counts each leg as it stands once no call is in flight | 2 calls, 2 legs |
| `webhook` | type invariant; a TRANSITIONED row is true; legs move only by verified events and in their direction; with no fault and no death nothing is forgotten; final rows stay, but for a TRANSITIONED whose answer was lost | 2 legs, 3 events (contradictory pair, one forged), 2 requests, 1 fault, 1 death |
| `refund` | type invariant; processed only if granted; value issued once; refinement of `RefundPromise`; what was ever refunded stays within its source, and within the order, unless two refunds are between cap and commit at once or an approval comes late | 2 calls, 2 keys with 2 payloads each, 1 payment, 1 credit application; refunds that fit one by one and not together |
| `refund_cap` | *refutes* that the source is never overdrawn when calls overlap | 2 calls, 2 refunds of one payment |
| `value` | type invariant with no negative balance; money balances equal their ledgers; applications match what was posted; two checkouts that wait for each other want two balances of one type; refinement of `CreditPromise` | 2 calls, 7 balances (wallet, advance, card, 2 notes, the 2 notes a cancellation issues for them), 4 checkouts of two legs (2 name wallet and card in opposite order, 2 name the notes in opposite order), 2 issues of an advance that does not exist yet, cancellation of all four orders |
| `value_locks` | *refutes* that checkouts never wait for each other | the same |
| `value_points` | *refutes* that points equal their ledger | points only: 2 calls, an order paid from points, an earn |
| `fulfilment` | type invariant; replies and cached results true; release rows and route counter right; refinement of `OrderLifecycle`; no key stays in flight | 3 calls, 8 requests (one asks the engine itself to confirm a pickup), 3 orders (one at the counter, two out on one route), three keys used with two payloads each |
| `edit` | type invariant; a save replaces only what its author had a part in; two saves never mix | 2 pages, 3 saves |
| `edit_saves` | *refutes* that no save is made without knowledge of the one before | 2 pages, 2 saves |

Why small is enough: every guard of the code speaks of one row, or of one row
and the sum over its siblings, so two calls, two siblings and one competitor
already realise every interleaving of two conflicting statements. `fulfilment`
has a third call, because a key that vanishes between two others needs one.
Two saves are what an overlap needs, and the third shows that the properties of
the pair survive another one before or after; three saves that overlap do mix
(section 6). Two workers
over three events with a limit of two have overlapping, full and partial
batches. Each key is shared by requests of different payloads so that replay and
conflict both occur. Counters need no cap: logs are bounded by the acyclic
status graph, refund counts by the grants, versions by the requests. The amounts of
`value` are chosen so that the wallet and each note suffice for one of two spends. One fault and one death suffice for the
safety properties they threaten, and the proofs of section 5 remove the bounds.

`CHECK_DEADLOCK FALSE` everywhere: the systems stop when the clients do, for
instance when all events are processed, all legs final or all refunds paid.

## 4. Fairness

- *Outbox*: weak fairness of each worker's next step and of claiming (pg_cron
  calls the endpoint every minute, migration 0410) and of the passing of
  time for each back-off. None for the application, for the operator, for faults
  or deaths. `SettledIfWorkersLive` also assumes that the operator stops
  resetting attempts: `manualRetry` has no limit.
- *Transitions*: strong fairness of each call's progress: a call that is not
  waiting runs on, and PostgreSQL queues the waiters of a row, so one that is
  served again and again is not passed over for ever.
- *Engine and handover*: weak fairness of a step of some call that has come in,
  and of the clean-up job of each key, which pg_cron runs daily (migration
  0429). A call that died does not run on, and no client has to retry.

The other modules need none: their promises are stated as invariants
(`NothingIsForgotten` instead of an eventuality: a row is not left open by any
path through the handler).

## 5. Proofs

The proofs hold for any number of events, workers, legs, callers, keys,
sessions, payments, balances, orders, users and requests. They assume only the named assumptions of the
modules: constants have their types, sentinels are not members of the sets
they are absent from, and, in `StoredValue`, redemptions are negative, a
reversal undoes one application by its amount, and a card is credited only by
the reversal of what was taken from it (`refundGiftCardTx` has one caller; the
correction by hand, `adminAdjustGiftCard`, is left out).

Some theorems have a hypothesis about the run, `Spec /\ []H => []P`. Each
complements a counterexample of section 6: `P` is what a comment of the code
promises, a run shows that the code does not keep it, and `H` is what one more
lock or a later look would enforce, so the theorem says that nothing else is
missing. With one call at a time `H` always holds.

**`TotalTheorems`.** What the proofs of balances and caps need of sums: the empty set,
one more element, union, pointwise sum, monotonicity, and the sum of a function
changed on a subset. The library's induction over finite sets cannot be used
(its theorems take an operator); each fact is instead proved by a least
counterexample (`LeastSet`): among the finite sets that violate it there is
one without a smaller one, and taking an element out of it gives a smaller one.

**`OutboxProofs`.** The properties are not inductive alone. `IInv` adds
`WorkerInv` (an event of a batch is PROCESSING, or PROCESSED if its `markProcessed`
committed unheard; the event being dispatched is in
the batch; from the acknowledgement on its handlers have committed; the attempts
`markFailed` read are still the row's), `RowInv` (a row's key is its event) and
`AttemptInv` (an event that is not dead has a delay left). Together with
`ExclusiveClaim` they say why two unconditional UPDATEs by id do not disturb another
worker: only the one that has an event in its batch writes it. They do not make
PROCESSED final: `ProcessedStays` says that only a worker that has just
acknowledged the event, and heard an error, takes it back, and `Refinement` that
this is a redelivery the promise allows. Theorems: `TypeCorrect`,
`NoDoubleClaim`, `AtMostOneEffect`, `NoLostDelivery`, `ProcessedStays`,
`Refinement`. Two more are the safety half of `SettledIfWorkersLive`:
`OnlyDeathsStrand` (while nothing died, a PROCESSING event is in the batch of a
worker that goes on) and `RoundsAreCounted` (a round ends in PROCESSED or costs
one of five attempts, which none but the operator gives back, also where PROCESSED
was overwritten). What is left to
fairness is that each worker and each back-off takes its next step.

**`PaymentProofs`.** `CallInv` says that from its SELECT on a call holds the leg,
that the status it read is still the leg's, and that the movement it carries is
one the ledger allows. `FlipInv` says a leg's rank in the status graph never
falls below that of any flip of it; `Graph` shows every edge leads to a higher
rank. Both are needed for `OneFlipPerRequest`: the idempotency cache does not
protect a request whose key expired or that overlaps its own retry, the
combination of the lock and the acyclic graph does. All actions but `Commit`
leave legs alone (`OnlyCommitFlips`); `CommitFlip` and `CommitLog` say what a
commit does. `MoneyInv` is a second invariant on top: a call that carries a
drawer movement holds a leg for which that movement is still due, and neither an
answer nor a cached result tells of a flip that did not happen. Theorems:
`TypeCorrect`, `EventsReplay`, `CarriedOutOnce`, `PaidStays`, `Refinement`,
`SalesArrived`, `ReversalsPaidOut`, `AnswersAreReal`.

`NoCircle` is deadlock freedom: of the calls in flight one does not wait
(`Waits`, which TLC finds to be exactly where no `Progress` action is enabled).
`LockInv` says who can hold the header: a call that has its leg already and waits
for nothing more; so a wait for a leg leads to a wait for the header at most.
`HeaderNeedsALock` complements `payment_header`: the stored snapshot counts
every leg as it stands, at all times, if no two calls are between reading theirs
and the commit (`OneSnapshot`), which a lock of the order's row taken
before the reads would enforce.

**`WebhookProofs`.** `Served` says what a request knows at each place: whose row it
writes, that the signature was verified before MATCHED, and that its action is the
one for the status it read, however old that is. `OwnInv` says the dedup insert
gives an event to one request, so nobody else writes its row. `LogInv` says a leg
stands where its last flip took it, which is what a call that finds the target
reached (`flipped: false`) relies on. `FinalStays` covers a row from the moment its
request has no statement on it left; before that the catch may write ERROR over a
TRANSITIONED it did not hear of. `NothingForgotten` adds `QuietInv`: a status
read past the waiting ones stays past them, since no edge leads back. Theorems:
`TypeCorrect`, `RowsTellTruth`, `OnlyVerifiedFlips`, `FinalStays`, `NothingForgotten`.

**`RefundProofs`.** `CountInv` says an APPROVED row has a grant not yet used;
`CallInv` that a call that processes a refund holds its row, which stays
APPROVED although approvals overwrite rows by id (their UPDATE waits for that
lock). Theorems: `TypeCorrect`, `ApprovalGate`, `IssuedOnce`, `Refinement`.

The caps of the code are sums over the rows that are PROCESSED now; what must not
exceed a source is the sum over the refunds ever processed (`PaidOf`), which a late
approval leaves behind. `SourceInv` and `OrderInv` say that
what the rows count, and the refund of each call that has passed the cap, fit into
what the source took and what the order received; the re-check at process time is
what makes them inductive. This needs that no two
calls are between the check and the commit for one source (`OneCheckPerSource`),
or for the order (`OneCheckPerOrder`): what a lock of the payment's row, or of the
order's, would enforce, and the lock of the refund's own row does not
(`refund_cap`). `PaidInv` says that the two sums agree, which needs that no approval
puts a processed refund back (`ApprovalsAreFresh`): what the condition that
`processRefund` has, and the UPDATE of `approveRefund` lacks, would enforce. From
these follow `SourceCapHolds` and `OrderCapHolds`. `OneAtATime` says that with one
call at a time both hypotheses hold, for any amounts, keys and sources.

**`StoredValueProofs`.** `LegInv` says what kinds of legs a transaction has, and
`FlipInv` that a cancellation holds the row of every application it flipped,
which therefore stays APPLIED, and that it credits the undoing entry of these
applications and no other. With them the row of an application determines what was
posted for it. The wallet's top-up has no key; the conditional UPDATE and the row
lock are all that keeps it from being repeated. Theorems: `TypeCorrect` (no
negative balance), `RowsTell`, `Refinement`.

`BalancesBalance` is about sums of ledger rows. `HoldInv` says that a transaction
holds the balance of each row it wrote and will publish the committed balance
plus these rows; `ThereInv` that a balance a credit found does not go away before
its increment. An increment thus needs no lock of what it read, and the lock
held until the commit does the rest. For gift cards the cap at the original amount
must never cut: `CardRoom` shows that a refund finds room, because every application
of a card was posted once and given back at most once (`RowsTell`); so the
warning that a restored amount was capped (`order-cancel-financials.service.ts:132`)
can only come after a correction by hand. `PointsNeedALock` complements
`value_points`: points equal their rows too if nobody else has written them
between the read of an earn and its write (`EarnsReadAlone`), which a
`SELECT ... FOR UPDATE` in `processEarnPoints` would enforce. The proof
is the same for both: its invariants speak of a set of balances, all those of
money or all there are.

The lock order is `QueueInv`: a checkout works through one request in the order of
the ranks, by position within a rank, and holds no balance of which it has not
written a row. `RanksClimb` says, for any requests, that along a chain of waiting
checkouts the ranks never fall, so a circle of any length runs through balances of
one type, and `NoMixedCircles` is the case of two that the run checks. Nothing more
holds: where requests name two balances of one type there are circles (`value_locks`).

**`FulfilmentProofs`.** `CoreInv` adds to the types what a call's place says of its
request and its locks, and that an order remembers where it was held exactly as
long as it is. `SeenInv` says that what a delivery counted stays true until its
commit: the route's lock is what makes the count exact. `HistoryInv` says that
every move was made at the version its request expected, hence at most once.
`RereadInv` says that between the two SELECTs of a call its key's row is its own,
or the call is in `lost`. `Truth` needs no lock at all: a reply is true of the request whose
result it carries, and that is the caller's unless the key went to another one
between the two SELECTs. `ReleasesTell` has no hypothesis: its property excepts the
orders that a CONFIRM_PICKUP sent to the bare engine has collected (section
6). Theorems: `TypeCorrect`, `Truth`, `RouteExact`, `ReleasesTell`, `Refinement`.
`NoCircle` is deadlock freedom again: the route is locked after an order by
everybody (`HolderInv`), so of the calls in flight one does not wait.

**`EditLockProofs`.** `KnownInv` says what a page knows at each place: what it
expects, it knows, and a save knows whatever was committed since it read the
order. The lock does not occur in it: the optimistic comparison alone confines
lost saves to those that overlap. `MixInv` follows the two DELETE
statements of overlapping saves while at most one of them has committed, and
needs the foreign key that keeps items whose pieces are still there. Theorems:
`TypeCorrect`, `NoBlindOverwrite`, `OverlapKeepsOne`. `SerialSaves` complements
`edit_saves`: if no two saves are between the read of the order and the
commit (`SavesDontOverlap`), none is lost and the order consists of the rows of
the last one, for any number of saves, a quick drop included. The edit lock is
there to enforce that hypothesis; the finding shows that it does not.

Of the properties of the passing runs, each invariant, action property and
refinement has a theorem, in the form the run checks: what it is conditional on
stands in the property itself (the two caps, `NothingIsForgotten`,
`ReleasesMatch`). Only model-checked are the liveness properties
`SettledIfWorkersLive`, `CallsReturn` and `ClaimsEnd`, which the prover does not reach; `OnlyDeathsStrand`,
`RoundsAreCounted` and the two `NoCircle` prove what they rest on beside fairness.
Of the refuted properties, `SourceNeverOverdrawn`, `PointsAreLedgerSum`,
`NoLostSave` and the header's are proved under the hypothesis that the code does
not enforce; `SpendsDontDeadlock` is not.

## 6. Divergences between code and documentation

Five are kept as runs that end in a counterexample (`findings` in
`PROJECT.json` has the quoted lines):

1. `payment_header`: two legs of one order moved at once leave a header that
   misses one of them (`payment-transition.service.ts:413`).
2. `refund_cap`: refunds of one payment lock different rows, so their caps do not
   serialise (`order-refund.service.ts:799`).
3. `value_locks`: two checkouts that name two credit notes in opposite order wait
   for each other. Within a type the sort falls back on the position in the request
   (`order-settlement-planner.service.ts:179`), against the guarantee of
   `lib/constants/order-financial.ts:80-87`. PostgreSQL aborts one of them.
4. `value_points`: an earn writes back points it read without a lock, and loses
   what a redemption or another earn committed meanwhile (`loyalty.service.ts:272`).
5. `edit_saves`: two overlapping saves both pass the checks made before the
   transaction, and the second undoes the first (`order-service.ts:2903`).

Others were met while modelling. They are recorded but not kept as runs; where
the models reach them, TLC refutes the corresponding formula in seconds.

Events, payments, webhook and refunds:

- *Death of the outbox worker.* Rows claimed by a process that dies stay
  PROCESSING, which nothing claims again (`outbox.service.ts:81`), against
  "at-least-once" of `loyalty.service.ts:231`. `SettledIfWorkersLive` says what remains.
- *Death of the webhook's server.* After the dedup insert, redeliveries are
  answered as duplicates and the event is never applied
  (`gateway-webhook.service.ts:108`). `NothingIsForgotten` therefore assumes no death.
- *Late approval.* `approveRefund` updates by id alone what it read earlier
  (`order-refund.service.ts:678` against `:654`), so a PROCESSED refund becomes
  APPROVED again. Its value still leaves once (`ValueIssuedOnce`), but its amount
  drops out of the sums that the caps read, and other refunds may pass the cap:
  `SourceCapIfSerial` and `OrderCapIfSerial` need `ApprovalsAreFresh`.
- *Lost answer of `markProcessed`.* The UPDATE may commit and throw; the catch calls
  `markFailed`, which writes by id whatever the status (`outbox-processor.service.ts:90-99`,
  `outbox.service.ts:104-121`). A PROCESSED event is FAILED, even DEAD_LETTERED, and
  delivered again; the handlers are idempotent, so its effect does not repeat.
- *Drawer.* Reversing a cash payment in the session that took it lowers the
  expected cash twice (`payment-transition.service.ts:687` against
  `cash-drawer.service.ts:1531`).

- *Retry budget.* `markFailed` indexes the delays with the count after the
  failure, so the fifth failure is dead-lettered and the one-minute delay is
  never used (`outbox.service.ts:107`); `__tests__/services/outbox.service.test.ts:171`
  speaks of the sixth. Formula: a DEAD_LETTERED event has `attempts[e] >= 6`.
- *History events.* The registry routes four event types to the history consumer
  (`outbox-processor.service.ts:27`), the consumer's table lists ten
  (`order-history-consumer.service.ts:16-25`): cancelled, failed, voided,
  reversed, captured and settled payments are acknowledged without a history row.
- *Idempotency cache.* Two calls with one key both find nothing, and the later
  upsert replaces the stored result (`payment-transition.service.ts:265` against
  `:135`). Formula: `[][\A k \in Keys : cache[k] # NoResult => cache'[k] \in {cache[k], NoResult}]_vars`.
- *Closed session.* A session can close between its OPEN test and the commit, and
  then holds a movement it was not counted with (`:669` against `:675`).
- *ERROR rows.* The UPDATE to TRANSITIONED stands in the transition's try block:
  if it throws after the transition committed, the row says ERROR and the leg has
  moved, and if it committed and only its answer was lost, ERROR replaces a
  TRANSITIONED that was final (`gateway-webhook.service.ts:236` against migration 0426, line 123).
- *Acknowledged and not logged.* The route answers 200 when the INSERT of the
  event row itself throws (`web-admin/app/api/v1/payments/gateway/[gatewayCode]/webhook/route.ts:64` against `:62`).
- *Refund of a reversed payment.* Only `initiateRefund` looks at the payment's
  status; one reversed before `processRefund` is refunded as well
  (`order-refund.service.ts:802` against `:509`).

Stored value:

- *Lock order of a cancellation.* It credits in the order of a `findMany` without
  one, and can deadlock with a checkout as well, of whatever types.
- *Application beside a cancellation.* One committed after the cancellation has
  listed the APPLIED rows is never given back (`order-cancel-financials.service.ts:221`),
  and `applyOrderCreditApplication` tests an outstanding amount it read unlocked.
- *Points.* Applied points are marked REVERSED and not restored: a warning tells so.
- *Wallet ledger.* `balance_before` is read before the increment
  (`stored-value.service.ts:98-103`), so two top-ups may record the same one.
- *Credit notes* are numbered by counting rows (`:408`); of two issued at once the
  unique index rolls one back.
- *Gift cards.* `gift-card-service.ts:10` says all writes lock the card; void and
  expiry do not (`:1165`, `:1287`): the amount of their ledger row may be stale. A
  card voided between its sale and the confirmation of its funding becomes ACTIVE
  again (`:443`), still with is_active false. The expiry written inside a refused
  redemption is rolled back with it (`:831`).

Engine and handover:

- *CONFIRM_PICKUP through the actions or transition route* moves the order and
  leaves its release open, which `pickup-completion.service.ts:320-322` is there to
  prevent, against migration 0447 (lines 103-105): `ReleasesMatch` excepts such orders
  (`Bypassed`).
- *Cached result by key alone.* The hash is compared in one SELECT and the result
  read in another (`workflow-engine.service.ts:789-793`, `803-814`;
  `pickup-completion.service.ts:118-132`). If the clean-up deletes the key in between and
  another request takes it, that one's result is the answer, which
  `lib/utils/idempotency.ts` promises never to give. `RepliesAreTrue` excepts these calls
  (`lost`) for whose result it is, and not for its truth.
- *Lost acknowledgement.* A handover whose COMMIT succeeded unseen deletes its key;
  the retry then fails on the status instead of being answered from the key. A
  handover that counted a vanished row as claimed may delete another call's key.
  `RepliesAreTrue` and `RefinesLifecycle` hold all the same.
- *Death after the claim.* The key stays IN_FLIGHT until the clean-up, seven days.
- *Release rows.* The comment that a failing insert does "not fail the transition" is
  not true of PostgreSQL, where the failed statement aborts the transaction.
  Delivery releases are never fulfilled.
- *Same key, same transition.* The transition route reads expectedStateVersion
  anew, so a retry after success has another payload and is a conflict.

Editing:

- *Three overlapping saves* mix their rows: the third one commits while the second
  waits in its DELETE. `TwoSavesDontMix` with 3 for 2 is refuted in 31 steps. A
  quick drop, which has no items yet, mixes with two.
- *Failure after the commit.* When the audit entry cannot be written, the save
  answers an error although the order has changed.
- *Load before lock.* The page loads the order before it asks for the lock, so a
  lock does not mean that what is on the screen is current; the comparison catches it.
- *Lock refusal.* The lock route looks for the text "locked by" in an error that
  does not contain it, so a refused lock is answered 500 instead of 423.

## 7. Not modelled, and what could follow

The modelled services are those where concurrent requests meet on shared rows. Of
them, left out are: the governed amendment and the totals it recomputes; partial
releases and the public confirmation of a delivery; the stages of the workflow
before `ready`, which are tenant data run by the same engine; currencies; the
sale, adjustment, void and expiry of gift cards; the jobs that expire rows by date.

What would add most next: a drawer session with its counts, as the refinement of
`closeSession` of `PaymentTransition`; a gift card with its statuses; the
composition of refund, voucher and drawer. Modules that are proved about use
recursive functions or folds, never RECURSIVE operators.
