------------------------- MODULE PaymentTransition -------------------------
(***************************************************************************)
(* transitionPaymentTx: the one service that moves the status of a payment *)
(* leg.  Several calls run at once, for legs of one order, each inside one *)
(* READ COMMITTED database transaction:                                    *)
(*                                                                         *)
(*   look the idempotency key up (no lock) -> lock the leg FOR UPDATE and  *)
(*   check the graph -> side effects (drawer movement, reclassification)   *)
(*   -> read all legs for the header snapshot -> write the header, the     *)
(*   event and the key's cached result, commit.                            *)
(*                                                                         *)
(* What a call writes is visible to the others only when it commits, so    *)
(* the writes of a call are carried in req, moved and view until then.     *)
(* A call sees the committed state of other calls at each of its reads.    *)
(*                                                                         *)
(* log[l] is what the flips of leg l left in the tables they share one     *)
(* transaction with: the PAYMENT_* event and the drawer movement.          *)
(***************************************************************************)
EXTENDS Naturals, Sequences, FiniteSets, PaymentLifecycle

CONSTANTS Legs,        \* REAL_PAYMENT legs of one order
          Callers,     \* calls in flight: back-office users, the webhook
          Keys,        \* idempotency keys
          Sessions,    \* cash drawer sessions
          CashLegs,    \* legs paid in cash
          DrawerOf,    \* cash_drawer_session_id of a leg, or NoSession
          InitStatus,  \* status each leg was created with
          Requests,    \* requests the clients may send
          NoSession, NoCaller, NoResult, NoRequest

Fallbacks == {"PAY_ON_COLLECTION", "AR_CREDIT_INVOICE", "RECORD_ONLY"}
Request   == [leg : Legs, action : Actions, key : Keys,
              session : Sessions \cup {NoSession}, fallback : Fallbacks]

ASSUME LegAssumption == CashLegs \subseteq Legs
ASSUME DrawerAssumption == DrawerOf \in [Legs -> Sessions \cup {NoSession}]
ASSUME InitAssumption ==
  InitStatus \in [Legs -> {"PENDING", "PROCESSING", "AUTHORIZED", "COMPLETED"}]
ASSUME RequestAssumption == Requests \subseteq Request
ASSUME SentinelAssumption ==
  NoSession \notin Sessions /\ NoCaller \notin Callers /\ NoRequest \notin Request

VARIABLES status,    \* payment_status, committed
          log,       \* per leg, what its flips committed, oldest first
          typeCode,  \* org_orders_mst.payment_type_code
          header,    \* the stored snapshot: the bucket it counts each leg in
          cache,     \* org_idempotency_keys: response_cache of each key
          session,   \* status of each drawer session
          legLock, headerLock,  \* row locks
          pc, req,   \* a call's place and request
          was,       \* payment_status as its SELECT read it
          moved,     \* drawer session of the movement it inserted
          newType,   \* payment_type_code it is to write, or "keep"
          view,      \* snapshot it computed
          answer     \* what the last request of the caller was answered

Cached == [request : Requests, flipped : BOOLEAN]

tableVars == <<status, log, typeCode, header>>
lockVars  == <<legLock, headerLock>>
callVars  == <<pc, req, was, moved, newType, view, answer>>
vars == <<status, log, typeCode, header, cache, session, legLock, headerLock,
          pc, req, was, moved, newType, view, answer>>

Flip == [from : Statuses, to : Statuses, by : Requests, moved : Sessions \cup {NoSession}]
TypeCodes == {"ORIGINAL", "PAY_ON_COLLECTION", "AR_CREDIT_INVOICE"}
Answers == {"none", "replayed", "conflict", "noop", "flipped", "error"}

TypeOK ==
  /\ status  \in [Legs -> Statuses]
  /\ log     \in [Legs -> Seq(Flip)]
  /\ typeCode \in TypeCodes
  /\ header  \in [Legs -> Buckets]
  /\ cache   \in [Keys -> Cached \cup {NoResult}]
  /\ session \in [Sessions -> {"OPEN", "CLOSED"}]
  /\ legLock \in [Legs -> Callers \cup {NoCaller}]
  /\ headerLock \in Callers \cup {NoCaller}
  /\ pc      \in [Callers -> {"idle", "lock", "effects", "reclass", "snapshot", "commit", "store"}]
  /\ req     \in [Callers -> Requests \cup {NoRequest}]
  /\ was     \in [Callers -> Statuses \cup {"unread"}]
  /\ moved   \in [Callers -> Sessions \cup {NoSession}]
  /\ newType \in [Callers -> TypeCodes \cup {"keep"}]
  /\ view    \in [Callers -> [Legs -> Buckets]]
  /\ answer  \in [Callers -> Answers]

NoView == [l \in Legs |-> "failed"]

Init ==
  /\ status  = InitStatus
  /\ log     = [l \in Legs |-> <<>>]
  /\ typeCode = "ORIGINAL"
  /\ header  = [l \in Legs |-> Bucket(InitStatus[l])]
  /\ cache   = [k \in Keys |-> NoResult]
  /\ session = [s \in Sessions |-> "OPEN"]
  /\ legLock = [l \in Legs |-> NoCaller]
  /\ headerLock = NoCaller
  /\ pc      = [c \in Callers |-> "idle"]
  /\ req     = [c \in Callers |-> NoRequest]
  /\ was     = [c \in Callers |-> "unread"]
  /\ moved   = [c \in Callers |-> NoSession]
  /\ newType = [c \in Callers |-> "keep"]
  /\ view    = [c \in Callers |-> NoView]
  /\ answer  = [c \in Callers |-> "none"]

-----------------------------------------------------------------------------
(* The tables                                                              *)

Leg(c)    == req[c].leg
Action(c) == req[c].action
Target(c) == TargetStatus[Action(c)]

\* Cash sale and reversal movements.  A leg created COMPLETED got its
\* CASH_SALE when the payment was wired, before this service sees it.
SaleFlips(l)     == {i \in DOMAIN log[l] : log[l][i].by.action = "VERIFY" /\ log[l][i].moved # NoSession}
ReversalFlips(l) == {i \in DOMAIN log[l] : log[l][i].by.action = "REVERSE" /\ log[l][i].moved # NoSession}
WiredSale(l)     == l \in CashLegs /\ DrawerOf[l] # NoSession /\ InitStatus[l] = "COMPLETED"
HasSale(l)       == WiredSale(l) \/ SaleFlips(l) # {}

\* hashPayload: everything of the request but the key.
SamePayload_LegOnly(r, q) == r.leg = q.leg  \* mutant: hashes the leg alone
SamePayload(r, q) ==
  /\ r.leg = q.leg /\ r.action = q.action
  /\ r.session = q.session /\ r.fallback = q.fallback

-----------------------------------------------------------------------------
(* A call                                                                  *)

Reply(c, a) == answer' = [answer EXCEPT ![c] = a]

\* The call is over: its row locks go, and so do the writes it carried.
Leave_KeepsHeader(c) ==  \* mutant: the header lock outlives the transaction
  /\ pc'      = [pc EXCEPT ![c] = "idle"]
  /\ was'     = [was EXCEPT ![c] = "unread"]
  /\ moved'   = [moved EXCEPT ![c] = NoSession]
  /\ newType' = [newType EXCEPT ![c] = "keep"]
  /\ view'    = [view EXCEPT ![c] = NoView]
  /\ legLock' = [l \in Legs |-> IF legLock[l] = c THEN NoCaller ELSE legLock[l]]
  /\ UNCHANGED <<headerLock, req>>
Leave(c) ==
  /\ pc'      = [pc EXCEPT ![c] = "idle"]
  /\ was'     = [was EXCEPT ![c] = "unread"]
  /\ moved'   = [moved EXCEPT ![c] = NoSession]
  /\ newType' = [newType EXCEPT ![c] = "keep"]
  /\ view'    = [view EXCEPT ![c] = NoView]
  /\ legLock' = [l \in Legs |-> IF legLock[l] = c THEN NoCaller ELSE legLock[l]]
  /\ headerLock' = IF headerLock = c THEN NoCaller ELSE headerLock
  /\ UNCHANGED req

\* Step 0: the key has a cached result.
LookUpCached(c, r) ==
  /\ pc[c] = "idle"
  /\ cache[r.key] # NoResult
  /\ req' = [req EXCEPT ![c] = r]
  /\ Reply(c, IF SamePayload(cache[r.key].request, r) THEN "replayed" ELSE "conflict")
  /\ UNCHANGED <<tableVars, cache, session, lockVars, pc, was, moved, newType, view>>

\* Step 0: the key is new.
LookUpNew(c, r) ==
  /\ pc[c] = "idle"
  /\ cache[r.key] = NoResult
  /\ req' = [req EXCEPT ![c] = r]
  /\ pc'  = [pc EXCEPT ![c] = "lock"]
  /\ Reply(c, "none")
  /\ UNCHANGED <<tableVars, cache, session, lockVars, was, moved, newType, view>>

LegFree_NoForUpdate(c) == TRUE  \* mutant: neither FOR UPDATE nor the status guard
LegFree(c) == legLock[Leg(c)] = NoCaller

\* Step 1, SELECT ... FOR UPDATE, with the tests of steps 2 and 3.  The
\* updateMany of step 4 repeats the status it just read under the lock, so
\* its count is always 1: the flip is carried in req until the commit.
LockLeg(c) ==
  /\ pc[c] = "lock"
  /\ LegFree(c)
  /\ \/ status[Leg(c)] = Target(c) /\ pc' = [pc EXCEPT ![c] = "store"]
     \/ /\ status[Leg(c)] \in SourceStatuses[Action(c)]
        /\ pc' = [pc EXCEPT ![c] = "effects"]
  /\ legLock' = [legLock EXCEPT ![Leg(c)] = c]
  /\ was' = [was EXCEPT ![c] = status[Leg(c)]]
  /\ UNCHANGED <<tableVars, cache, session, headerLock, req, moved, newType, view, answer>>

Illegal(c) ==
  /\ pc[c] = "lock"
  /\ LegFree(c)
  /\ status[Leg(c)] \notin SourceStatuses[Action(c)] \cup {Target(c)}
  /\ Leave(c)
  /\ Reply(c, "error")
  /\ UNCHANGED <<tableVars, cache, session>>

ToSnapshot(c) == pc' = [pc EXCEPT ![c] = "snapshot"]

\* maybeCreateDeferredCashMovementTx: the sale that wiring postponed.  With
\* the session closed it is skipped and only a warning is logged.
DeferredSale(c) ==
  /\ pc[c] = "effects" /\ Action(c) = "VERIFY"
  /\ moved' = [moved EXCEPT ![c] =
       IF /\ Leg(c) \in CashLegs
          /\ DrawerOf[Leg(c)] # NoSession
          /\ ~HasSale(Leg(c))
          /\ session[DrawerOf[Leg(c)]] = "OPEN"
       THEN DrawerOf[Leg(c)] ELSE NoSession]
  /\ ToSnapshot(c)
  /\ UNCHANGED <<tableVars, cache, session, lockVars, req, was, newType, view, answer>>

\* maybeCreateReversalCompensatingMovementTx: cash must leave an open drawer.
CanCompensate_Skips(c) == TRUE  \* mutant: skips as VERIFY does
CanCompensate(c) ==
  Leg(c) \in CashLegs => /\ req[c].session # NoSession
                         /\ session[req[c].session] = "OPEN"

Compensate(c) ==
  /\ pc[c] = "effects" /\ Action(c) = "REVERSE"
  /\ CanCompensate(c)
  /\ moved' = [moved EXCEPT ![c] =
       IF /\ Leg(c) \in CashLegs /\ req[c].session # NoSession
          /\ session[req[c].session] = "OPEN"
       THEN req[c].session ELSE NoSession]
  /\ ToSnapshot(c)
  /\ UNCHANGED <<tableVars, cache, session, lockVars, req, was, newType, view, answer>>

CannotCompensate(c) ==
  /\ pc[c] = "effects" /\ Action(c) = "REVERSE"
  /\ ~CanCompensate(c)
  /\ Leave(c)
  /\ Reply(c, "error")
  /\ UNCHANGED <<tableVars, cache, session>>

\* maybeReclassifyPaymentTypeTx: reads the order, and decides.
DecideReclass(c) ==
  /\ pc[c] = "effects" /\ Action(c) \in {"CANCEL", "FAIL_BOUNCE"}
  /\ \/ /\ req[c].fallback \notin {"RECORD_ONLY", typeCode}
        /\ newType' = [newType EXCEPT ![c] = req[c].fallback]
        /\ pc' = [pc EXCEPT ![c] = "reclass"]
     \/ /\ req[c].fallback \in {"RECORD_ONLY", typeCode}
        /\ ToSnapshot(c)
        /\ UNCHANGED newType
  /\ UNCHANGED <<tableVars, cache, session, lockVars, req, was, moved, view, answer>>

\* Its UPDATE takes the row lock of the order until the commit.
Reclassify(c) ==
  /\ pc[c] = "reclass"
  /\ headerLock = NoCaller
  /\ headerLock' = c
  /\ ToSnapshot(c)
  /\ UNCHANGED <<tableVars, cache, session, legLock, req, was, moved, newType, view, answer>>

\* VOID, CAPTURE and SETTLE write no more rows here.
NoEffect(c) ==
  /\ pc[c] = "effects" /\ Action(c) \in {"VOID", "CAPTURE", "SETTLE"}
  /\ ToSnapshot(c)
  /\ UNCHANGED <<tableVars, cache, session, lockVars, req, was, moved, newType, view, answer>>

\* Step 6, the reads of recalculateOrderFinancialSnapshotTx: its own flip and
\* the committed status of every other leg.
ReadSnapshot(c) ==
  /\ pc[c] = "snapshot"
  /\ view' = [view EXCEPT ![c] =
       [l \in Legs |-> Bucket(IF l = Leg(c) THEN Target(c) ELSE status[l])]]
  /\ pc' = [pc EXCEPT ![c] = "commit"]
  /\ UNCHANGED <<tableVars, cache, session, lockVars, req, was, moved, newType, answer>>

StoreResult(c, b) == cache' = [cache EXCEPT ![req[c].key] = [request |-> req[c], flipped |-> b]]

\* The UPDATE of the header (it waits for the row), emitEventTx, the upsert of
\* the key, and COMMIT.
Commit(c) ==
  /\ pc[c] = "commit"
  /\ headerLock \in {NoCaller, c}
  /\ status' = [status EXCEPT ![Leg(c)] = Target(c)]
  /\ log' = [log EXCEPT ![Leg(c)] = Append(@,
       [from |-> was[c], to |-> Target(c), by |-> req[c], moved |-> moved[c]])]
  /\ typeCode' = IF newType[c] = "keep" THEN typeCode ELSE newType[c]
  /\ header' = view[c]
  /\ StoreResult(c, TRUE)
  /\ Leave(c)
  /\ Reply(c, "flipped")
  /\ UNCHANGED session

\* Step 2: the leg is at the target already.
StoreNoOp(c) ==
  /\ pc[c] = "store"
  /\ StoreResult(c, FALSE)
  /\ Leave(c)
  /\ Reply(c, "noop")
  /\ UNCHANGED <<tableVars, session>>

\* A statement fails, the interactive transaction times out, or the server
\* dies: the database rolls everything back.
Rollback(c) ==
  /\ pc[c] # "idle"
  /\ Leave(c)
  /\ Reply(c, "error")
  /\ UNCHANGED <<tableVars, cache, session>>

-----------------------------------------------------------------------------
(* Around the calls                                                        *)

\* The UPDATE of closeSession; a closed session never opens again.
closeSession(s) ==
  /\ session[s] = "OPEN"
  /\ session' = [session EXCEPT ![s] = "CLOSED"]
  /\ UNCHANGED <<tableVars, cache, lockVars, callVars>>

\* cleanup_expired_idempotency_keys, seven days after the key was created.
ExpireKey(k) ==
  /\ cache[k] # NoResult
  /\ cache' = [cache EXCEPT ![k] = NoResult]
  /\ UNCHANGED <<tableVars, session, lockVars, callVars>>

Progress(c) ==
  \/ LockLeg(c) \/ Illegal(c)
  \/ DeferredSale(c) \/ Compensate(c) \/ CannotCompensate(c)
  \/ DecideReclass(c) \/ Reclassify(c) \/ NoEffect(c)
  \/ ReadSnapshot(c) \/ Commit(c) \/ StoreNoOp(c)

Next ==
  \/ \E c \in Callers : \/ \E r \in Requests : LookUpCached(c, r) \/ LookUpNew(c, r)
                        \/ Progress(c)
                        \/ Rollback(c)
  \/ \E s \in Sessions : closeSession(s)
  \/ \E k \in Keys : ExpireKey(k)

Spec == Init /\ [][Next]_vars

\* A call that is not waiting for a row goes on, and PostgreSQL serves the
\* waiters of a row in turn: none is passed over for ever.
Fairness == \A c \in Callers : SF_vars(Progress(c))
FairSpec == Spec /\ Fairness

-----------------------------------------------------------------------------
(* Properties                                                              *)

\* The events of a leg are the history of its status: replayed from the
\* creation status they form one unbroken chain that ends at payment_status.
\* Two concurrent calls never both leave from the same status, and no flip
\* is committed without its event or an event without its flip.
LogReplaysStatus ==
  \A l \in Legs :
    LET n == Len(log[l])
    IN  /\ \A i \in 1..n : log[l][i].from = IF i = 1 THEN InitStatus[l] ELSE log[l][i - 1].to
        /\ status[l] = IF n = 0 THEN InitStatus[l] ELSE log[l][n].to

\* CANCELLED_PAYMENT_NO_ORPHAN_MOVEMENT, which warnIfOrphanMovementExistsTx
\* calls structurally unreachable: only money that arrived has a CASH_SALE
\* in a drawer, and it has one.
NoOrphanSale ==
  \A l \in Legs :
    /\ HasSale(l) => status[l] \in CompletedStatuses \cup {"REVERSED"}
    /\ Cardinality(SaleFlips(l)) + (IF WiredSale(l) THEN 1 ELSE 0) <= 1

\* A cash leg is REVERSED only together with one compensating OUT movement,
\* and nothing else puts one into a drawer.
ReversalIsCompensated ==
  \A l \in CashLegs :
    Cardinality(ReversalFlips(l)) = IF status[l] = "REVERSED" THEN 1 ELSE 0

\* A request is carried out at most once, however often it is retried, with
\* its key cached, expired or still unknown to the other calls.
OneFlipPerRequest ==
  \A l \in Legs : \A i, j \in DOMAIN log[l] : log[l][i].by = log[l][j].by => i = j

\* A caller that is told of success, from the cache or not, asked for a
\* transition that really took place.
SuccessIsReal ==
  \A c \in Callers :
    answer[c] \in {"flipped", "noop", "replayed"} =>
      \/ Target(c) = InitStatus[Leg(c)]
      \/ \E i \in DOMAIN log[Leg(c)] : log[Leg(c)][i].to = Target(c)

\* Money that counted as paid leaves the paid bucket only by REVERSE, and a
\* leg that failed never counts again (the D001 graph, under concurrency).
PaidLeavesByReversal ==
  [][\A l \in Legs :
       /\ status[l] \in CompletedStatuses => status'[l] \in CompletedStatuses \cup {"REVERSED"}
       /\ Bucket(status[l]) = "failed" => status'[l] = status[l]]_vars

\* No call waits for ever: the leg locks, and the header lock that CANCEL
\* takes early and the others late, never form a cycle and are all released.
CallsReturn == \A c \in Callers : pc[c] # "idle" ~> pc[c] = "idle"

\* Every step is an atomic transition of the ledger, or changes nothing of it.
Ledger == INSTANCE PaymentLedger
RefinesLedger == Ledger!Spec

\* "Recalculate and persist the Order Fin snapshot from current fact rows":
\* once no call is in flight the header counts each leg as it stands.
HeaderCountsLegs ==
  (\A c \in Callers : pc[c] = "idle") => header = [l \in Legs |-> Bucket(status[l])]
=============================================================================
