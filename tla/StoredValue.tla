---------------------------- MODULE StoredValue ----------------------------
(***************************************************************************)
(* One customer's stored value: stored-value.service.ts (wallet, advance,  *)
(* credit notes), gift-card-service.ts (a card's redemption and refund),   *)
(* loyalty.service.ts (points), the credit applications that spend it on   *)
(* orders (order-credit-application.service.ts and the checkout) and the   *)
(* cancellation that gives it back (order-cancel-financials.service.ts).   *)
(*                                                                         *)
(* Calls are READ COMMITTED transactions that run at once.  A call works   *)
(* through its legs; each leg writes one balance and one ledger row:       *)
(*                                                                         *)
(*   redemption: look the key up -> SELECT ... FOR UPDATE, check, debit    *)
(*   credit:     look the key up, read the balance without a lock ->       *)
(*               increment it (wallet, advance), create it (note), or      *)
(*               write back the sum (points)                               *)
(*   cancel:     flip an APPLIED application, then credit what it took     *)
(*                                                                         *)
(* An entry is a ledger row that a request would write; posted counts the  *)
(* rows committed for it.                                                  *)
(***************************************************************************)
EXTENDS Integers, FiniteSets, Totals

CONSTANTS Accounts,  \* balances of the customer: each wallet, note, ...
          Kind,      \* the type of each
          Opening,   \* its balance at the start, Missing without a row; for
                     \* a gift card its original_amount
          Entries,   \* ledger rows that requests would write
          Account,   \* the balance an entry belongs to
          Amount,    \* its amount, negative for a redemption
          Apps,      \* the entries that are credit applications of orders
          Order,     \* the order each application pays
          Requests,  \* the sets of applications that are asked for together
          LegIndex,  \* the place of an application in its request
          Undo,      \* the entry that gives an application's value back
          Credits,   \* the entries of top-ups, issues and earns
          Unkeyed,   \* entries whose row carries no idempotency key
          Calls,     \* transactions in flight
          NoCall, NoEntry

Missing == -1

Restores == {Undo[x] : x \in Apps} \ {NoEntry}
Orders   == {Order[x] : x \in Apps}
Rows     == Accounts \cup Apps

ASSUME AccountAssumption ==
  /\ IsFiniteSet(Accounts) /\ Accounts \cap Apps = {}
  /\ Kind \in [Accounts -> {"GIFT_CARD", "WALLET", "ADVANCE", "CREDIT_NOTE", "LOYALTY_POINTS"}]
  /\ Opening \in [Accounts -> Nat \cup {Missing}]
  /\ \A a \in Accounts : Kind[a] = "GIFT_CARD" => Opening[a] \in Nat
ASSUME EntryAssumption ==
  /\ IsFiniteSet(Entries) /\ NoEntry \notin Entries
  /\ Account \in [Entries -> Accounts] /\ Amount \in [Entries -> Int]
  /\ Credits \subseteq Entries /\ Unkeyed \subseteq Restores
ASSUME AppAssumption ==
  /\ Apps \subseteq Entries /\ Requests \subseteq SUBSET Apps
  /\ LegIndex \in [Apps -> Nat] /\ DOMAIN Order = Apps
  /\ Undo \in [Apps -> Entries \cup {NoEntry}]
  /\ Restores \cap Apps = {} /\ Credits \cap (Apps \cup Restores) = {}
  /\ \A x, y \in Apps : Undo[x] = Undo[y] /\ Undo[x] # NoEntry => x = y
ASSUME SignAssumption ==
  /\ \A e \in Entries : IF e \in Apps THEN Amount[e] < 0 ELSE Amount[e] > 0
  /\ \A x \in Apps : Undo[x] # NoEntry => Amount[Undo[x]] = -Amount[x]
\* A card's ledger holds redemptions and what a cancellation gives back to
\* the card it was taken from (order-cancel-financials.service.ts:122, the
\* only caller of refundGiftCardTx); adminAdjustGiftCard is not modelled.
ASSUME CardAssumption ==
  \A e \in Entries : Kind[Account[e]] = "GIFT_CARD" =>
    e \in Apps \/ \E x \in Apps : Undo[x] = e /\ Account[x] = Account[e]
ASSUME CallAssumption == NoCall \notin Calls

VARIABLES balance,  \* balance, remaining_balance or points_balance
          posted,   \* rows of org_*_txn_dtl of each entry
          app,      \* application_status, "none" without a row
          lock,     \* row locks of accounts and applications
          pc, task, todo, \* a call's place, kind and legs to come
          leg, seen,      \* the leg it works on, and the balance it read
          draft,          \* the balances it wrote
          done, flipped   \* the rows it inserted, the applications it flipped

tableVars == <<balance, posted, app>>
callVars  == <<pc, task, todo, leg, seen, draft, done, flipped>>
vars == <<balance, posted, app, lock, pc, task, todo, leg, seen, draft, done, flipped>>

TypeOK ==
  /\ balance \in [Accounts -> Nat \cup {Missing}]
  /\ posted  \in [Entries -> Nat]
  /\ app     \in [Apps -> {"none", "APPLIED", "REVERSED"}]
  /\ lock    \in [Rows -> Calls \cup {NoCall}]
  /\ pc      \in [Calls -> {"idle", "next", "lookup", "write"}]
  /\ task    \in [Calls -> {"none", "spend", "credit", "cancel"}]
  /\ todo    \in [Calls -> SUBSET Entries]
  /\ leg     \in [Calls -> Entries \cup {NoEntry}]
  /\ seen    \in [Calls -> Nat \cup {Missing}]
  /\ draft   \in [Calls -> [Accounts -> Nat]]
  /\ done    \in [Calls -> SUBSET Entries]
  /\ flipped \in [Calls -> SUBSET Apps]

Init ==
  /\ balance = Opening
  /\ posted  = [e \in Entries |-> 0]
  /\ app     = [x \in Apps |-> "none"]
  /\ lock    = [r \in Rows |-> NoCall]
  /\ pc      = [c \in Calls |-> "idle"]
  /\ task    = [c \in Calls |-> "none"]
  /\ todo    = [c \in Calls |-> {}]
  /\ leg     = [c \in Calls |-> NoEntry]
  /\ seen    = [c \in Calls |-> 0]
  /\ draft   = [c \in Calls |-> [a \in Accounts |-> 0]]
  /\ done    = [c \in Calls |-> {}]
  /\ flipped = [c \in Calls |-> {}]

-----------------------------------------------------------------------------
(* Beginning and ending a transaction                                      *)

Begin(c, t, legs) ==
  /\ pc[c] = "idle" /\ legs # {}
  /\ pc'   = [pc EXCEPT ![c] = "next"]
  /\ task' = [task EXCEPT ![c] = t]
  /\ todo' = [todo EXCEPT ![c] = legs]
  /\ UNCHANGED <<tableVars, lock, leg, seen, draft, done, flipped>>

\* The legs of a checkout, or one application from the order's page
\* (applyOrderCreditApplication).
spend(c, X) == Begin(c, "spend", X)

\* topUpWalletTx, issueAdvanceTx, issueCreditNoteTx or processEarnPoints.
credit(c, e) == Begin(c, "credit", {e})

\* unwindOrderFinancialsOnCancel lists the APPLIED applications, unlocked.
cancel(c, o) == Begin(c, "cancel", {x \in Apps : Order[x] = o /\ app[x] = "APPLIED"})

Leave(c) ==
  /\ pc'   = [pc EXCEPT ![c] = "idle"]
  /\ task' = [task EXCEPT ![c] = "none"]
  /\ todo' = [todo EXCEPT ![c] = {}]
  /\ leg'  = [leg EXCEPT ![c] = NoEntry]
  /\ seen' = [seen EXCEPT ![c] = 0]
  /\ draft' = [draft EXCEPT ![c] = [a \in Accounts |-> 0]]
  /\ done'  = [done EXCEPT ![c] = {}]
  /\ flipped' = [flipped EXCEPT ![c] = {}]
  /\ lock' = [r \in Rows |-> IF lock[r] = c THEN NoCall ELSE lock[r]]

\* A balance does not suffice, a statement fails, PostgreSQL breaks a
\* deadlock, or the server dies: all undone.
Rollback(c) == pc[c] # "idle" /\ Leave(c) /\ UNCHANGED tableVars

Lock(c, r)  == lock' = [lock EXCEPT ![r] = c]
Free_NoForUpdate(c, r) == TRUE  \* mutant: the SELECT takes no lock
Free(c, r)  == lock[r] \in {NoCall, c}

-----------------------------------------------------------------------------
(* The legs                                                                *)

\* STORED_VALUE_LOCK_RANK, which sorts the applications of a request.
LockRank(a) == CASE Kind[a] = "GIFT_CARD" -> 0
                 [] Kind[a] = "WALLET" -> 1 [] Kind[a] = "ADVANCE" -> 2
                 [] Kind[a] = "CREDIT_NOTE" -> 3 [] OTHER -> 4

Before_RequestOrder(x, y) == LegIndex[x] < LegIndex[y]  \* mutant: legs are not sorted
Before(x, y) ==
  \/ LockRank(Account[x]) < LockRank(Account[y])
  \/ LockRank(Account[x]) = LockRank(Account[y]) /\ LegIndex[x] < LegIndex[y]

First(c, e) == task[c] = "spend" => \A x \in todo[c] : ~Before(x, e)

\* updateMany ... WHERE application_status = APPLIED: waits for the row, and
\* counts 0 if another cancellation reversed it meanwhile.
StillApplied_Unchecked(x) == TRUE  \* mutant: the UPDATE goes by id alone
StillApplied(x) == app[x] = "APPLIED"

Flip(c, x) ==
  /\ pc[c] = "next" /\ task[c] = "cancel" /\ x \in todo[c]
  /\ Free(c, x)
  /\ todo' = [todo EXCEPT ![c] = @ \ {x}]
  /\ IF StillApplied(x)
       THEN /\ Lock(c, x)
            /\ flipped' = [flipped EXCEPT ![c] = @ \cup {x}]
            /\ leg' = [leg EXCEPT ![c] = Undo[x]]
            /\ pc'  = [pc EXCEPT ![c] = IF Undo[x] = NoEntry THEN "next" ELSE "lookup"]
       ELSE UNCHANGED <<lock, flipped, leg, pc>>
  /\ UNCHANGED <<tableVars, task, seen, draft, done>>

Choose(c, e) ==
  /\ pc[c] = "next" /\ task[c] # "cancel" /\ e \in todo[c] /\ First(c, e)
  /\ todo' = [todo EXCEPT ![c] = @ \ {e}]
  /\ leg'  = [leg EXCEPT ![c] = e]
  /\ pc'   = [pc EXCEPT ![c] = "lookup"]
  /\ UNCHANGED <<tableVars, lock, task, seen, draft, done, flipped>>

\* The balance as the transaction sees it.
Current(c, a) == IF lock[a] = c THEN draft[c][a] ELSE balance[a]

\* The idempotency lookup; a credit also reads the balance here.
NewKey(e) == e \notin Unkeyed => posted[e] = 0

Lookup(c) ==
  /\ pc[c] = "lookup" /\ NewKey(leg[c])
  /\ seen' = [seen EXCEPT ![c] = IF leg[c] \in Apps THEN 0 ELSE Current(c, Account[leg[c]])]
  /\ pc'   = [pc EXCEPT ![c] = "write"]
  /\ UNCHANGED <<tableVars, lock, task, todo, leg, draft, done, flipped>>

\* A known key is answered with its row.  A redemption then ends, too: its
\* application is returned, or its second row fails and all is rolled back.
Replay(c) ==
  /\ pc[c] = "lookup" /\ task[c] # "spend" /\ ~NewKey(leg[c])
  /\ leg' = [leg EXCEPT ![c] = NoEntry]
  /\ pc'  = [pc EXCEPT ![c] = "next"]
  /\ UNCHANGED <<tableVars, lock, task, todo, seen, draft, done, flipped>>

Redeemed(c, e) == Current(c, Account[e]) + Amount[e]

Suffices_Unchecked(c, e) == TRUE  \* mutant: the balance is not tested
Suffices(c, e) == Redeemed(c, e) >= 0

\* increment for wallets and advances; points are written back as read; a
\* gift card, read under its lock, is refunded up to its original amount.
Credited_FromRead(c, e) == seen[c] + Amount[e]  \* mutant: all are written back as read
Credited(c, e) ==
  LET a == Account[e]  sum == Current(c, a) + Amount[e] IN
  CASE Kind[a] = "GIFT_CARD" -> IF sum > Opening[a] THEN Opening[a] ELSE sum
    [] Kind[a] # "GIFT_CARD" /\ seen[c] = Missing -> Amount[e]
    [] Kind[a] = "LOYALTY_POINTS" /\ seen[c] # Missing -> seen[c] + Amount[e]
    [] OTHER -> sum

\* The UPDATE and the INSERT of the ledger row.  uq_wallet_per_customer and
\* its like let one of two creators of an account through.
Write(c, new) ==
  LET e == leg[c]  a == Account[e] IN
  /\ pc[c] = "write" /\ Free(c, a)
  /\ Lock(c, a)
  /\ draft' = [draft EXCEPT ![c][a] = new]
  /\ done'  = [done EXCEPT ![c] = @ \cup {e}]
  /\ leg'   = [leg EXCEPT ![c] = NoEntry]
  /\ pc'    = [pc EXCEPT ![c] = "next"]
  /\ UNCHANGED <<tableVars, task, todo, seen, flipped>>

Redeem(c) ==
  /\ leg[c] \in Apps /\ Suffices(c, leg[c])
  /\ Write(c, Redeemed(c, leg[c]))

Credit(c) ==
  /\ leg[c] \in Entries \ Apps
  /\ seen[c] = Missing => Current(c, Account[leg[c]]) = Missing
  /\ Write(c, Credited(c, leg[c]))

\* The commit publishes the balances, the ledger rows and the applications;
\* unique keys let one of two rows of a key through.
Unique(c) == \A e \in done[c] : NewKey(e)

Commit(c) ==
  /\ pc[c] = "next" /\ todo[c] = {} /\ Unique(c)
  /\ balance' = [a \in Accounts |-> Current(c, a)]
  /\ posted'  = [e \in Entries |-> IF e \in done[c] THEN posted[e] + 1 ELSE posted[e]]
  /\ app' = [x \in Apps |-> IF x \in flipped[c] THEN "REVERSED"
                            ELSE IF x \in done[c] THEN "APPLIED" ELSE app[x]]
  /\ Leave(c)

Next == \E c \in Calls :
  \/ \E X \in Requests : spend(c, X)
  \/ \E e \in Credits : credit(c, e)
  \/ \E o \in Orders : cancel(c, o)
  \/ \E x \in Apps : Flip(c, x)
  \/ \E e \in Entries : Choose(c, e)
  \/ Lookup(c) \/ Replay(c) \/ Redeem(c) \/ Credit(c) \/ Commit(c) \/ Rollback(c)

Spec == Init /\ [][Next]_vars

-----------------------------------------------------------------------------
(* Properties                                                              *)

Held(a) == IF balance[a] = Missing THEN 0 ELSE balance[a]
Start(a) == IF Opening[a] = Missing THEN 0 ELSE Opening[a]
EntriesOf(a) == {e \in Entries : Account[e] = a}
Moved == [e \in Entries |-> posted[e] * Amount[e]]
LedgerSum(a) == SumOver(Moved, EntriesOf(a))

\* Money balances equal the sum of their ledger rows, however top-ups, spends
\* and cancellations overlap, so a gift card's cap never cuts a refund: what
\* the STORED_VALUE_LEDGER reconciliation check demands of wallets.
BalanceIsLedgerSum ==
  \A a \in Accounts :
    Kind[a] # "LOYALTY_POINTS" => Held(a) = Start(a) + LedgerSum(a)

\* The same of points: an earn that overlaps a redemption or another earn
\* writes back a balance read before it.
PointsAreLedgerSum ==
  \A a \in Accounts :
    Kind[a] = "LOYALTY_POINTS" => Held(a) = Start(a) + LedgerSum(a)

\* Each application's row tells what happened to the customer's value, across
\* retries, overlapping spends and overlapping cancellations.
AppsMatchLedger == \A x \in Apps :
  /\ posted[x] = (IF app[x] = "none" THEN 0 ELSE 1)
  /\ Undo[x] # NoEntry => posted[Undo[x]] = (IF app[x] = "REVERSED" THEN 1 ELSE 0)

\* A waits for a row that B holds.
Wants(c) == CASE pc[c] = "write" -> {Account[leg[c]]}
              [] pc[c] = "next" /\ task[c] = "cancel" -> todo[c]
              [] OTHER -> {}
WaitsFor(c, d) == c # d /\ Wants(c) # {} /\ \A r \in Wants(c) : lock[r] = d

SpendsWaitInCircle(c, d) ==
  /\ task[c] = "spend" /\ task[d] = "spend"
  /\ WaitsFor(c, d) /\ WaitsFor(d, c)

\* Checkouts of one customer never wait for each other in a circle: what
\* order-financial.ts:80 says of STORED_VALUE_LOCK_ORDER.  Two credit notes that
\* two requests name in opposite order refute it: the sort ranks types, and
\* keeps the order of the request within one.
SpendsDontDeadlock == \A c, d \in Calls : ~SpendsWaitInCircle(c, d)

\* What the sort does achieve: two checkouts that wait for each other want two
\* balances of one type, never a card and a wallet, a wallet and a note.
CirclesStayInOneType == \A c, d \in Calls :
  SpendsWaitInCircle(c, d) => Kind[Account[leg[c]]] = Kind[Account[leg[d]]]

\* Value is taken once for an application and given back at most once, in
\* steps that CreditPromise allows.
valueOf == [x \in Apps |->
  CASE posted[x] = 0 /\ Undo[x] = NoEntry -> "owed"
    [] posted[x] = 1 /\ Undo[x] = NoEntry -> "taken"
    [] posted[x] = 0 /\ Undo[x] # NoEntry /\ posted[Undo[x]] = 0 -> "owed"
    [] posted[x] = 1 /\ Undo[x] # NoEntry /\ posted[Undo[x]] = 0 -> "taken"
    [] posted[x] = 1 /\ Undo[x] # NoEntry /\ posted[Undo[x]] = 1 -> "returned"
    [] OTHER -> "lost"]

Promise == INSTANCE CreditPromise WITH value <- valueOf
RefinesPromise == Promise!Spec
=============================================================================
