----------------------------- MODULE Fulfilment -----------------------------
(***************************************************************************)
(* The workflow engine (workflow-engine.service.ts, executeAction) and the *)
(* two commands that hand an order over and move it through the engine in  *)
(* one transaction: completePickup (pickup-completion.service.ts) and      *)
(* completeDelivery (delivery-completion.service.ts), with the idempotency *)
(* keys of idempotency.ts and the job that clears them.                    *)
(*                                                                         *)
(* A call serves one request.  Engine calls look their key up and stake    *)
(* it; handovers claim theirs and give it back when they fail.  Both then  *)
(* run a READ COMMITTED transaction that starts by locking the order (and  *)
(* the stop and the route for a delivery), so its writes are one step, but *)
(* for the count of the route's stops, which is a statement of its own.    *)
(***************************************************************************)
EXTENDS Integers, FiniteSets

CONSTANTS Orders,
          Opening,    \* their statuses at the start
          Requests,   \* a payload sent under a key
          Service,    \* engine, pickup or delivery: what is called with it
          Of,         \* the order it is about
          Action,     \* the workflow action it takes
          Expects,    \* expectedStateVersion
          Staged,     \* the pickups with requireReleasedPickup
          Keys,       \* rows of org_idempotency_keys, by key and resource
          Key,        \* the key a request is sent under
          EngineKey,  \* the key under which the engine files its result
          Calls,      \* calls of the API in flight
          Route,      \* the delivery route of the orders that are out
          NoCall, NoRequest, Nowhere

Statuses == {"ready", "ready_for_pickup", "out_for_delivery", "on_hold",
             "stopped", "delivered"}

\* The end of the action graph: sys_wf_transitions_cd, sys_wf_action_trans_cd.
From == [HOLD_ORDER_WORK      |-> {"ready", "out_for_delivery"},
         RESUME_ORDER_WORK    |-> {"on_hold"},
         STOP_ORDER_WORK      |-> {"ready", "out_for_delivery", "on_hold"},
         RELEASE_FOR_PICKUP   |-> {"ready"},
         RELEASE_FOR_DELIVERY |-> {"ready"},
         CONFIRM_PICKUP       |-> {"ready", "ready_for_pickup"},
         CONFIRM_DELIVERY     |-> {"out_for_delivery"}]
To == [HOLD_ORDER_WORK      |-> "on_hold",
       STOP_ORDER_WORK      |-> "stopped",
       RELEASE_FOR_PICKUP   |-> "ready_for_pickup",
       RELEASE_FOR_DELIVERY |-> "out_for_delivery",
       CONFIRM_PICKUP       |-> "delivered",
       CONFIRM_DELIVERY     |-> "delivered"]

ASSUME OrderAssumption ==
  /\ IsFiniteSet(Orders) /\ Route \notin Orders
  /\ Opening \in [Orders -> {"ready", "out_for_delivery"}]
  /\ Nowhere \notin Statuses
ASSUME RequestAssumption ==
  /\ NoRequest \notin Requests
  /\ Service \in [Requests -> {"engine", "pickup", "delivery"}]
  /\ Of \in [Requests -> Orders]
  /\ Action \in [Requests -> DOMAIN From]
  /\ Expects \in [Requests -> Nat]
  /\ Staged \subseteq Requests
  /\ \A r \in Requests :
       /\ Service[r] = "pickup" => Action[r] = "CONFIRM_PICKUP"
       /\ Service[r] = "delivery" => Action[r] = "CONFIRM_DELIVERY"
ASSUME KeyAssumption ==
  /\ Key \in [Requests -> Keys] /\ EngineKey \in [Requests -> Keys]
  /\ \A r \in Requests : Service[r] = "engine" <=> Key[r] = EngineKey[r]
ASSUME CallAssumption == NoCall \notin Calls

VARIABLES status, version, holdFrom, \* org_orders_mst
          history,   \* org_order_history: request and version of each move
          release,   \* org_wf_release_mst
          stop,      \* stop_status_code of the order's stop
          completed, \* completed_stops of the route
          keys,      \* the key rows
          lock,      \* the calls that lock each order and the route
          pc, req,   \* a call's place and its request
          seen,      \* the delivered stops a delivery counted
          reply,     \* the request whose result it is answered with
          lost       \* calls whose key went to another between their look-ups

tableVars == <<status, version, holdFrom, history, release, stop, completed>>
vars == <<status, version, holdFrom, history, release, stop, completed,
          keys, lock, pc, req, seen, reply, lost>>

NoRow == [req |-> NoRequest, by |-> NoCall, done |-> FALSE]

Releases == [type : {"pickup", "delivery"}, at : Nat,
             status : {"released", "fulfilled"}]
Ends     == {"idle", "ok", "error"}
Places   == Ends \cup {"reread", "stake", "verify", "inspect", "order", "route", "count",
                       "write", "unclaim"}

TypeOK ==
  /\ status   \in [Orders -> Statuses]
  /\ version  \in [Orders -> Nat]
  /\ holdFrom \in [Orders -> Statuses \cup {Nowhere}]
  /\ history  \in [Orders -> SUBSET [req : Requests, at : Nat]]
  /\ release  \in [Orders -> SUBSET Releases]
  /\ stop     \in [Orders -> {"none", "in_transit", "delivered"}]
  /\ completed \in Nat
  /\ keys     \in [Keys -> {NoRow} \cup [req : Requests, by : Calls, done : BOOLEAN]]
  /\ lock     \in [Orders \cup {Route} -> Calls \cup {NoCall}]
  /\ pc       \in [Calls -> Places]
  /\ req      \in [Calls -> Requests \cup {NoRequest}]
  /\ seen     \in [Calls -> Nat]
  /\ reply    \in [Calls -> Requests \cup {NoRequest}]
  /\ lost     \in SUBSET Calls

\* An order that is out at the start left under a release for delivery.
Out(o) == Opening[o] = "out_for_delivery"

Init ==
  /\ status    = Opening
  /\ version   = [o \in Orders |-> 0]
  /\ holdFrom  = [o \in Orders |-> Nowhere]
  /\ history   = [o \in Orders |-> {}]
  /\ release   = [o \in Orders |->
                   IF Out(o) THEN {[type |-> "delivery", at |-> 0, status |-> "released"]}
                   ELSE {}]
  /\ stop      = [o \in Orders |-> IF Out(o) THEN "in_transit" ELSE "none"]
  /\ completed = 0
  /\ keys      = [k \in Keys |-> NoRow]
  /\ lock      = [x \in Orders \cup {Route} |-> NoCall]
  /\ pc        = [c \in Calls |-> "idle"]
  /\ req       = [c \in Calls |-> NoRequest]
  /\ seen      = [c \in Calls |-> 0]
  /\ reply     = [c \in Calls |-> NoRequest]
  /\ lost      = {}

-----------------------------------------------------------------------------
(* Keys.                                                                   *)

Goto(c, place) == pc' = [pc EXCEPT ![c] = place]

Row(r)  == keys[Key[r]]
Mine_KeyAlone(r) == Row(r) # NoRow
Mine(r) == Row(r).req = r  \* the payload hash of the row is the request's

NewRow(c, r) == keys' = [keys EXCEPT ![Key[r]] = [req |-> r, by |-> c, done |-> FALSE]]

\* The calls between their two look-ups of a key that a step takes from them.
Lost(ks) == lost \cup {c \in Calls : pc[c] = "reread" /\ ks[Key[req[c]]].req # req[c]}

\* A call comes in and executeAction looks its key up: findIdempotencyHash.
Find(c, r) ==
  /\ pc[c] = "idle" /\ Service[r] = "engine"
  /\ req' = [req EXCEPT ![c] = r]
  /\ Goto(c, IF Row(r) = NoRow THEN "stake" ELSE IF Mine(r) THEN "reread" ELSE "error")
  /\ UNCHANGED <<tableVars, keys, lock, seen, reply, lost>>

\* A second SELECT fetches the result of the key, whoever's row it is by now:
\* executeAction's, and loadReplay of the handovers.
Reread(c) ==
  LET row == Row(req[c]) IN
  /\ pc[c] = "reread"
  /\ Goto(c, IF row.done THEN "ok"
             ELSE IF Service[req[c]] = "engine" THEN "stake" ELSE "error")
  /\ reply' = IF row.done THEN [reply EXCEPT ![c] = row.req] ELSE reply
  /\ UNCHANGED <<tableVars, keys, lock, req, seen, lost>>

\* stakeIdempotencyHash: an upsert that changes no row, and the row read back.
Stake(c) ==
  /\ pc[c] = "stake"
  /\ IF Row(req[c]) = NoRow THEN NewRow(c, req[c]) ELSE keys' = keys
  /\ Goto(c, "verify")
  /\ UNCHANGED <<tableVars, lock, req, seen, reply, lost>>

Verify(c) ==
  /\ pc[c] = "verify"
  /\ Goto(c, IF Mine(req[c]) THEN "order" ELSE "error")
  /\ UNCHANGED <<tableVars, keys, lock, req, seen, reply, lost>>

\* A handover comes in.  claimIdempotencyKey: INSERT ... ON CONFLICT DO
\* NOTHING, and the loser's look at the row.  A row that has gone counts as
\* claimed.
Claim(c, r) ==
  /\ pc[c] = "idle" /\ Service[r] # "engine"
  /\ req' = [req EXCEPT ![c] = r]
  /\ \/ /\ Row(r) = NoRow
        /\ NewRow(c, r) /\ Goto(c, "order")
     \/ /\ Row(r) # NoRow
        /\ Goto(c, "inspect") /\ keys' = keys
  /\ UNCHANGED <<tableVars, lock, seen, reply, lost>>

Inspect(c) ==
  /\ pc[c] = "inspect"
  /\ Goto(c, IF Row(req[c]) = NoRow THEN "order"
             ELSE IF Mine(req[c]) /\ Row(req[c]).done THEN "reread" ELSE "error")
  /\ UNCHANGED <<tableVars, keys, lock, req, seen, reply, lost>>

\* deleteIdempotencyHash of a handover that failed, by key alone.
Unclaim(c) ==
  /\ pc[c] = "unclaim"
  /\ keys' = [keys EXCEPT ![Key[req[c]]] = NoRow]
  /\ lost' = Lost(keys')
  /\ Goto(c, "error")
  /\ UNCHANGED <<tableVars, lock, req, seen, reply>>

Expired_Done(k) == keys[k].done /\ pc[keys[k].by] \in Ends

\* cleanup_expired_idempotency_keys: a row seven days old, when the call that
\* wrote it has long ended.
Expired(k) == keys[k] # NoRow /\ pc[keys[k].by] \in Ends

Sweep(k) ==
  /\ Expired(k)
  /\ keys' = [keys EXCEPT ![k] = NoRow]
  /\ lost' = Lost(keys')
  /\ UNCHANGED <<tableVars, lock, pc, req, seen, reply>>

-----------------------------------------------------------------------------
(* The transaction.                                                        *)

Free(x) == lock[x] = NoCall

LocksRoute_No(c) == FALSE

\* The rows a delivery's SELECT ... FOR UPDATE OF s, o, r locks after the order.
LocksRoute(c) == Service[req[c]] = "delivery"

Unlocked(c) == [x \in Orders \cup {Route} |-> IF lock[x] = c THEN NoCall ELSE lock[x]]

LockOrder(c) ==
  LET o == Of[req[c]] IN
  /\ pc[c] = "order" /\ Free(o)
  /\ lock' = [lock EXCEPT ![o] = c]
  /\ Goto(c, IF Service[req[c]] # "delivery" THEN "write"
             ELSE IF LocksRoute(c) THEN "route" ELSE "count")
  /\ UNCHANGED <<tableVars, keys, req, seen, reply, lost>>

LockRoute(c) ==
  /\ pc[c] = "route" /\ Free(Route)
  /\ lock' = [lock EXCEPT ![Route] = c]
  /\ Goto(c, "count")
  /\ UNCHANGED <<tableVars, keys, req, seen, reply, lost>>

Delivered == {o \in Orders : stop[o] = "delivered"}

\* refreshRouteProgress counts what is committed, and the call's own stop.
Count(c) ==
  /\ pc[c] = "count"
  /\ seen' = [seen EXCEPT ![c] = Cardinality(Delivered \cup {Of[req[c]]})]
  /\ Goto(c, "write")
  /\ UNCHANGED <<tableVars, keys, lock, req, reply, lost>>

Open(o) == {x \in release[o] : x.status = "released"}

Fresh(r) == version[Of[r]] = Expects[r]

\* The checks of a pickup, of a delivery, and of the engine.
MayHandOver(r) ==
  CASE Service[r] = "pickup" ->
         \/ /\ status[Of[r]] = "ready_for_pickup"
            /\ \E x \in Open(Of[r]) : x.type = "pickup"
         \/ status[Of[r]] = "ready" /\ r \notin Staged
    [] Service[r] = "delivery" -> stop[Of[r]] = "in_transit"
    [] OTHER -> TRUE

IsRelease(r) == Action[r] \in {"RELEASE_FOR_PICKUP", "RELEASE_FOR_DELIVERY"}

MayMove(r) ==
  /\ Fresh(r)
  /\ status[Of[r]] \in From[Action[r]]
  /\ Action[r] = "RESUME_ORDER_WORK" => holdFrom[Of[r]] # Nowhere
  /\ IsRelease(r) => Open(Of[r]) = {}

\* resolveOrderControlTransition overrides the edge's end for a resume.
Destination(r) ==
  IF Action[r] = "RESUME_ORDER_WORK" THEN holdFrom[Of[r]] ELSE To[Action[r]]

HoldFrom_NoReset(r) ==
  IF Action[r] = "HOLD_ORDER_WORK" THEN status[Of[r]] ELSE holdFrom[Of[r]]

HoldFrom(r) ==
  CASE Action[r] = "HOLD_ORDER_WORK" -> status[Of[r]]
    [] Action[r] \in {"RESUME_ORDER_WORK", "STOP_ORDER_WORK"} -> Nowhere
    [] OTHER -> holdFrom[Of[r]]

Fulfilled_InsertOnly(r) ==
  release[Of[r]] \cup {[type |-> "pickup", at |-> Expects[r] + 1, status |-> "fulfilled"]}

\* fulfilPickupReleases: the open release, or one written for the occasion.
Fulfilled(r) ==
  LET o    == Of[r]
      open == {x \in Open(o) : x.type = "pickup"}
  IN  IF open = {}
      THEN release[o] \cup {[type |-> "pickup", at |-> Expects[r] + 1, status |-> "fulfilled"]}
      ELSE (release[o] \ open) \cup {[x EXCEPT !.status = "fulfilled"] : x \in open}

Released(r) ==
  CASE Service[r] = "pickup" -> Fulfilled(r)
    [] Action[r] = "RELEASE_FOR_PICKUP" -> release[Of[r]] \cup
         {[type |-> "pickup", at |-> version[Of[r]] + 1, status |-> "released"]}
    [] Action[r] = "RELEASE_FOR_DELIVERY" -> release[Of[r]] \cup
         {[type |-> "delivery", at |-> version[Of[r]] + 1, status |-> "released"]}
    [] OTHER -> release[Of[r]]

Filed_NoCreate(c) ==
  [k \in Keys |-> IF k \in {EngineKey[req[c]], Key[req[c]]}
                  THEN [keys[k] EXCEPT !.done = TRUE] ELSE keys[k]]

\* The engine files its result under its key; a handover completes the row of
\* its own key if that is still there.
Filed(c) ==
  LET r == req[c] IN
  [k \in Keys |->
     IF k = EngineKey[r] \/ (k = Key[r] /\ keys[k] # NoRow)
     THEN [req |-> r, by |-> IF keys[k] = NoRow THEN c ELSE keys[k].by, done |-> TRUE]
     ELSE keys[k]]

\* What a failed transaction leaves to do.
AfterFailure(r) == IF Service[r] = "engine" THEN "error" ELSE "unclaim"

\* The COMMIT, whose acknowledgement may be lost.
Write(c) ==
  LET r == req[c] o == Of[req[c]] IN
  /\ pc[c] = "write" /\ MayHandOver(r) /\ MayMove(r)
  /\ status'    = [status EXCEPT ![o] = Destination(r)]
  /\ version'   = [version EXCEPT ![o] = @ + 1]
  /\ holdFrom'  = [holdFrom EXCEPT ![o] = HoldFrom(r)]
  /\ history'   = [history EXCEPT ![o] = @ \cup {[req |-> r, at |-> version[o] + 1]}]
  /\ release'   = [release EXCEPT ![o] = Released(r)]
  /\ stop'      = [stop EXCEPT ![o] = IF Service[r] = "delivery" THEN "delivered" ELSE @]
  /\ completed' = IF Service[r] = "delivery" THEN seen[c] ELSE completed
  /\ keys'      = Filed(c)
  /\ lost'      = Lost(keys')
  /\ reply'     = [reply EXCEPT ![c] = r]
  /\ lock'      = Unlocked(c)
  /\ \E place \in {"ok", AfterFailure(r)} : Goto(c, place)
  /\ UNCHANGED <<req, seen>>

\* A check that fails, a gate, missing evidence, a sum to collect, or the
\* database: nothing is written.
Abort(c) ==
  /\ pc[c] \in {"order", "route", "count", "write"}
  /\ lock' = Unlocked(c)
  /\ Goto(c, AfterFailure(req[c]))
  /\ UNCHANGED <<tableVars, keys, req, seen, reply, lost>>

\* The process dies; the database rolls back and unlocks.
Crash(c) ==
  /\ pc[c] \notin Ends
  /\ lock' = Unlocked(c)
  /\ Goto(c, "error")
  /\ UNCHANGED <<tableVars, keys, req, seen, reply, lost>>

-----------------------------------------------------------------------------
Step(c) ==
  \/ Reread(c) \/ Stake(c) \/ Verify(c) \/ Inspect(c) \/ Unclaim(c)
  \/ LockOrder(c) \/ LockRoute(c) \/ Count(c) \/ Write(c) \/ Abort(c)

Next ==
  \/ \E c \in Calls, r \in Requests : Find(c, r) \/ Claim(c, r)
  \/ \E c \in Calls : Step(c) \/ Crash(c)
  \/ \E k \in Keys : Sweep(k)

\* A call that has come in runs on, and the clean-up job runs every day.  No
\* call is made again, so it is enough that some call runs on.
Fairness ==
  /\ WF_vars(\E c \in Calls : Step(c))
  /\ WF_vars(\E k \in Keys : Sweep(k))

Spec     == Init /\ [][Next]_vars
FairSpec == Spec /\ Fairness

-----------------------------------------------------------------------------
Moved(o) == {h.req : h \in history[o]}

\* A caller told that an action was done finds it done: a reply, and a key row
\* with a result from which later replies are made, stand for a move that is
\* committed, whichever calls of the key failed, vanished or came late.  The
\* move is the caller's own, unless its key went to another payload between
\* the look-up that compares the payloads and the one that fetches the result.
RepliesAreTrue ==
  /\ \A c \in Calls : pc[c] = "ok" =>
       /\ reply[c] \in Moved(Of[reply[c]])
       /\ reply[c] # req[c] => c \in lost
  /\ \A k \in Keys : keys[k].done => keys[k].req \in Moved(Of[keys[k].req])

PickedUp(o) == \E h \in history[o] : Service[h.req] = "pickup"

\* CONFIRM_PICKUP sent to the engine, which the actions and transition routes
\* accept: the order is handed over, its release row stays open.
Bypassed(o) ==
  \E h \in history[o] : Service[h.req] = "engine" /\ Action[h.req] = "CONFIRM_PICKUP"

\* The release rows tell where an order is: one open pickup release while it
\* waits at the counter and none otherwise, unless it was handed over past the
\* pickup command; a fulfilled one when that command handed it over and none
\* otherwise; and nothing open while it is ready, so that the next release is
\* not refused.
ReleasesMatch ==
  \A o \in Orders :
    LET pickups == {x \in release[o] : x.type = "pickup"} IN
    /\ \A x, y \in pickups : x = y
    /\ status[o] = "ready_for_pickup" => pickups \cap Open(o) # {}
    /\ pickups \cap Open(o) # {} => status[o] = "ready_for_pickup" \/ Bypassed(o)
    /\ PickedUp(o) <=> pickups \ Open(o) # {}
    /\ status[o] = "ready" => Open(o) = {}

\* The route's counter is the number of its delivered stops, with two drivers
\* confirming two stops of it at once.
RouteCountsStops == completed = Cardinality(Delivered)

\* An order follows the action graph, one move per request (OrderLifecycle).
Lifecycle == INSTANCE OrderLifecycle
               WITH at <- status, held <- holdFrom,
                    moved <- [o \in Orders |-> Moved(o)]
RefinesLifecycle == Lifecycle!Spec

\* No key stays in flight: in the end its call has completed it or given it
\* back, or the clean-up job has removed what a dead call left.
InFlight(k) == keys[k] # NoRow /\ ~keys[k].done
ClaimsEnd   == <>[](\A k \in Keys : ~InFlight(k))
=============================================================================
