-------------------------- MODULE FulfilmentProofs --------------------------
(***************************************************************************)
(* Theorems about Fulfilment, for any orders, requests, keys and calls.    *)
(***************************************************************************)
EXTENDS Fulfilment, FiniteSetTheorems, TLAPS

\* A call that has come in has a request, and is where its service takes it.
ReqInv ==
  \A c \in Calls :
    /\ pc[c] # "idle" => req[c] \in Requests
    /\ pc[c] \in {"stake", "verify"} => Service[req[c]] = "engine"
    /\ pc[c] \in {"inspect", "unclaim"} => Service[req[c]] # "engine"
    /\ pc[c] \in {"route", "count"} => Service[req[c]] = "delivery"
    /\ pc[c] = "ok" => reply[c] \in Requests

\* What a call writes to is locked by it.
LockInv ==
  \A c \in Calls :
    /\ pc[c] \in {"route", "count", "write"} => lock[Of[req[c]]] = c
    /\ pc[c] \in {"count", "write"} /\ Service[req[c]] = "delivery" => lock[Route] = c

\* What a delivery counted stays true until it is written.
SeenInv ==
  \A c \in Calls :
    pc[c] = "write" /\ Service[req[c]] = "delivery" =>
      seen[c] = Cardinality(Delivered \cup {Of[req[c]]})

\* Each move of an order was made at the version its request expected.
HistoryInv ==
  \A o \in Orders : \A h \in history[o] :
    Of[h.req] = o /\ h.at = Expects[h.req] + 1 /\ h.at <= version[o]

\* An order remembers where it was held as long as it is held.
HoldInv ==
  \A o \in Orders :
    IF status[o] = "on_hold" THEN holdFrom[o] \in {"ready", "out_for_delivery"}
    ELSE holdFrom[o] = Nowhere

\* Between the look-ups of a call its key's row is its own, or it is known to
\* have lost it.
RereadInv ==
  \A c \in Calls : pc[c] = "reread" /\ c \notin lost => keys[Key[req[c]]].req = req[c]

CoreInv == TypeOK /\ ReqInv /\ LockInv /\ HoldInv
IInv    == CoreInv /\ HistoryInv /\ SeenInv /\ RereadInv /\ RepliesAreTrue /\ RouteCountsStops

LEMMA NoRowFacts == NoRow.done = FALSE /\ NoRow.req = NoRequest
BY DEF NoRow

LEMMA InitIInv == Init => IInv
<1> SUFFICES ASSUME Init PROVE IInv
  OBVIOUS
<1> USE OrderAssumption
<1>1. TypeOK
  BY DEF Init, TypeOK, Statuses, Places, Ends, Releases, NoRow, Out
<1>2. ReqInv /\ LockInv /\ HoldInv
  BY DEF Init, ReqInv, LockInv, HoldInv
<1>3. HistoryInv /\ SeenInv
  BY DEF Init, HistoryInv, SeenInv
<1>4. RepliesAreTrue
  BY DEF Init, RepliesAreTrue, NoRow
<1>6. RereadInv
  BY DEF Init, RereadInv
<1>5. RouteCountsStops
  <2>1. Delivered = {}
    BY DEF Init, Delivered, Out
  <2> QED
    BY <2>1, FS_EmptySet DEF Init, RouteCountsStops
<1> QED
  BY <1>1, <1>2, <1>3, <1>4, <1>5, <1>6 DEF IInv, CoreInv
-----------------------------------------------------------------------------
(* The core of the invariant.                                              *)

LEMMA Moves ==
  ASSUME TypeOK, HoldInv, NEW r \in Requests, MayMove(r)
  PROVE  /\ status[Of[r]] \in From[Action[r]]
         /\ Destination(r) \in Statuses
         /\ HoldFrom(r) \in Statuses \cup {Nowhere}
         /\ IF Destination(r) = "on_hold" THEN HoldFrom(r) \in {"ready", "out_for_delivery"}
            ELSE HoldFrom(r) = Nowhere
<1> USE OrderAssumption, RequestAssumption
<1>1. Of[r] \in Orders /\ Action[r] \in DOMAIN From
  OBVIOUS
<1>2. CASE Action[r] = "HOLD_ORDER_WORK"
  BY <1>1, <1>2 DEF MayMove, Destination, HoldFrom, From, To, Statuses, TypeOK, HoldInv
<1>3. CASE Action[r] = "RESUME_ORDER_WORK"
  BY <1>1, <1>3 DEF MayMove, Destination, HoldFrom, From, To, Statuses, TypeOK, HoldInv
<1>4. CASE Action[r] = "STOP_ORDER_WORK"
  BY <1>1, <1>4 DEF MayMove, Destination, HoldFrom, From, To, Statuses, TypeOK, HoldInv
<1>5. CASE Action[r] \in {"RELEASE_FOR_PICKUP", "RELEASE_FOR_DELIVERY"}
  BY <1>1, <1>5 DEF MayMove, Destination, HoldFrom, From, To, Statuses, TypeOK, HoldInv
<1>6. CASE Action[r] \in {"CONFIRM_PICKUP", "CONFIRM_DELIVERY"}
  BY <1>1, <1>6 DEF MayMove, Destination, HoldFrom, From, To, Statuses, TypeOK, HoldInv
<1> QED
  BY <1>1, <1>2, <1>3, <1>4, <1>5, <1>6 DEF From

LEMMA ReleaseTypes ==
  ASSUME TypeOK, NEW r \in Requests
  PROVE  Released(r) \in SUBSET Releases
<1> USE OrderAssumption, RequestAssumption
<1>1. /\ Of[r] \in Orders /\ release[Of[r]] \in SUBSET Releases
      /\ version[Of[r]] + 1 \in Nat /\ Expects[r] + 1 \in Nat
  BY DEF TypeOK
<1>2. Fulfilled(r) \in SUBSET Releases
  BY <1>1 DEF Fulfilled, Open, Releases
<1> QED
  BY <1>1, <1>2 DEF Released, Releases

LEMMA RowTypes ==
  ASSUME TypeOK, NEW c \in Calls, NEW r \in Requests, NewRow(c, r)
  PROVE  keys' \in [Keys -> {NoRow} \cup [req : Requests, by : Calls, done : BOOLEAN]]
<1> DEFINE new == [req |-> r, by |-> c, done |-> FALSE]
           T   == {NoRow} \cup [req : Requests, by : Calls, done : BOOLEAN]
<1>1. new \in T
  OBVIOUS
<1>2. keys \in [Keys -> T] /\ keys' = [keys EXCEPT ![Key[r]] = new]
  BY DEF TypeOK, NewRow
<1> HIDE DEF new, T
<1>3. keys' \in [Keys -> T]
  BY <1>1, <1>2
<1> QED
  BY <1>3 DEF T

LEMMA CountTypes ==
  ASSUME NEW o \in Orders
  PROVE  Cardinality(Delivered \cup {o}) \in Nat
<1>1. Delivered \cup {o} \subseteq Orders
  BY DEF Delivered
<1>2. IsFiniteSet(Delivered \cup {o})
  BY <1>1, FS_Subset, OrderAssumption
<1> QED
  BY <1>2, FS_CardinalityType

LEMMA WriteTypes ==
  ASSUME CoreInv, NEW c \in Calls, Write(c)
  PROVE  TypeOK'
<1> USE OrderAssumption, RequestAssumption, KeyAssumption DEF CoreInv
<1> DEFINE r == req[c]
           o == Of[r]
<1>1. r \in Requests /\ o \in Orders
  BY DEF Write, ReqInv
<1>2. MayMove(r)
  BY DEF Write
<1>3. /\ Destination(r) \in Statuses /\ HoldFrom(r) \in Statuses \cup {Nowhere}
      /\ Released(r) \in SUBSET Releases
  BY <1>1, <1>2, Moves, ReleaseTypes
<1>4. status' \in [Orders -> Statuses] /\ version' \in [Orders -> Nat]
  BY <1>1, <1>3 DEF Write, TypeOK
<1>5. holdFrom' \in [Orders -> Statuses \cup {Nowhere}]
  BY <1>1, <1>3 DEF Write, TypeOK
<1>6. history' \in [Orders -> SUBSET [req : Requests, at : Nat]]
  <2>1. version[o] + 1 \in Nat /\ history[o] \in SUBSET [req : Requests, at : Nat]
    BY <1>1 DEF TypeOK
  <2>2. history[o] \cup {[req |-> r, at |-> version[o] + 1]} \in SUBSET [req : Requests, at : Nat]
    BY <1>1, <2>1
  <2> QED
    BY <1>1, <2>2 DEF Write, TypeOK
<1>7. release' \in [Orders -> SUBSET Releases]
  BY <1>1, <1>3 DEF Write, TypeOK
<1>8. stop' \in [Orders -> {"none", "in_transit", "delivered"}] /\ completed' \in Nat
  BY <1>1 DEF Write, TypeOK
<1>9. keys' \in [Keys -> {NoRow} \cup [req : Requests, by : Calls, done : BOOLEAN]]
  <2> SUFFICES ASSUME NEW k \in Keys
               PROVE  Filed(c)[k] \in {NoRow} \cup [req : Requests, by : Calls, done : BOOLEAN]
    BY DEF Write, Filed
  <2>1. keys[k] \in {NoRow} \cup [req : Requests, by : Calls, done : BOOLEAN]
    BY DEF TypeOK
  <2> QED
    BY <1>1, <2>1 DEF Filed
<1>10. lock' \in [Orders \cup {Route} -> Calls \cup {NoCall}]
  BY DEF Write, TypeOK, Unlocked
<1>11. pc' \in [Calls -> Places]
  BY DEF Write, Goto, AfterFailure, TypeOK, Places, Ends
<1>12. reply' \in [Calls -> Requests \cup {NoRequest}] /\ lost' \in SUBSET Calls
  BY <1>1 DEF Write, TypeOK, Lost
<1> QED
  BY <1>4, <1>5, <1>6, <1>7, <1>8, <1>9, <1>10, <1>11, <1>12 DEF TypeOK, Write

LEMMA WriteHolds ==
  ASSUME CoreInv, NEW c \in Calls, Write(c)
  PROVE  HoldInv'
<1> USE OrderAssumption, RequestAssumption DEF CoreInv
<1>1. req[c] \in Requests /\ Of[req[c]] \in Orders /\ MayMove(req[c])
  BY DEF Write, ReqInv
<1>2. IF Destination(req[c]) = "on_hold" THEN HoldFrom(req[c]) \in {"ready", "out_for_delivery"}
      ELSE HoldFrom(req[c]) = Nowhere
  BY <1>1, Moves
<1> QED
  BY <1>1, <1>2 DEF Write, TypeOK, HoldInv

LEMMA StepCore == ASSUME CoreInv, [Next]_vars PROVE CoreInv'
<1> USE OrderAssumption, RequestAssumption, KeyAssumption, CallAssumption DEF CoreInv
<1>1. ASSUME NEW c \in Calls, NEW r \in Requests, Find(c, r)
      PROVE  CoreInv'
  <2>1. TypeOK'
    BY <1>1 DEF Find, Row, Mine, Goto, tableVars, TypeOK, ReqInv, Places, Ends, Delivered
  <2>2. ReqInv'
    BY <1>1 DEF Find, Row, Mine, Goto, TypeOK, ReqInv
  <2>3. LockInv'
    BY <1>1 DEF Find, Row, Mine, Goto, TypeOK, ReqInv, LockInv
  <2>4. HoldInv'
    BY <1>1 DEF Find, Row, Mine, Goto, tableVars, HoldInv
  <2> QED
    BY <2>1, <2>2, <2>3, <2>4
<1>2. ASSUME NEW c \in Calls, NEW r \in Requests, Claim(c, r)
      PROVE  CoreInv'
  <2>1. TypeOK'
    <3>1. keys' \in [Keys -> {NoRow} \cup [req : Requests, by : Calls, done : BOOLEAN]]
      BY <1>2, RowTypes DEF Claim, TypeOK
    <3> QED
      BY <1>2, <3>1 DEF Claim, Goto, tableVars, TypeOK, Places, Ends
  <2>2. ReqInv'
    BY <1>2 DEF Claim, Row, NewRow, Goto, TypeOK, ReqInv
  <2>3. LockInv'
    BY <1>2 DEF Claim, Row, NewRow, Goto, TypeOK, ReqInv, LockInv
  <2>4. HoldInv'
    BY <1>2 DEF Claim, Row, NewRow, Goto, tableVars, HoldInv
  <2> QED
    BY <2>1, <2>2, <2>3, <2>4
<1>3. ASSUME NEW c \in Calls, Stake(c)
      PROVE  CoreInv'
  <2>1. TypeOK'
    <3>1. keys' \in [Keys -> {NoRow} \cup [req : Requests, by : Calls, done : BOOLEAN]]
      BY <1>3, RowTypes DEF Stake, TypeOK, ReqInv
    <3> QED
      BY <1>3, <3>1 DEF Stake, Goto, tableVars, TypeOK, Places, Ends
  <2>2. ReqInv'
    BY <1>3 DEF Stake, Row, NewRow, Goto, TypeOK, ReqInv
  <2>3. LockInv'
    BY <1>3 DEF Stake, Row, NewRow, Goto, TypeOK, ReqInv, LockInv
  <2>4. HoldInv'
    BY <1>3 DEF Stake, Row, NewRow, Goto, tableVars, HoldInv
  <2> QED
    BY <2>1, <2>2, <2>3, <2>4
<1>4. ASSUME NEW c \in Calls, Verify(c)
      PROVE  CoreInv'
  <2>1. TypeOK'
    BY <1>4 DEF Verify, Row, Mine, Goto, tableVars, TypeOK, ReqInv, Places, Ends, Delivered
  <2>2. ReqInv'
    BY <1>4 DEF Verify, Row, Mine, Goto, TypeOK, ReqInv
  <2>3. LockInv'
    BY <1>4 DEF Verify, Row, Mine, Goto, TypeOK, ReqInv, LockInv
  <2>4. HoldInv'
    BY <1>4 DEF Verify, Row, Mine, Goto, tableVars, HoldInv
  <2> QED
    BY <2>1, <2>2, <2>3, <2>4
<1>5. ASSUME NEW c \in Calls, Inspect(c)
      PROVE  CoreInv'
  <2>1. TypeOK'
    BY <1>5 DEF Inspect, Row, Mine, Goto, tableVars, TypeOK, ReqInv, Places, Ends, Delivered
  <2>2. ReqInv'
    BY <1>5 DEF Inspect, Row, Mine, Goto, TypeOK, ReqInv
  <2>3. LockInv'
    BY <1>5 DEF Inspect, Row, Mine, Goto, TypeOK, ReqInv, LockInv
  <2>4. HoldInv'
    BY <1>5 DEF Inspect, Row, Mine, Goto, tableVars, HoldInv
  <2> QED
    BY <2>1, <2>2, <2>3, <2>4
<1>6. ASSUME NEW c \in Calls, Unclaim(c)
      PROVE  CoreInv'
  <2>1. TypeOK'
    BY <1>6 DEF Unclaim, Lost, Goto, tableVars, TypeOK, ReqInv, Places, Ends, Delivered
  <2>2. ReqInv'
    BY <1>6 DEF Unclaim, Goto, TypeOK, ReqInv
  <2>3. LockInv'
    BY <1>6 DEF Unclaim, Goto, TypeOK, ReqInv, LockInv
  <2>4. HoldInv'
    BY <1>6 DEF Unclaim, Goto, tableVars, HoldInv
  <2> QED
    BY <2>1, <2>2, <2>3, <2>4
<1>7. ASSUME NEW c \in Calls, LockOrder(c)
      PROVE  CoreInv'
  <2>1. TypeOK'
    BY <1>7 DEF LockOrder, Free, LocksRoute, Goto, tableVars, TypeOK, ReqInv, Places, Ends, Delivered
  <2>2. ReqInv'
    BY <1>7 DEF LockOrder, Free, LocksRoute, Goto, TypeOK, ReqInv
  <2>3. LockInv'
    BY <1>7 DEF LockOrder, Free, LocksRoute, Goto, TypeOK, ReqInv, LockInv
  <2>4. HoldInv'
    BY <1>7 DEF LockOrder, Free, LocksRoute, Goto, tableVars, HoldInv
  <2> QED
    BY <2>1, <2>2, <2>3, <2>4
<1>8. ASSUME NEW c \in Calls, LockRoute(c)
      PROVE  CoreInv'
  <2>1. TypeOK'
    BY <1>8 DEF LockRoute, Free, Goto, tableVars, TypeOK, ReqInv, Places, Ends, Delivered
  <2>2. ReqInv'
    BY <1>8 DEF LockRoute, Free, Goto, TypeOK, ReqInv
  <2>3. LockInv'
    BY <1>8 DEF LockRoute, Free, Goto, TypeOK, ReqInv, LockInv
  <2>4. HoldInv'
    BY <1>8 DEF LockRoute, Free, Goto, tableVars, HoldInv
  <2> QED
    BY <2>1, <2>2, <2>3, <2>4
<1>9. ASSUME NEW c \in Calls, Count(c)
      PROVE  CoreInv'
  <2>1. TypeOK'
    <3>1. Cardinality(Delivered \cup {Of[req[c]]}) \in Nat
      BY <1>9, CountTypes DEF Count, ReqInv
    <3> QED
      BY <1>9, <3>1 DEF Count, Goto, tableVars, TypeOK, Places, Ends
  <2>2. ReqInv'
    BY <1>9 DEF Count, Goto, TypeOK, ReqInv
  <2>3. LockInv'
    BY <1>9 DEF Count, Goto, TypeOK, ReqInv, LockInv
  <2>4. HoldInv'
    BY <1>9 DEF Count, Goto, tableVars, HoldInv
  <2> QED
    BY <2>1, <2>2, <2>3, <2>4
<1>10. ASSUME NEW c \in Calls, Write(c)
      PROVE  CoreInv'
  <2>1. TypeOK'
    BY <1>10, WriteTypes
  <2>2. ReqInv'
    BY <1>10 DEF Write, Goto, AfterFailure, TypeOK, ReqInv
  <2>3. LockInv'
    BY <1>10 DEF Write, Goto, AfterFailure, Unlocked, TypeOK, LockInv, ReqInv
  <2>4. HoldInv'
    BY <1>10, WriteHolds
  <2> QED
    BY <2>1, <2>2, <2>3, <2>4
<1>11. ASSUME NEW c \in Calls, Abort(c)
      PROVE  CoreInv'
  <2>1. TypeOK'
    BY <1>11 DEF Abort, AfterFailure, Unlocked, Goto, tableVars, TypeOK, ReqInv, Places, Ends, Delivered
  <2>2. ReqInv'
    BY <1>11 DEF Abort, AfterFailure, Unlocked, Goto, TypeOK, ReqInv
  <2>3. LockInv'
    BY <1>11 DEF Abort, AfterFailure, Unlocked, Goto, TypeOK, ReqInv, LockInv
  <2>4. HoldInv'
    BY <1>11 DEF Abort, AfterFailure, Unlocked, Goto, tableVars, HoldInv
  <2> QED
    BY <2>1, <2>2, <2>3, <2>4
<1>12. ASSUME NEW c \in Calls, Crash(c)
      PROVE  CoreInv'
  <2>1. TypeOK'
    BY <1>12 DEF Crash, Unlocked, Goto, tableVars, TypeOK, ReqInv, Places, Ends, Delivered
  <2>2. ReqInv'
    BY <1>12 DEF Crash, Ends, Goto, TypeOK, ReqInv
  <2>3. LockInv'
    BY <1>12 DEF Crash, Unlocked, Goto, TypeOK, ReqInv, LockInv
  <2>4. HoldInv'
    BY <1>12 DEF Crash, Unlocked, Goto, tableVars, HoldInv
  <2> QED
    BY <2>1, <2>2, <2>3, <2>4
<1>13. ASSUME NEW k \in Keys, Sweep(k)
      PROVE  CoreInv'
  BY <1>13 DEF Sweep, Lost, tableVars, TypeOK, ReqInv, LockInv, HoldInv
<1>15. ASSUME NEW c \in Calls, Reread(c)
      PROVE  CoreInv'
  <2>0. pc[c] = "reread" /\ req[c] \in Requests /\ keys' = keys
    BY <1>15 DEF Reread, ReqInv
  <2>1. TypeOK'
    <3>1. keys[Key[req[c]]].done => keys[Key[req[c]]].req \in Requests
      BY <2>0, NoRowFacts DEF TypeOK
    <3>2. reply' \in [Calls -> Requests \cup {NoRequest}]
      BY <1>15, <3>1 DEF Reread, Row, TypeOK
    <3> QED
      BY <1>15, <3>2 DEF Reread, Goto, tableVars, TypeOK, Places, Ends
  <2>2. ReqInv'
    <3>1. keys[Key[req[c]]].done => keys[Key[req[c]]].req \in Requests
      BY <2>0, NoRowFacts DEF TypeOK
    <3> QED
      BY <1>15, <2>0, <3>1 DEF Reread, Row, Goto, TypeOK, ReqInv
  <2>3. LockInv'
    BY <1>15 DEF Reread, Goto, TypeOK, LockInv
  <2>4. HoldInv'
    BY <1>15 DEF Reread, tableVars, HoldInv
  <2> QED
    BY <2>1, <2>2, <2>3, <2>4
<1>14. CASE UNCHANGED vars
  BY <1>14 DEF vars, TypeOK, ReqInv, LockInv, HoldInv
<1> QED
  BY <1>1, <1>2, <1>3, <1>4, <1>5, <1>6, <1>7, <1>8, <1>9, <1>10, <1>11, <1>12, <1>13, <1>14, <1>15 DEF Next, Step

-----------------------------------------------------------------------------
(* What a commit does, and what every other step leaves alone.             *)

LEMMA OnlyWrites ==
  ASSUME [Next]_vars
  PROVE  UNCHANGED tableVars \/ \E c \in Calls : Write(c)
BY DEF Next, Step, vars, tableVars, Find, Claim, Reread, Stake, Verify, Inspect, Unclaim,
       LockOrder, LockRoute, Count, Abort, Crash, Sweep

LEMMA Writes ==
  ASSUME CoreInv, NEW c \in Calls, Write(c)
  PROVE  /\ req[c] \in Requests /\ Of[req[c]] \in Orders
         /\ version[Of[req[c]]] = Expects[req[c]]
         /\ version' = [version EXCEPT ![Of[req[c]]] = @ + 1]
         /\ history' = [history EXCEPT ![Of[req[c]]] =
                          @ \cup {[req |-> req[c], at |-> version[Of[req[c]]] + 1]}]
         /\ lock[Of[req[c]]] = c
         /\ Service[req[c]] = "delivery" => lock[Route] = c
BY RequestAssumption DEF CoreInv, Write, ReqInv, LockInv, MayMove, Fresh

LEMMA StepHistory == ASSUME CoreInv, HistoryInv, [Next]_vars PROVE HistoryInv'
<1>1. CASE UNCHANGED tableVars
  BY <1>1 DEF tableVars, HistoryInv
<1>2. ASSUME NEW c \in Calls, Write(c) PROVE HistoryInv'
  <2> SUFFICES ASSUME NEW o \in Orders, NEW h \in history'[o]
               PROVE  Of[h.req] = o /\ h.at = Expects[h.req] + 1 /\ h.at <= version'[o]
    BY DEF HistoryInv
  <2>1. version \in [Orders -> Nat] /\ history \in [Orders -> SUBSET [req : Requests, at : Nat]]
    BY DEF CoreInv, TypeOK
  <2>2. CASE h \in history[o]
    BY <1>2, <2>1, <2>2, Writes DEF HistoryInv
  <2>3. CASE h \notin history[o]
    <3>1. o = Of[req[c]] /\ h = [req |-> req[c], at |-> version[o] + 1]
      BY <1>2, <2>1, <2>3, Writes
    <3> QED
      BY <1>2, <2>1, <3>1, Writes
  <2> QED
    BY <2>2, <2>3
<1> QED
  BY <1>1, <1>2, OnlyWrites

\* The requests that have moved an order after a step.
MovedThen(o) == {h.req : h \in history'[o]}

LEMMA MovedGrows ==
  ASSUME CoreInv, [Next]_vars
  PROVE  /\ \A o \in Orders : Moved(o) \subseteq MovedThen(o)
         /\ \A c \in Calls : Write(c) => req[c] \in MovedThen(Of[req[c]])
<1>1. CASE UNCHANGED tableVars /\ ~ \E c \in Calls : Write(c)
  BY <1>1 DEF tableVars, Moved, MovedThen
<1>2. ASSUME NEW c \in Calls, Write(c)
      PROVE  /\ \A o \in Orders : Moved(o) \subseteq MovedThen(o)
             /\ req[c] \in MovedThen(Of[req[c]])
  <2>1. history \in [Orders -> SUBSET [req : Requests, at : Nat]]
    BY DEF CoreInv, TypeOK
  <2>2. \A o \in Orders : history[o] \subseteq history'[o]
    BY <1>2, <2>1, Writes
  <2>3. [req |-> req[c], at |-> version[Of[req[c]]] + 1] \in history'[Of[req[c]]]
    BY <1>2, <2>1, Writes
  <2>4. \A o \in Orders : Moved(o) \subseteq MovedThen(o)
    BY <2>2 DEF Moved, MovedThen
  <2>5. req[c] \in {h.req : h \in history'[Of[req[c]]]}
    BY <2>3
  <2> QED
    BY <2>4, <2>5 DEF MovedThen
<1> QED
  BY <1>1, <1>2, OnlyWrites

-----------------------------------------------------------------------------
(* Replies.                                                                *)

\* A row with a result has a request.
LEMMA DoneRows ==
  ASSUME TypeOK, NEW k \in Keys, keys[k].done
  PROVE  keys[k].req \in Requests
BY NoRowFacts DEF TypeOK

\* What takes a key's row from a call between its look-ups is noticed.
LEMMA StepReread == ASSUME CoreInv, RereadInv, [Next]_vars PROVE RereadInv'
<1> USE RequestAssumption, KeyAssumption
<1>0. TypeOK /\ ReqInv
  BY DEF CoreInv
<1>1. ASSUME \A d \in Calls : pc'[d] = "reread" => pc[d] = "reread" /\ req'[d] = req[d],
             \A d \in Calls : pc[d] = "reread" /\ d \notin lost' =>
                 d \notin lost /\ keys'[Key[req[d]]].req = keys[Key[req[d]]].req
      PROVE  RereadInv'
  BY <1>1 DEF RereadInv
<1>2. ASSUME lost' = Lost(keys'),
             \A d \in Calls : pc'[d] = "reread" => pc[d] = "reread" /\ req'[d] = req[d]
      PROVE  RereadInv'
  BY <1>2 DEF RereadInv, Lost
<1>3. ASSUME NEW c \in Calls, NEW r \in Requests, Find(c, r)
      PROVE  RereadInv'
  <2>1. /\ keys' = keys /\ lost' = lost /\ req'[c] = r
        /\ \A d \in Calls \ {c} : pc'[d] = pc[d] /\ req'[d] = req[d]
    BY <1>0, <1>3 DEF Find, Goto, TypeOK
  <2>2. pc'[c] = "reread" => keys[Key[r]].req = r
    BY <1>0, <1>3 DEF Find, Row, Mine, Goto, TypeOK
  <2> QED
    BY <2>1, <2>2 DEF RereadInv
<1>4. ASSUME NEW c \in Calls, Inspect(c)
      PROVE  RereadInv'
  <2>1. /\ keys' = keys /\ lost' = lost /\ req' = req
        /\ \A d \in Calls \ {c} : pc'[d] = pc[d]
    BY <1>0, <1>4 DEF Inspect, Goto, TypeOK
  <2>2. pc'[c] = "reread" => keys[Key[req[c]]].req = req[c]
    BY <1>0, <1>4 DEF Inspect, Row, Mine, Goto, TypeOK
  <2> QED
    BY <2>1, <2>2 DEF RereadInv
\* A key that is new to a call was nobody's.
<1>5. ASSUME NEW c \in Calls, NEW r \in Requests, Row(r) = NoRow, NewRow(c, r), lost' = lost,
             \A d \in Calls : pc'[d] = "reread" => pc[d] = "reread" /\ req'[d] = req[d]
      PROVE  RereadInv'
  <2> SUFFICES ASSUME NEW d \in Calls, pc[d] = "reread", d \notin lost
               PROVE  keys'[Key[req[d]]] = keys[Key[req[d]]]
    BY <1>1, <1>5
  <2>1. req[d] \in Requests /\ keys[Key[req[d]]].req = req[d]
    BY <1>0 DEF RereadInv, ReqInv
  <2>2. keys[Key[req[d]]] # NoRow
    BY <2>1, NoRowFacts
  <2> QED
    BY <1>0, <1>5, <2>1, <2>2 DEF NewRow, Row, TypeOK
<1>6. ASSUME NEW c \in Calls, NEW r \in Requests, Claim(c, r)
      PROVE  RereadInv'
  <2>1. lost' = lost /\ \A d \in Calls : pc'[d] = "reread" => pc[d] = "reread" /\ req'[d] = req[d]
    BY <1>0, <1>6 DEF Claim, Goto, TypeOK
  <2>2. keys' = keys \/ (Row(r) = NoRow /\ NewRow(c, r))
    BY <1>6 DEF Claim
  <2> QED
    BY <1>1, <1>5, <2>1, <2>2
<1>7. ASSUME NEW c \in Calls, Stake(c)
      PROVE  RereadInv'
  <2>1. /\ lost' = lost /\ req[c] \in Requests
        /\ \A d \in Calls : pc'[d] = "reread" => pc[d] = "reread" /\ req'[d] = req[d]
    BY <1>0, <1>7 DEF Stake, Goto, TypeOK, ReqInv
  <2>2. keys' = keys \/ (Row(req[c]) = NoRow /\ NewRow(c, req[c]))
    BY <1>7 DEF Stake
  <2> QED
    BY <1>1, <1>5, <2>1, <2>2
<1>8. ASSUME NEW c \in Calls, Unclaim(c) \/ Write(c)
      PROVE  RereadInv'
  BY <1>0, <1>2, <1>8 DEF Unclaim, Write, AfterFailure, Goto, TypeOK
<1>9. ASSUME NEW c \in Calls, \/ Reread(c) \/ Verify(c) \/ LockOrder(c) \/ LockRoute(c) \/ Count(c)
                             \/ Abort(c) \/ Crash(c)
      PROVE  RereadInv'
  <2>1. keys' = keys /\ lost' = lost /\ req' = req
    BY <1>9 DEF Reread, Verify, LockOrder, LockRoute, Count, Abort, Crash
  <2>2. \A d \in Calls : pc'[d] = "reread" => pc[d] = "reread"
    BY <1>0, <1>9 DEF Reread, Verify, LockOrder, LocksRoute, LockRoute, Count, Abort, Crash,
                      AfterFailure, Goto, TypeOK
  <2> QED
    BY <1>1, <2>1, <2>2
<1>10. ASSUME NEW k \in Keys, Sweep(k)
       PROVE  RereadInv'
  BY <1>2, <1>10 DEF Sweep
<1>11. CASE UNCHANGED vars
  BY <1>11 DEF vars, RereadInv
<1> QED
  BY <1>3, <1>4, <1>6, <1>7, <1>8, <1>9, <1>10, <1>11 DEF Next, Step

LEMMA StepReplies == ASSUME CoreInv, RereadInv, RepliesAreTrue, [Next]_vars PROVE RepliesAreTrue'
<1> USE RequestAssumption, KeyAssumption
<1>0. /\ \A r \in Requests : Moved(Of[r]) \subseteq MovedThen(Of[r])
      /\ \A c \in Calls : Write(c) => req[c] \in MovedThen(Of[req[c]])
      /\ TypeOK /\ ReqInv
  BY MovedGrows DEF CoreInv
<1>a. ASSUME \A c \in Calls : pc'[c] = "ok" =>
                 \/ pc[c] = "ok" /\ req'[c] = req[c] /\ reply'[c] = reply[c]
                 \/ /\ reply'[c] \in Requests /\ reply'[c] \in MovedThen(Of[reply'[c]])
                    /\ reply'[c] # req'[c] => c \in lost',
             lost \subseteq lost',
             \A k \in Keys : keys'[k].done =>
                 \/ keys'[k] = keys[k]
                 \/ keys'[k].req \in Requests /\ keys'[k].req \in MovedThen(Of[keys'[k].req])
      PROVE  RepliesAreTrue'
  <2>1. \A c \in Calls : pc'[c] = "ok" => reply'[c] \in MovedThen(Of[reply'[c]])
    BY <1>0, <1>a DEF RepliesAreTrue, ReqInv
  <2>2. \A c \in Calls : pc'[c] = "ok" /\ reply'[c] # req'[c] => c \in lost'
    BY <1>0, <1>a DEF RepliesAreTrue
  <2>3. \A k \in Keys : keys'[k].done => keys'[k].req \in MovedThen(Of[keys'[k].req])
    BY <1>0, <1>a, DoneRows DEF RepliesAreTrue
  <2>4. \A c \in Calls : pc'[c] = "ok" => reply'[c] \in {h.req : h \in history'[Of[reply'[c]]]}
    BY <2>1 DEF MovedThen
  <2>5. \A k \in Keys : keys'[k].done => keys'[k].req \in {h.req : h \in history'[Of[keys'[k].req]]}
    BY <2>3 DEF MovedThen
  <2> QED
    BY <2>2, <2>4, <2>5 DEF RepliesAreTrue, Moved
\* A step that answers nobody and files nothing.
<1>b. ASSUME \A d \in Calls : pc'[d] = "ok" => pc[d] = "ok" /\ req'[d] = req[d],
             reply' = reply, lost \subseteq lost',
             \A k \in Keys : keys'[k].done => keys'[k] = keys[k]
      PROVE  RepliesAreTrue'
  BY <1>a, <1>b
<1>1. ASSUME NEW c \in Calls, NEW r \in Requests, Find(c, r) \/ Claim(c, r)
      PROVE  RepliesAreTrue'
  <2>1. \A k \in Keys : keys'[k].done => keys'[k] = keys[k]
    BY <1>1, <1>0 DEF Find, Claim, NewRow, TypeOK
  <2>2. /\ \A d \in Calls : pc'[d] = "ok" => pc[d] = "ok" /\ req'[d] = req[d]
        /\ reply' = reply /\ lost' = lost
    BY <1>1, <1>0 DEF Find, Claim, Goto, TypeOK
  <2> QED
    BY <1>b, <2>1, <2>2
<1>2. ASSUME NEW c \in Calls, Reread(c)
      PROVE  RepliesAreTrue'
  <2>1. keys' = keys /\ lost' = lost /\ req' = req /\ pc[c] = "reread" /\ req[c] \in Requests
    BY <1>2, <1>0 DEF Reread, ReqInv
  <2>2. \A d \in Calls \ {c} : pc'[d] = pc[d] /\ reply'[d] = reply[d]
    BY <1>2, <1>0 DEF Reread, Goto, TypeOK
  <2>3. pc'[c] = "ok" => keys[Key[req[c]]].done /\ reply'[c] = keys[Key[req[c]]].req
    BY <1>2, <1>0 DEF Reread, Row, Goto, TypeOK
  <2>4. pc'[c] = "ok" => reply'[c] \in Requests /\ reply'[c] \in MovedThen(Of[reply'[c]])
    BY <1>0, <2>1, <2>3, DoneRows DEF RepliesAreTrue
  <2>5. pc'[c] = "ok" /\ reply'[c] # req'[c] => c \in lost'
    BY <2>1, <2>3 DEF RereadInv
  <2> QED
    BY <1>a, <2>1, <2>2, <2>4, <2>5
<1>3. ASSUME NEW c \in Calls, Write(c)
      PROVE  RepliesAreTrue'
  <2>1. req[c] \in Requests /\ req[c] \in MovedThen(Of[req[c]]) /\ req' = req
    BY <1>3, <1>0 DEF Write, ReqInv
  <2>2. \A k \in Keys : keys'[k] = keys[k] \/ keys'[k].req = req[c]
    BY <1>3 DEF Write, Filed
  <2>3. reply'[c] = req[c] /\ \A d \in Calls \ {c} : pc'[d] = pc[d] /\ reply'[d] = reply[d]
    BY <1>3, <1>0 DEF Write, Goto, TypeOK
  <2>4. lost \subseteq lost'
    BY <1>3 DEF Write, Lost
  <2> QED
    BY <1>a, <2>1, <2>2, <2>3, <2>4
<1>4. ASSUME NEW c \in Calls, Stake(c)
      PROVE  RepliesAreTrue'
  <2>1. (\A k \in Keys : keys'[k].done => keys'[k] = keys[k]) /\ reply' = reply /\ lost \subseteq lost'
    BY <1>4, <1>0, NoRowFacts DEF Stake, Row, NewRow, Goto, TypeOK, ReqInv
  <2>2. \A d \in Calls : pc'[d] = "ok" => pc[d] = "ok" /\ req'[d] = req[d]
    BY <1>4, <1>0 DEF Stake, Row, NewRow, Goto, TypeOK, ReqInv
  <2> QED
    BY <1>b, <2>1, <2>2
<1>5. ASSUME NEW c \in Calls, Verify(c)
      PROVE  RepliesAreTrue'
  <2>1. (\A k \in Keys : keys'[k].done => keys'[k] = keys[k]) /\ reply' = reply /\ lost \subseteq lost'
    BY <1>5, <1>0, NoRowFacts DEF Verify, Goto, TypeOK
  <2>2. \A d \in Calls : pc'[d] = "ok" => pc[d] = "ok" /\ req'[d] = req[d]
    BY <1>5, <1>0 DEF Verify, Goto, TypeOK
  <2> QED
    BY <1>b, <2>1, <2>2
<1>6. ASSUME NEW c \in Calls, Inspect(c)
      PROVE  RepliesAreTrue'
  <2>1. (\A k \in Keys : keys'[k].done => keys'[k] = keys[k]) /\ reply' = reply /\ lost \subseteq lost'
    BY <1>6, <1>0, NoRowFacts DEF Inspect, Goto, TypeOK
  <2>2. \A d \in Calls : pc'[d] = "ok" => pc[d] = "ok" /\ req'[d] = req[d]
    BY <1>6, <1>0 DEF Inspect, Goto, TypeOK
  <2> QED
    BY <1>b, <2>1, <2>2
<1>7. ASSUME NEW c \in Calls, Unclaim(c)
      PROVE  RepliesAreTrue'
  <2>1. (\A k \in Keys : keys'[k].done => keys'[k] = keys[k]) /\ reply' = reply /\ lost \subseteq lost'
    BY <1>7, <1>0, NoRowFacts DEF Unclaim, Lost, Goto, TypeOK
  <2>2. \A d \in Calls : pc'[d] = "ok" => pc[d] = "ok" /\ req'[d] = req[d]
    BY <1>7, <1>0 DEF Unclaim, Lost, Goto, TypeOK
  <2> QED
    BY <1>b, <2>1, <2>2
<1>8. ASSUME NEW c \in Calls, LockOrder(c)
      PROVE  RepliesAreTrue'
  <2>1. (\A k \in Keys : keys'[k].done => keys'[k] = keys[k]) /\ reply' = reply /\ lost \subseteq lost'
    BY <1>8, <1>0, NoRowFacts DEF LockOrder, LocksRoute, Goto, TypeOK
  <2>2. \A d \in Calls : pc'[d] = "ok" => pc[d] = "ok" /\ req'[d] = req[d]
    BY <1>8, <1>0 DEF LockOrder, LocksRoute, Goto, TypeOK
  <2> QED
    BY <1>b, <2>1, <2>2
<1>9. ASSUME NEW c \in Calls, LockRoute(c)
      PROVE  RepliesAreTrue'
  <2>1. (\A k \in Keys : keys'[k].done => keys'[k] = keys[k]) /\ reply' = reply /\ lost \subseteq lost'
    BY <1>9, <1>0, NoRowFacts DEF LockRoute, Goto, TypeOK
  <2>2. \A d \in Calls : pc'[d] = "ok" => pc[d] = "ok" /\ req'[d] = req[d]
    BY <1>9, <1>0 DEF LockRoute, Goto, TypeOK
  <2> QED
    BY <1>b, <2>1, <2>2
<1>10. ASSUME NEW c \in Calls, Count(c)
      PROVE  RepliesAreTrue'
  <2>1. (\A k \in Keys : keys'[k].done => keys'[k] = keys[k]) /\ reply' = reply /\ lost \subseteq lost'
    BY <1>10, <1>0, NoRowFacts DEF Count, Goto, TypeOK
  <2>2. \A d \in Calls : pc'[d] = "ok" => pc[d] = "ok" /\ req'[d] = req[d]
    BY <1>10, <1>0 DEF Count, Goto, TypeOK
  <2> QED
    BY <1>b, <2>1, <2>2
<1>11. ASSUME NEW c \in Calls, Abort(c)
      PROVE  RepliesAreTrue'
  <2>1. (\A k \in Keys : keys'[k].done => keys'[k] = keys[k]) /\ reply' = reply /\ lost \subseteq lost'
    BY <1>11, <1>0, NoRowFacts DEF Abort, AfterFailure, Goto, TypeOK
  <2>2. \A d \in Calls : pc'[d] = "ok" => pc[d] = "ok" /\ req'[d] = req[d]
    BY <1>11, <1>0 DEF Abort, AfterFailure, Goto, TypeOK
  <2> QED
    BY <1>b, <2>1, <2>2
<1>12. ASSUME NEW c \in Calls, Crash(c)
      PROVE  RepliesAreTrue'
  <2>1. (\A k \in Keys : keys'[k].done => keys'[k] = keys[k]) /\ reply' = reply /\ lost \subseteq lost'
    BY <1>12, <1>0, NoRowFacts DEF Crash, Goto, TypeOK
  <2>2. \A d \in Calls : pc'[d] = "ok" => pc[d] = "ok" /\ req'[d] = req[d]
    BY <1>12, <1>0 DEF Crash, Goto, TypeOK
  <2> QED
    BY <1>b, <2>1, <2>2
<1>13. ASSUME NEW k \in Keys, Sweep(k)
      PROVE  RepliesAreTrue'
  <2>1. \A j \in Keys : keys'[j].done => keys'[j] = keys[j]
    BY <1>13, <1>0, NoRowFacts DEF Sweep, TypeOK
  <2>2. pc' = pc /\ req' = req /\ reply' = reply /\ lost \subseteq lost'
    BY <1>13 DEF Sweep, Lost
  <2> QED
    BY <1>b, <2>1, <2>2
<1>14. CASE UNCHANGED vars
  BY <1>14 DEF vars, RepliesAreTrue, Moved
<1> QED
  BY <1>1, <1>2, <1>3, <1>4, <1>5, <1>6, <1>7, <1>8, <1>9, <1>10, <1>11, <1>12, <1>13, <1>14 DEF Next, Step

-----------------------------------------------------------------------------
(* The route.                                                              *)

\* Two deliveries cannot hold the route, so nobody delivers a stop between
\* the count of another delivery and its commit.
LEMMA StepSeen == ASSUME CoreInv, SeenInv, [Next]_vars PROVE SeenInv'
<1> USE OrderAssumption, RequestAssumption, CallAssumption
<1> SUFFICES ASSUME NEW d \in Calls, pc'[d] = "write", Service[req'[d]] = "delivery"
             PROVE  seen'[d] = Cardinality(Delivered' \cup {Of[req'[d]]})
  BY DEF SeenInv, Delivered
<1>0. TypeOK /\ ReqInv /\ LockInv
  BY DEF CoreInv
<1>1. CASE Count(d)
  <2>1. seen'[d] = Cardinality(Delivered \cup {Of[req[d]]}) /\ req' = req /\ stop' = stop
    BY <1>0, <1>1 DEF Count, tableVars, TypeOK
  <2> QED
    BY <2>1 DEF Delivered
<1>2. ASSUME pc[d] = "write", req'[d] = req[d], seen'[d] = seen[d], stop' = stop
      PROVE  seen'[d] = Cardinality(Delivered' \cup {Of[req'[d]]})
  BY <1>2 DEF SeenInv, Delivered
<1>3. ASSUME NEW c \in Calls, Write(c)
      PROVE  seen'[d] = Cardinality(Delivered' \cup {Of[req'[d]]})
  <2>1. d # c /\ pc[d] = "write" /\ req'[d] = req[d] /\ seen' = seen
    BY <1>0, <1>3 DEF Write, Goto, AfterFailure, TypeOK
  <2>2. lock[Route] = d
    BY <1>0, <2>1 DEF LockInv
  <2>3. Service[req[c]] # "delivery"
    BY <1>3, <2>1, <2>2, Writes
  <2>4. stop' = stop
    BY <1>0, <1>3, <2>3 DEF Write, TypeOK
  <2> QED
    BY <1>2, <2>1, <2>4
<1>4. ASSUME NEW c \in Calls, Step(c), ~Write(c), ~Count(d)
      PROVE  pc[d] = "write" /\ req'[d] = req[d] /\ seen'[d] = seen[d] /\ stop' = stop
  <2>1. CASE Count(c)
    BY <1>0, <1>4, <2>1 DEF Count, Goto, tableVars, TypeOK
  <2>2. CASE LockOrder(c)
    BY <1>0, <1>4, <2>2 DEF LockOrder, LocksRoute, Goto, tableVars, TypeOK
  <2>3. CASE Reread(c) \/ Stake(c) \/ Verify(c) \/ Inspect(c) \/ Unclaim(c) \/ LockRoute(c) \/ Abort(c)
    BY <1>0, <2>3 DEF Reread, Stake, Verify, Inspect, Unclaim, LockRoute, Abort, AfterFailure, Goto,
                      tableVars, TypeOK
  <2> QED
    BY <1>4, <2>1, <2>2, <2>3 DEF Step
<1>5. ASSUME NEW c \in Calls, NEW r \in Requests, Find(c, r) \/ Claim(c, r)
      PROVE  pc[d] = "write" /\ req'[d] = req[d] /\ seen'[d] = seen[d] /\ stop' = stop
  BY <1>0, <1>5 DEF Find, Claim, Goto, tableVars, TypeOK
<1>6. ASSUME NEW c \in Calls, Crash(c)
      PROVE  pc[d] = "write" /\ req'[d] = req[d] /\ seen'[d] = seen[d] /\ stop' = stop
  BY <1>0, <1>6 DEF Crash, Goto, tableVars, TypeOK
<1>7. ASSUME NEW k \in Keys, Sweep(k)
      PROVE  pc[d] = "write" /\ req'[d] = req[d] /\ seen'[d] = seen[d] /\ stop' = stop
  BY <1>7 DEF Sweep, tableVars
<1>8. CASE UNCHANGED vars
  BY <1>2, <1>8 DEF vars
<1> QED
  BY <1>1, <1>2, <1>3, <1>4, <1>5, <1>6, <1>7, <1>8 DEF Next

LEMMA StepRoute == ASSUME CoreInv, SeenInv, RouteCountsStops, [Next]_vars PROVE RouteCountsStops'
<1> USE RequestAssumption
<1>1. CASE UNCHANGED tableVars
  BY <1>1 DEF tableVars, RouteCountsStops, Delivered
<1>2. ASSUME NEW c \in Calls, Write(c) PROVE RouteCountsStops'
  <2>1. req[c] \in Requests /\ Of[req[c]] \in Orders /\ stop \in [Orders -> {"none", "in_transit", "delivered"}]
    BY <1>2, Writes DEF CoreInv, TypeOK
  <2>2. CASE Service[req[c]] = "delivery"
    <3>1. stop' = [stop EXCEPT ![Of[req[c]]] = "delivered"] /\ completed' = seen[c]
      BY <1>2, <2>2 DEF Write
    <3>2. Delivered' = Delivered \cup {Of[req[c]]}
      BY <2>1, <3>1 DEF Delivered
    <3>3. seen[c] = Cardinality(Delivered \cup {Of[req[c]]})
      BY <1>2, <2>2 DEF Write, SeenInv
    <3> QED
      BY <3>1, <3>2, <3>3 DEF RouteCountsStops
  <2>3. CASE Service[req[c]] # "delivery"
    <3>1. stop' = stop /\ completed' = completed
      BY <1>2, <2>1, <2>3 DEF Write
    <3> QED
      BY <3>1 DEF RouteCountsStops, Delivered
  <2> QED
    BY <2>2, <2>3
<1> QED
  BY <1>1, <1>2, OnlyWrites

-----------------------------------------------------------------------------
\* The core of the argument: IInv holds in every reachable state.
THEOREM Invariance == Spec => []IInv
<1>1. Init => IInv
  BY InitIInv
<1>2. IInv /\ [Next]_vars => IInv'
  BY StepCore, StepHistory, StepSeen, StepReread, StepReplies, StepRoute DEF IInv
<1> QED
  BY <1>1, <1>2, PTL DEF Spec

\* Every variable keeps its type, whatever the calls do.
THEOREM TypeCorrect == Spec => []TypeOK
<1>1. IInv => TypeOK
  BY DEF IInv, CoreInv
<1> QED
  BY <1>1, Invariance, PTL

\* A success that is answered, or filed to be answered again, is committed:
\* for any calls, keys and payloads, and any crash, give-back or clean-up.
THEOREM Truth == Spec => []RepliesAreTrue
<1>1. IInv => RepliesAreTrue
  BY DEF IInv
<1> QED
  BY <1>1, Invariance, PTL

\* completed_stops of the route is exact for any number of drivers.
THEOREM RouteExact == Spec => []RouteCountsStops
<1>1. IInv => RouteCountsStops
  BY DEF IInv
<1> QED
  BY <1>1, Invariance, PTL

-----------------------------------------------------------------------------
(* Releases.                                                               *)

Pickups(o) == {x \in release[o] : x.type = "pickup"}

ReleaseInv ==
  \A o \in Orders :
    /\ \A x, y \in Pickups(o) : x = y
    /\ status[o] = "ready_for_pickup" => Pickups(o) \cap Open(o) # {}
    /\ Pickups(o) \cap Open(o) # {} => status[o] = "ready_for_pickup" \/ Bypassed(o)
    /\ PickedUp(o) <=> Pickups(o) \ Open(o) # {}
    /\ status[o] = "ready" \/ holdFrom[o] = "ready" => Open(o) = {}
    /\ status[o] \in {"ready", "on_hold", "out_for_delivery", "stopped"} => Pickups(o) = {}

LEMMA InitReleases == Init => ReleaseInv
<1> SUFFICES ASSUME Init, NEW o \in Orders
             PROVE  /\ Pickups(o) = {} /\ ~PickedUp(o)
                    /\ status[o] \in {"ready", "out_for_delivery"} /\ holdFrom[o] = Nowhere
                    /\ status[o] = "ready" => Open(o) = {}
  BY OrderAssumption DEF ReleaseInv, Statuses
<1>1. Pickups(o) = {}
  BY DEF Init, Pickups
<1>2. ~PickedUp(o) /\ status[o] \in {"ready", "out_for_delivery"} /\ holdFrom[o] = Nowhere
  BY OrderAssumption DEF Init, PickedUp
<1>3. status[o] = "ready" => Open(o) = {}
  BY DEF Init, Open, Out
<1> QED
  BY <1>1, <1>2, <1>3

\* The same sets after a step, for an order named before it.
PickupsThen(o)  == {x \in release'[o] : x.type = "pickup"}
OpenThen(o)     == {x \in release'[o] : x.status = "released"}
PickedUpThen(o) == \E h \in history'[o] : Service[h.req] = "pickup"
BypassedThen(o) ==
  \E h \in history'[o] : Service[h.req] = "engine" /\ Action[h.req] = "CONFIRM_PICKUP"

LEMMA WriteReleases ==
  ASSUME CoreInv, ReleaseInv, NEW c \in Calls, Write(c)
  PROVE  ReleaseInv'
<1> USE OrderAssumption, RequestAssumption
<1> DEFINE r == req[c]
           o == Of[r]
<1>1. r \in Requests /\ o \in Orders /\ Action[r] \in DOMAIN From
  BY DEF CoreInv, ReqInv, Write
<1>2. /\ TypeOK /\ HoldInv /\ MayMove(r) /\ MayHandOver(r)
      /\ status[o] \in From[Action[r]]
  BY DEF CoreInv, Write, MayMove
<1>3. /\ status'[o] = Destination(r) /\ holdFrom'[o] = HoldFrom(r)
      /\ release'[o] = Released(r)
      /\ history'[o] = history[o] \cup {[req |-> r, at |-> version[o] + 1]}
  BY <1>1, <1>2 DEF Write, TypeOK
<1>4. ASSUME NEW p \in Orders, p # o
      PROVE  /\ status'[p] = status[p] /\ holdFrom'[p] = holdFrom[p]
             /\ release'[p] = release[p] /\ history'[p] = history[p]
  BY <1>1, <1>2, <1>4 DEF Write, TypeOK
<1>5. /\ PickedUpThen(o) <=> PickedUp(o) \/ Service[r] = "pickup"
      /\ Service[r] = "engine" /\ Action[r] = "CONFIRM_PICKUP" => BypassedThen(o)
  <2> DEFINE h == [req |-> r, at |-> version[o] + 1]
  <2>1. h.req = r /\ history'[o] = history[o] \cup {h}
    BY <1>3
  <2> HIDE DEF h
  <2> QED
    BY <2>1 DEF PickedUp, PickedUpThen, BypassedThen
<1>6. /\ \A x, y \in Pickups(o) : x = y
      /\ status[o] = "ready_for_pickup" => Pickups(o) \cap Open(o) # {}
      /\ PickedUp(o) <=> Pickups(o) \ Open(o) # {}
      /\ status[o] = "ready" \/ holdFrom[o] = "ready" => Open(o) = {}
      /\ status[o] \in {"ready", "on_hold", "out_for_delivery", "stopped"} => Pickups(o) = {}
  BY <1>1 DEF ReleaseInv
<1> DEFINE Goal == /\ \A x, y \in PickupsThen(o) : x = y
                   /\ status'[o] = "ready_for_pickup" => PickupsThen(o) \cap OpenThen(o) # {}
                   /\ PickupsThen(o) \cap OpenThen(o) # {} => status'[o] = "ready_for_pickup" \/ BypassedThen(o)
                   /\ PickedUpThen(o) <=> PickupsThen(o) \ OpenThen(o) # {}
                   /\ status'[o] = "ready" \/ holdFrom'[o] = "ready" => OpenThen(o) = {}
                   /\ status'[o] \in {"ready", "on_hold", "out_for_delivery", "stopped"}
                        => PickupsThen(o) = {}
<1>7. ASSUME NEW p \in Orders, p # o
       PROVE  /\ PickupsThen(p) = Pickups(p) /\ OpenThen(p) = Open(p)
              /\ PickedUpThen(p) <=> PickedUp(p)
              /\ BypassedThen(p) <=> Bypassed(p)
  BY <1>4, <1>7 DEF Pickups, PickupsThen, Open, OpenThen, PickedUp, PickedUpThen, Bypassed, BypassedThen
<1>8. SUFFICES Goal
  <2> SUFFICES ASSUME NEW p \in Orders
               PROVE  /\ \A x, y \in PickupsThen(p) : x = y
                      /\ status'[p] = "ready_for_pickup" => PickupsThen(p) \cap OpenThen(p) # {}
                      /\ PickupsThen(p) \cap OpenThen(p) # {} => status'[p] = "ready_for_pickup" \/ BypassedThen(p)
                      /\ PickedUpThen(p) <=> PickupsThen(p) \ OpenThen(p) # {}
                      /\ status'[p] = "ready" \/ holdFrom'[p] = "ready" => OpenThen(p) = {}
                      /\ status'[p] \in {"ready", "on_hold", "out_for_delivery", "stopped"}
                           => PickupsThen(p) = {}
    BY DEF ReleaseInv, Pickups, PickupsThen, Open, OpenThen, PickedUp, PickedUpThen, Bypassed, BypassedThen
  <2>1. CASE p = o
    BY <1>8, <2>1
  <2>2. CASE p # o
    BY <1>4, <1>7, <2>2 DEF ReleaseInv
  <2> QED
    BY <2>1, <2>2
<1>9. CASE Service[r] = "pickup"
  <2>1. /\ Action[r] = "CONFIRM_PICKUP" /\ status'[o] = "delivered" /\ holdFrom'[o] = Nowhere
        /\ release'[o] = Fulfilled(r)
    BY <1>1, <1>2, <1>3, <1>9 DEF Destination, HoldFrom, Released, To, From, HoldInv
  <2>2. CASE \E x \in Open(o) : x.type = "pickup"
    <3>1. PICK x \in Open(o) : x.type = "pickup"
      BY <2>2
    <3>2. x \in Pickups(o) /\ x \in Releases /\ x.status = "released"
      BY <1>1, <1>2, <3>1 DEF Open, Pickups, TypeOK
    <3>3. Pickups(o) = {x} /\ {y \in Open(o) : y.type = "pickup"} = {x}
      BY <1>6, <3>1, <3>2 DEF Open, Pickups
    <3> DEFINE z == [x EXCEPT !.status = "fulfilled"]
    <3>4. z.type = "pickup" /\ z.status = "fulfilled"
      BY <3>1, <3>2 DEF Releases
    <3>5. release'[o] = (release[o] \ {x}) \cup {z}
      BY <2>1, <3>3 DEF Fulfilled
    <3> HIDE DEF z
    <3>6. PickupsThen(o) = {z} /\ z \notin OpenThen(o)
      BY <3>3, <3>4, <3>5 DEF Pickups, PickupsThen, OpenThen
    <3> QED
      BY <1>5, <1>9, <2>1, <3>6 DEF Statuses
  <2>3. CASE ~ \E x \in Open(o) : x.type = "pickup"
    <3>1. status[o] = "ready" /\ Pickups(o) = {}
      BY <1>2, <1>6, <1>9, <2>3 DEF MayHandOver
    <3> DEFINE z == [type |-> "pickup", at |-> Expects[r] + 1, status |-> "fulfilled"]
    <3>2. release'[o] = release[o] \cup {z}
      BY <2>1, <2>3 DEF Fulfilled
    <3>3. z.type = "pickup" /\ z.status = "fulfilled"
      OBVIOUS
    <3> HIDE DEF z
    <3>4. PickupsThen(o) = {z} /\ z \notin OpenThen(o)
      BY <3>1, <3>2, <3>3 DEF Pickups, PickupsThen, OpenThen
    <3> QED
      BY <1>5, <1>9, <2>1, <3>4 DEF Statuses
  <2> QED
    BY <2>2, <2>3
<1>10. CASE Service[r] # "pickup" /\ Action[r] \in {"RELEASE_FOR_PICKUP", "RELEASE_FOR_DELIVERY"}
  <2>1. status[o] = "ready" /\ Pickups(o) = {} /\ Open(o) = {} /\ ~PickedUp(o)
    BY <1>2, <1>6, <1>10 DEF From
  <2>2. status'[o] = To[Action[r]] /\ holdFrom'[o] = Nowhere
    BY <1>1, <1>2, <1>3, <1>10, <2>1 DEF Destination, HoldFrom, HoldInv
  <2>3. CASE Action[r] = "RELEASE_FOR_PICKUP"
    <3> DEFINE z == [type |-> "pickup", at |-> version[o] + 1, status |-> "released"]
    <3>1. release'[o] = release[o] \cup {z} /\ status'[o] = "ready_for_pickup"
      BY <1>3, <1>10, <2>2, <2>3 DEF Released, To
    <3>2. z.type = "pickup" /\ z.status = "released"
      OBVIOUS
    <3> HIDE DEF z
    <3>3. PickupsThen(o) = {z} /\ z \in OpenThen(o)
      BY <2>1, <3>1, <3>2 DEF Pickups, PickupsThen, OpenThen
    <3> QED
      BY <1>5, <1>10, <2>1, <2>2, <3>1, <3>3 DEF Statuses
  <2>4. CASE Action[r] = "RELEASE_FOR_DELIVERY"
    <3> DEFINE z == [type |-> "delivery", at |-> version[o] + 1, status |-> "released"]
    <3>1. release'[o] = release[o] \cup {z} /\ status'[o] = "out_for_delivery"
      BY <1>3, <1>10, <2>2, <2>4 DEF Released, To
    <3>2. z.type = "delivery"
      OBVIOUS
    <3> HIDE DEF z
    <3>3. PickupsThen(o) = {}
      BY <2>1, <3>1, <3>2 DEF Pickups, PickupsThen
    <3> QED
      BY <1>5, <1>10, <2>1, <2>2, <3>1, <3>3 DEF Statuses
  <2> QED
    BY <1>10, <2>3, <2>4
<1>11. CASE Service[r] # "pickup" /\ Action[r] \notin {"RELEASE_FOR_PICKUP", "RELEASE_FOR_DELIVERY"}
  <2>1. release'[o] = release[o]
    BY <1>3, <1>11 DEF Released
  <2>2. PickupsThen(o) = Pickups(o) /\ OpenThen(o) = Open(o) /\ (PickedUpThen(o) <=> PickedUp(o))
    BY <1>5, <1>11, <2>1 DEF Pickups, PickupsThen, Open, OpenThen
  \* Past the pickup command.
  <2>3. CASE Action[r] = "CONFIRM_PICKUP"
    <3>1. Service[r] = "engine"
      BY <1>1, <1>11, <2>3
    <3>2. status'[o] = "delivered" /\ holdFrom'[o] = Nowhere
      BY <1>1, <1>2, <1>3, <2>3 DEF Destination, HoldFrom, To, From, HoldInv
    <3> QED
      BY <1>5, <1>6, <2>2, <2>3, <3>1, <3>2, OrderAssumption DEF Statuses
  <2>4. CASE Action[r] # "CONFIRM_PICKUP"
    <3>1. status[o] \in {"ready", "on_hold", "out_for_delivery"} /\ Pickups(o) = {}
      BY <1>1, <1>2, <1>6, <1>11, <2>4 DEF From
    <3>2. /\ status'[o] # "ready_for_pickup"
          /\ status'[o] = "ready" \/ holdFrom'[o] = "ready"
               => status[o] = "ready" \/ holdFrom[o] = "ready"
      <4>1. CASE Action[r] = "HOLD_ORDER_WORK"
        BY <1>3, <4>1 DEF Destination, HoldFrom, To
      <4>2. CASE Action[r] = "RESUME_ORDER_WORK"
        BY <1>1, <1>2, <1>3, <4>2 DEF Destination, HoldFrom, HoldInv, From, MayMove, Statuses
      <4>3. CASE Action[r] = "STOP_ORDER_WORK"
        BY <1>3, <4>3 DEF Destination, HoldFrom, To, Statuses
      <4>4. CASE Action[r] = "CONFIRM_DELIVERY"
        BY <1>3, <4>4 DEF Destination, HoldFrom, To
      <4> QED
        BY <1>1, <1>11, <2>4, <4>1, <4>2, <4>3, <4>4 DEF From
    <3> QED
      BY <1>6, <2>2, <3>1, <3>2
  <2> QED
    BY <2>3, <2>4
<1> QED
  BY <1>9, <1>10, <1>11

LEMMA StepReleases == ASSUME CoreInv, ReleaseInv, [Next]_vars PROVE ReleaseInv'
<1>1. CASE UNCHANGED tableVars
  BY <1>1 DEF tableVars, ReleaseInv, Pickups, Open, PickedUp, Bypassed
<1> QED
  BY <1>1, WriteReleases, OnlyWrites

\* Release rows tell where an order is, for any requests: those that confirm a
\* pickup past the pickup command leave a row open, and nothing else does.
THEOREM ReleasesTell == Spec => []ReleasesMatch
<1>1. Init => ReleaseInv
  BY InitReleases
<1>2. IInv /\ ReleaseInv /\ [Next]_vars => ReleaseInv'
  BY StepReleases DEF IInv
<1>3. ReleaseInv => ReleasesMatch
  BY DEF ReleaseInv, ReleasesMatch, Pickups
<1> QED
  BY <1>1, <1>2, <1>3, Invariance, PTL DEF Spec

-----------------------------------------------------------------------------
(* The lifecycle.                                                          *)

LEMMA InitLifecycle == Init => Lifecycle!Init
<1> SUFFICES ASSUME Init PROVE Lifecycle!Init
  OBVIOUS
<1>1. [o \in Orders |-> Moved(o)] = [o \in Orders |-> {}]
  BY DEF Init, Moved
<1> QED
  BY <1>1 DEF Init, Lifecycle!Init

LEMMA WriteLifecycle ==
  ASSUME IInv, NEW c \in Calls, Write(c)
  PROVE  Lifecycle!Move(req[c])
<1> USE OrderAssumption, RequestAssumption
<1> DEFINE r == req[c]
           o == Of[r]
<1>1. r \in Requests /\ o \in Orders /\ MayMove(r) /\ status[o] \in From[Action[r]]
  BY DEF IInv, CoreInv, ReqInv, Write, MayMove
<1>2. TypeOK /\ HoldInv /\ HistoryInv /\ CoreInv
  BY DEF IInv, CoreInv
<1>3. r \notin Moved(o)
  <2> SUFFICES ASSUME NEW h \in history[o], h.req = r PROVE FALSE
    BY DEF Moved
  <2>1. h.at = Expects[r] + 1 /\ h.at <= version[o] /\ version[o] = Expects[r]
    BY <1>1, <1>2, Writes DEF HistoryInv
  <2> QED
    BY <1>1, <2>1
<1>4. Lifecycle!Destination(r) = Destination(r)
  BY DEF Lifecycle!Destination, Destination
<1>5. HoldFrom(r) = IF Action[r] = "HOLD_ORDER_WORK" THEN status[o] ELSE Nowhere
  <2>1. CASE Action[r] \in {"HOLD_ORDER_WORK", "RESUME_ORDER_WORK", "STOP_ORDER_WORK"}
    BY <2>1 DEF HoldFrom
  <2>2. CASE Action[r] \notin {"HOLD_ORDER_WORK", "RESUME_ORDER_WORK", "STOP_ORDER_WORK"}
    <3>1. Action[r] \in DOMAIN From
      BY <1>1
    <3>2. status[o] # "on_hold"
      BY <1>1, <2>2, <3>1 DEF From
    <3> QED
      BY <1>1, <1>2, <2>2, <3>2 DEF HoldFrom, HoldInv
  <2> QED
    BY <2>1, <2>2
<1>6. /\ status' = [status EXCEPT ![o] = Lifecycle!Destination(r)]
      /\ holdFrom' = [holdFrom EXCEPT ![o] =
                        IF Action[r] = "HOLD_ORDER_WORK" THEN status[o] ELSE Nowhere]
  BY <1>4, <1>5 DEF Write
<1>7. [p \in Orders |-> Moved(p)]' = [[p \in Orders |-> Moved(p)] EXCEPT ![o] = @ \cup {r}]
  <2>1. MovedThen(o) = Moved(o) \cup {r}
    <3> DEFINE h == [req |-> r, at |-> version[o] + 1]
    <3>1. h.req = r /\ history'[o] = history[o] \cup {h}
      BY <1>1, <1>2, Writes DEF TypeOK
    <3> HIDE DEF h
    <3> QED
      BY <3>1 DEF Moved, MovedThen
  <2>2. \A p \in Orders : p # o => MovedThen(p) = Moved(p)
    <3>1. \A p \in Orders : p # o => history'[p] = history[p]
      BY <1>1, <1>2, Writes DEF TypeOK
    <3> SUFFICES ASSUME NEW p \in Orders, p # o PROVE MovedThen(p) = Moved(p)
      OBVIOUS
    <3>2. history'[p] = history[p]
      BY <3>1
    <3> QED
      BY <3>2 DEF Moved, MovedThen
  <2>3. [p \in Orders |-> MovedThen(p)] = [[p \in Orders |-> Moved(p)] EXCEPT ![o] = @ \cup {r}]
    BY <1>1, <2>1, <2>2
  <2> QED
    BY <2>3 DEF Moved, MovedThen
<1> QED
  BY <1>1, <1>3, <1>6, <1>7 DEF Lifecycle!Move

LEMMA StepLifecycle ==
  ASSUME IInv, [Next]_vars
  PROVE  [Lifecycle!Next]_<<status, holdFrom, [o \in Orders |-> Moved(o)]>>
<1>1. CASE UNCHANGED tableVars
  <2>1. status' = status /\ holdFrom' = holdFrom /\ history' = history
    BY <1>1 DEF tableVars
  <2>2. [o \in Orders |-> Moved(o)]' = [o \in Orders |-> Moved(o)]
    BY <2>1 DEF Moved
  <2> QED
    BY <2>1, <2>2
<1>2. ASSUME NEW c \in Calls, Write(c) PROVE Lifecycle!Next
  <2>1. req[c] \in Requests
    BY <1>2, Writes DEF IInv
  <2> QED
    BY <1>2, <2>1, WriteLifecycle DEF Lifecycle!Next
<1> QED
  BY <1>1, <1>2, OnlyWrites

\* However calls are repeated, raced, crashed and retried after their key is
\* gone, an order follows the action graph and a request moves it at most once.
THEOREM Refinement == Spec => RefinesLifecycle
<1>1. Init => Lifecycle!Init
  BY InitLifecycle
<1>2. IInv /\ [Next]_vars => [Lifecycle!Next]_<<status, holdFrom, [o \in Orders |-> Moved(o)]>>
  BY StepLifecycle
<1> QED
  BY <1>1, <1>2, Invariance, PTL DEF Spec, RefinesLifecycle, Lifecycle!Spec

-----------------------------------------------------------------------------
(* Waiting                                                                 *)

\* A call at a SELECT ... FOR UPDATE of a row that another call has locked.
Waits(c) ==
  \/ pc[c] = "order" /\ ~Free(Of[req[c]])
  \/ pc[c] = "route" /\ ~Free(Route)

\* Of the calls that are in flight, one does not wait: the route is locked
\* after the order by everybody.
SomeoneGoesOn ==
  (\E c \in Calls : pc[c] \notin Ends) => \E c \in Calls : pc[c] \notin Ends /\ ~Waits(c)

\* A row is locked by a call in its transaction, past the statement that locks it.
HolderInv ==
  /\ \A o \in Orders : lock[o] # NoCall => pc[lock[o]] \in {"route", "count", "write"}
  /\ lock[Route] # NoCall => pc[lock[Route]] \in {"count", "write"}

LEMMA StepHolders == ASSUME CoreInv, HolderInv, [Next]_vars PROVE HolderInv'
<1> USE OrderAssumption, CallAssumption DEF CoreInv, TypeOK, Goto
\* A call that locks nothing stays where it is or goes on.
<1>1. ASSUME NEW c \in Calls, lock' = lock, \A d \in Calls \ {c} : pc'[d] = pc[d],
             pc[c] \in {"count", "write"} => pc'[c] \in {"count", "write"},
             pc[c] # "route"
      PROVE  HolderInv'
  BY <1>1 DEF HolderInv
<1>2. ASSUME NEW c \in Calls, lock' = Unlocked(c), \A d \in Calls \ {c} : pc'[d] = pc[d]
      PROVE  HolderInv'
  <2>1. \A x \in Orders \cup {Route} : lock'[x] # c /\ (lock'[x] # NoCall => lock'[x] = lock[x])
    BY <1>2 DEF Unlocked
  <2> QED
    BY <1>2, <2>1 DEF HolderInv
<1>3. ASSUME NEW c \in Calls, NEW r \in Requests, Find(c, r) \/ Claim(c, r)
      PROVE  HolderInv'
  BY <1>1, <1>3 DEF Find, Claim
<1>4. ASSUME NEW c \in Calls, \/ Reread(c) \/ Stake(c) \/ Verify(c) \/ Inspect(c)
                             \/ Unclaim(c) \/ Count(c)
      PROVE  HolderInv'
  BY <1>1, <1>4 DEF Reread, Stake, Verify, Inspect, Unclaim, Count
<1>5. ASSUME NEW c \in Calls, LockOrder(c)
      PROVE  HolderInv'
  <2>1. /\ pc[c] = "order" /\ lock' = [lock EXCEPT ![Of[req[c]]] = c] /\ Of[req[c]] \in Orders
        /\ pc'[c] \in {"write", "route"} /\ \A d \in Calls \ {c} : pc'[d] = pc[d]
    BY <1>5, RequestAssumption DEF LockOrder, LocksRoute, ReqInv
  <2> QED
    BY <2>1 DEF HolderInv
<1>6. ASSUME NEW c \in Calls, LockRoute(c)
      PROVE  HolderInv'
  BY <1>6 DEF LockRoute, HolderInv
<1>7. ASSUME NEW c \in Calls, Write(c) \/ Abort(c) \/ Crash(c)
      PROVE  HolderInv'
  BY <1>2, <1>7 DEF Write, Abort, Crash
<1>8. ASSUME (\E k \in Keys : Sweep(k)) \/ UNCHANGED vars
      PROVE  HolderInv'
  BY <1>8 DEF Sweep, vars, HolderInv
<1> QED
  BY <1>3, <1>4, <1>5, <1>6, <1>7, <1>8 DEF Next, Step

\* Calls of the engine and handovers never wait in a circle, however many of
\* them there are.
THEOREM NoCircle == Spec => []SomeoneGoesOn
<1>1. Init => HolderInv
  BY OrderAssumption DEF Init, HolderInv
<1>2. IInv /\ HolderInv => SomeoneGoesOn
  <2> SUFFICES ASSUME IInv, HolderInv, NEW c \in Calls, pc[c] \notin Ends
               PROVE  \E d \in Calls : pc[d] \notin Ends /\ ~Waits(d)
    BY DEF SomeoneGoesOn
  <2> USE DEF IInv, CoreInv, TypeOK, Ends
  \* Who holds the route waits for nothing.
  <2>1. CASE ~Free(Route)
    BY <2>1 DEF HolderInv, Free, Waits
  \* With the route free, who holds an order waits for nothing.
  <2>2. CASE Free(Route) /\ pc[c] = "order" /\ ~Free(Of[req[c]])
    <3>1. Of[req[c]] \in Orders
      BY <2>2, RequestAssumption DEF ReqInv
    <3> QED
      BY <2>2, <3>1 DEF HolderInv, Free, Waits
  <2>3. CASE Free(Route) /\ ~(pc[c] = "order" /\ ~Free(Of[req[c]]))
    BY <2>3 DEF Waits
  <2> QED
    BY <2>1, <2>2, <2>3
<1>3. IInv /\ HolderInv /\ [Next]_vars => HolderInv'
  BY StepHolders DEF IInv
<1> QED
  BY <1>1, <1>2, <1>3, Invariance, PTL DEF Spec
=============================================================================
