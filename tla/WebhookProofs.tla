---------------------------- MODULE WebhookProofs ----------------------------
(***************************************************************************)
(* Theorems about GatewayWebhook, for any legs, events, requests being     *)
(* served and bounds on faults and deaths.                                 *)
(***************************************************************************)
EXTENDS GatewayWebhook, TLAPS

\* Where the outcome of an event takes a leg, and where the leg has been.
Goal(e)    == IF Outcome[e] \in PaidOutcomes THEN "paid" ELSE "failed"
Reached(l) == {InitStatus[l]} \cup {log[l][i].to : i \in DOMAIN log[l]}
Real(e)    == LegOf[e] \in visible /\ \E s \in Reached(LegOf[e]) : Bucket(s) = Goal(e)
Pending(l) == Bucket(status[l]) = "pending"

Matched == {"resolve", "transition", "done", "error"}
Acting  == {"transition", "done", "error"}

\* What a request knows at each place, and that the row is its own to write:
\* MATCHED until it is done with it, or TRANSITIONED if it did not hear so.
Served(w) ==
  /\ pc[w] = "idle" <=> event[w] = NoEvent
  /\ pc[w] \in {"find", "verify"} => row[event[w]] = "RECEIVED"
  /\ pc[w] \in Matched =>
       /\ event[w] \in Authentic
       /\ row[event[w]] = "MATCHED" \/ (pc[w] = "error" /\ row[event[w]] = "TRANSITIONED")
  /\ pc[w] \in Matched \cup {"verify"} => LegOf[event[w]] \in visible /\ seen[w] \in Statuses
  /\ pc[w] \in Acting =>
       /\ action[w] = resolveTransitionAction(Outcome[event[w]], seen[w])
       /\ action[w] # NoAction
  /\ pc[w] = "done" => Real(event[w])

ServeInv == \A w \in Workers : Served(w)

\* No event is served by two requests.
OwnInv == \A v, w \in Workers : event[v] = event[w] /\ event[v] # NoEvent => v = w

\* A leg stands where its last flip took it, or where it was created.
LogInv == \A l \in Legs : status[l] \in Reached(l)

IInv == /\ TypeOK /\ ServeInv /\ OwnInv /\ LogInv
        /\ TransitionedIsReal /\ FlipsFollowEvents

-----------------------------------------------------------------------------
(* The legs                                                                *)

\* An action that an outcome resolves to leads where the outcome says.
LEMMA Resolved ==
  ASSUME NEW o, NEW s, resolveTransitionAction(o, s) # NoAction
  PROVE  LET a == resolveTransitionAction(o, s) IN
         /\ a \in Actions
         /\ Bucket(TargetStatus[a]) = IF o \in PaidOutcomes THEN "paid" ELSE "failed"
         /\ o = "PAYMENT_SUCCEEDED" => a = "VERIFY"
BY DEF resolveTransitionAction, NoAction, Actions, TargetStatus, Bucket, CompletedStatuses,
       PaidOutcomes

\* No edge of the graph leads back to a status that waits to be confirmed.
LEMMA Targets ==
  ASSUME NEW a \in Actions
  PROVE  TargetStatus[a] \in Statuses /\ Bucket(TargetStatus[a]) # "pending"
BY DEF Actions, TargetStatus, Statuses, Bucket, CompletedStatuses

\* What a transition leaves of the legs.
LEMMA LegStep ==
  ASSUME TypeOK, NEW r \in Requests, Ledger!Transition(r, NoLeg)
  PROVE  LET l == r.leg
             t == TargetStatus[r.action]
             f == [from |-> status[l], to |-> t, by |-> r, moved |-> NoLeg]
         IN /\ l \in Legs /\ r.action \in Actions /\ r.by \in Events \cup {Operator}
            /\ f \in Flip
            /\ status' = [status EXCEPT ![l] = t] /\ status'[l] = t
            /\ log' = [log EXCEPT ![l] = Append(log[l], f)]
            /\ log'[l] = Append(log[l], f)
            /\ \A k \in Legs \ {l} : log'[k] = log[k] /\ status'[k] = status[k]
<1> DEFINE l == r.leg
           t == TargetStatus[r.action]
           f == [from |-> status[l], to |-> t, by |-> r, moved |-> NoLeg]
<1>1. l \in Legs /\ r.action \in Actions /\ r.by \in Events \cup {Operator}
  BY DEF Requests
<1>2. Ledger!TargetStatus = TargetStatus
  BY DEF Ledger!TargetStatus, TargetStatus
<1>3. status' = [status EXCEPT ![l] = t] /\ log' = [log EXCEPT ![l] = Append(log[l], f)]
  BY <1>2 DEF Ledger!Transition
<1>4. t \in Statuses /\ status[l] \in Statuses
  BY <1>1, Targets DEF TypeOK
<1>5. f \in Flip
  BY <1>4 DEF Flip
<1> HIDE DEF l, t, f
<1>6. status'[l] = t /\ log'[l] = Append(log[l], f)
      /\ \A k \in Legs \ {l} : log'[k] = log[k] /\ status'[k] = status[k]
  BY <1>1, <1>3 DEF TypeOK
<1> QED
  BY <1>1, <1>3, <1>5, <1>6 DEF l, t, f

\* The flips of a leg after a transition are those before it and the new one.
LEMMA LogStep ==
  ASSUME NEW s \in Seq(Flip), NEW f \in Flip
  PROVE  /\ Append(s, f) \in Seq(Flip)
         /\ \A i \in DOMAIN s : i \in DOMAIN Append(s, f) /\ Append(s, f)[i] = s[i]
         /\ \A i \in DOMAIN Append(s, f) : i \in DOMAIN s \/ Append(s, f)[i] = f
         /\ \E i \in DOMAIN Append(s, f) : Append(s, f)[i] = f
<1>1. Len(s) + 1 \in DOMAIN Append(s, f) /\ Append(s, f)[Len(s) + 1] = f
  OBVIOUS
<1> QED
  BY <1>1

\* A transition made by an operator, or by an event that may make it, keeps
\* what the invariant says of the legs.
LEMMA LegsKept ==
  ASSUME TypeOK, LogInv, FlipsFollowEvents,
         NEW r \in Requests, Ledger!Transition(r, NoLeg),
         r.by \in Events => /\ r.by \in Authentic /\ LegOf[r.by] = r.leg
                            /\ Bucket(TargetStatus[r.action]) = Goal(r.by)
  PROVE  /\ status' \in [Legs -> Statuses] /\ log' \in [Legs -> Seq(Flip)]
         /\ \A l \in Legs : Reached(l) \subseteq Reached(l)'
         /\ TargetStatus[r.action] \in Reached(r.leg)'
         /\ \A l \in Legs : ~Pending(l) => ~Pending(l)'
         /\ LogInv' /\ FlipsFollowEvents'
<1> DEFINE k == r.leg
           t == TargetStatus[r.action]
           f == [from |-> status[k], to |-> t, by |-> r, moved |-> NoLeg]
<1>1. /\ k \in Legs /\ r.action \in Actions /\ f \in Flip
      /\ status' = [status EXCEPT ![k] = t] /\ status'[k] = t
      /\ log' = [log EXCEPT ![k] = Append(log[k], f)] /\ log'[k] = Append(log[k], f)
      /\ \A l \in Legs \ {k} : log'[l] = log[l] /\ status'[l] = status[l]
  BY LegStep
<1>2. t \in Statuses /\ Bucket(t) # "pending"
  BY <1>1, Targets
<1>3. log[k] \in Seq(Flip)
  BY <1>1 DEF TypeOK
<1>f. f.to = t /\ f.by = r
  OBVIOUS
<1> HIDE DEF k, t, f
<1>4. /\ log'[k] \in Seq(Flip)
      /\ \A i \in DOMAIN log[k] : i \in DOMAIN log'[k] /\ log'[k][i] = log[k][i]
      /\ \A i \in DOMAIN log'[k] : i \in DOMAIN log[k] \/ log'[k][i] = f
      /\ \E i \in DOMAIN log'[k] : log'[k][i] = f
  BY <1>1, <1>3, LogStep
<1>5. status' \in [Legs -> Statuses] /\ log' \in [Legs -> Seq(Flip)]
  <2>1. status' \in [Legs -> Statuses]
    BY <1>1, <1>2 DEF TypeOK
  <2>2. log' \in [Legs -> Seq(Flip)]
    BY <1>1, <1>4 DEF TypeOK
  <2> QED
    BY <2>1, <2>2
<1>6. ASSUME NEW l \in Legs
      PROVE  Reached(l) \subseteq Reached(l)'
  <2>1. CASE l = k
    <3>1. \A i \in DOMAIN log[k] : log[k][i].to \in {log'[k][j].to : j \in DOMAIN log'[k]}
      BY <1>4
    <3> QED
      BY <2>1, <3>1 DEF Reached
  <2>2. CASE l # k
    BY <1>1, <2>2 DEF Reached
  <2> QED
    BY <2>1, <2>2
<1>7. t \in Reached(k)'
  BY <1>4, <1>f DEF Reached
<1>8. ASSUME NEW l \in Legs, ~Pending(l)
      PROVE  ~Pending(l)'
  <2>1. CASE l = k
    BY <1>1, <1>2, <2>1 DEF Pending
  <2>2. CASE l # k
    BY <1>1, <1>8, <2>2 DEF Pending
  <2> QED
    BY <2>1, <2>2
<1>9. LogInv'
  <2> SUFFICES ASSUME NEW l \in Legs
               PROVE  status'[l] \in Reached(l)'
    BY DEF LogInv
  <2>1. CASE l = k
    BY <1>1, <1>7, <2>1
  <2>2. CASE l # k
    BY <1>1, <1>6, <2>2 DEF LogInv
  <2> QED
    BY <2>1, <2>2
<1>10. FlipsFollowEvents'
  <2> SUFFICES ASSUME NEW l \in Legs, NEW i \in DOMAIN log'[l], log'[l][i].by.by \in Events
               PROVE  /\ log'[l][i].by.by \in Authentic /\ LegOf[log'[l][i].by.by] = l
                      /\ Bucket(log'[l][i].to) = Goal(log'[l][i].by.by)
    BY DEF FlipsFollowEvents, Goal
  <2>1. CASE l = k /\ log'[l][i] = f
    BY <1>f, <2>1 DEF k, t
  <2>2. CASE l = k /\ i \in DOMAIN log[k]
    BY <1>1, <1>4, <2>2 DEF FlipsFollowEvents, Goal
  <2>3. CASE l # k
    BY <1>1, <2>3 DEF FlipsFollowEvents, Goal
  <2> QED
    BY <1>4, <2>1, <2>2, <2>3
<1> QED
  BY <1>5, <1>6, <1>7, <1>8, <1>9, <1>10 DEF k, t

-----------------------------------------------------------------------------
(* Every step                                                              *)

\* An event's request has an event, a leg and an action to send.
LEMMA Acts ==
  ASSUME IInv, NEW w \in Workers, pc[w] \in Acting
  PROVE  /\ event[w] \in Events /\ event[w] \in Authentic
         /\ LegOf[event[w]] \in Legs /\ LegOf[event[w]] \in visible
         /\ action[w] \in Actions
         /\ Bucket(TargetStatus[action[w]]) = Goal(event[w])
         /\ Outcome[event[w]] = "PAYMENT_SUCCEEDED" => action[w] = "VERIFY"
<1>1. Served(w) /\ TypeOK
  BY DEF IInv, ServeInv
<1>2. event[w] \in Events /\ event[w] \in Authentic /\ LegOf[event[w]] \in visible
  BY <1>1 DEF Served, TypeOK, Acting, Matched
<1>3. action[w] = resolveTransitionAction(Outcome[event[w]], seen[w]) /\ action[w] # NoAction
  BY <1>1 DEF Served
<1>4. /\ action[w] \in Actions
      /\ Bucket(TargetStatus[action[w]]) = Goal(event[w])
      /\ Outcome[event[w]] = "PAYMENT_SUCCEEDED" => action[w] = "VERIFY"
  BY <1>3, Resolved DEF Goal
<1> QED
  BY <1>1, <1>2, <1>4 DEF TypeOK

\* The transition of an event takes its leg where its outcome says.
LEMMA EventFlips ==
  ASSUME IInv, NEW w \in Workers, TransitionFlips(w)
  PROVE  /\ status' \in [Legs -> Statuses] /\ log' \in [Legs -> Seq(Flip)]
         /\ \A l \in Legs : Reached(l) \subseteq Reached(l)'
         /\ \A l \in Legs : ~Pending(l) => ~Pending(l)'
         /\ LogInv' /\ FlipsFollowEvents'
         /\ Real(event[w])' /\ ~Pending(LegOf[event[w]])'
<1>1. pc[w] \in Acting
  BY DEF TransitionFlips, Move, Acting
<1>2. /\ event[w] \in Events /\ event[w] \in Authentic
      /\ LegOf[event[w]] \in Legs /\ LegOf[event[w]] \in visible
      /\ action[w] \in Actions
      /\ Bucket(TargetStatus[action[w]]) = Goal(event[w])
  BY <1>1, Acts
<1>3. PICK r \in Requests : r = [leg |-> LegOf[event[w]], action |-> action[w], by |-> event[w]]
  BY <1>2 DEF Requests
<1>4. r.leg = LegOf[event[w]] /\ r.action = action[w] /\ r.by = event[w]
  BY <1>3
<1>5. Ledger!Transition(r, NoLeg) /\ event' = event /\ visible' = visible
  BY <1>3 DEF TransitionFlips
<1>6. r.by \in Authentic /\ LegOf[r.by] = r.leg
      /\ Bucket(TargetStatus[r.action]) = Goal(r.by)
  BY <1>2, <1>4
<1>7. TypeOK /\ LogInv /\ FlipsFollowEvents
  BY DEF IInv
<1> HIDE DEF IInv
<1>8. /\ status' \in [Legs -> Statuses] /\ log' \in [Legs -> Seq(Flip)]
      /\ \A l \in Legs : Reached(l) \subseteq Reached(l)'
      /\ TargetStatus[r.action] \in Reached(r.leg)'
      /\ \A l \in Legs : ~Pending(l) => ~Pending(l)'
      /\ LogInv' /\ FlipsFollowEvents'
  BY <1>5, <1>6, <1>7, LegsKept
<1>9. Real(event[w])'
  <2>1. LegOf[event'[w]] = r.leg /\ Goal(event[w])' = Goal(event[w])
    BY <1>4, <1>5 DEF Goal
  <2>2. Reached(LegOf[event[w]])' = Reached(r.leg)'
    BY <2>1 DEF Reached
  <2>3. Bucket(TargetStatus[r.action]) = Goal(event[w])'
    BY <1>2, <1>4, <2>1
  <2>4. LegOf[event'[w]] \in visible'
    BY <1>2, <1>5
  <2> QED
    BY <1>8, <2>2, <2>3, <2>4 DEF Real
<1>10. ~Pending(LegOf[event[w]])'
  <2>1. status'[r.leg] = TargetStatus[r.action]
    BY <1>5, <1>7, LegStep
  <2> QED
    BY <1>2, <1>4, <1>5, <2>1, Targets DEF Pending
<1> QED
  BY <1>8, <1>9, <1>10

\* Only an operator or an event moves a leg.
LEMMA Movers ==
  ASSUME [Next]_vars
  PROVE  \/ UNCHANGED legVars
         \/ \E l \in Legs, a \in Actions : OperatorTransition(l, a)
         \/ \E w \in Workers : TransitionFlips(w)
BY DEF Next, Serve, vars, legVars, CommitLeg, Receive, Duplicate, ReceiveThrows, FindLeg,
       Unmatched, AcceptSignature, RejectSignature, Resolve, Unsupported, TransitionNoOp,
       TransitionThrows, RecordTransitioned, RecordError, StatementThrows, Unhandled, Crash

\* No step breaks what the invariant says of the legs.
LEMMA StepLegs ==
  ASSUME IInv, [Next]_vars
  PROVE  /\ status' \in [Legs -> Statuses] /\ log' \in [Legs -> Seq(Flip)]
         /\ \A l \in Legs : Reached(l) \subseteq Reached(l)'
         /\ \A l \in Legs : ~Pending(l) => ~Pending(l)'
         /\ LogInv' /\ FlipsFollowEvents'
<1>1. CASE UNCHANGED legVars
  BY <1>1 DEF IInv, TypeOK, legVars, LogInv, FlipsFollowEvents, Reached, Pending
<1>2. ASSUME NEW l \in Legs, NEW a \in Actions, OperatorTransition(l, a)
      PROVE  /\ status' \in [Legs -> Statuses] /\ log' \in [Legs -> Seq(Flip)]
             /\ \A k \in Legs : Reached(k) \subseteq Reached(k)'
             /\ \A k \in Legs : ~Pending(k) => ~Pending(k)'
             /\ LogInv' /\ FlipsFollowEvents'
  <2> DEFINE r == [leg |-> l, action |-> a, by |-> Operator]
  <2>1. r \in Requests /\ r.by = Operator
    BY DEF Requests
  <2>2. Ledger!Transition(r, NoLeg)
    BY <1>2 DEF OperatorTransition
  <2> HIDE DEF r
  <2> QED
    BY <2>1, <2>2, LegsKept, SentinelAssumption DEF IInv
<1>3. CASE \E w \in Workers : TransitionFlips(w)
  BY <1>3, EventFlips
<1> QED
  BY <1>1, <1>2, <1>3, Movers

\* A committed leg stays committed.
LEMMA StepVisible ==
  ASSUME TypeOK, [Next]_vars
  PROVE  visible \subseteq visible' /\ visible' \subseteq Legs
BY DEF TypeOK, Next, Serve, vars, CommitLeg, OperatorTransition, Receive, Duplicate,
       ReceiveThrows, FindLeg, Unmatched, AcceptSignature, RejectSignature, Resolve,
       Unsupported, TransitionFlips, TransitionNoOp, TransitionThrows, RecordTransitioned,
       RecordError, StatementThrows, Unhandled, Crash

\* Where a leg has been, it has been.
LEMMA RealStays ==
  ASSUME IInv, [Next]_vars, NEW e \in Events, Real(e)
  PROVE  Real(e)'
<1>1. LegOf[e] \in visible' /\ LegOf[e] \in Legs
  BY StepVisible DEF Real, IInv
<1>2. Reached(LegOf[e]) \subseteq Reached(LegOf[e])'
  BY <1>1, StepLegs
<1> QED
  BY <1>1, <1>2 DEF Real, Goal

-----------------------------------------------------------------------------
(* The requests                                                            *)

\* The three ways of a step: it ends request w, it moves it on, or it is none
\* of a request's own.
Ends(w) ==
  \/ Unmatched(w) \/ RejectSignature(w) \/ Unsupported(w)
  \/ RecordTransitioned(w) \/ RecordError(w) \/ Unhandled(w) \/ Crash(w)
GoesOn(w) ==
  \/ FindLeg(w) \/ AcceptSignature(w) \/ Resolve(w)
  \/ TransitionFlips(w) \/ TransitionNoOp(w) \/ TransitionThrows(w) \/ StatementThrows(w)
Elsewhere ==
  \/ \E l \in Legs : CommitLeg(l) \/ \E a \in Actions : OperatorTransition(l, a)
  \/ \E w \in Workers, e \in Events : Duplicate(w, e) \/ ReceiveThrows(w, e)
  \/ UNCHANGED vars

\* Every step goes one of these ways, or receives an event.
LEMMA Steps ==
  ASSUME [Next]_vars
  PROVE  \/ \E w \in Workers, e \in Events : Receive(w, e)
         \/ \E w \in Workers : Ends(w) \/ GoesOn(w)
         \/ Elsewhere
BY DEF Next, Serve, Ends, GoesOn, Elsewhere

\* A request that ends leaves the others as they are.
LEMMA EndFacts ==
  ASSUME TypeOK, NEW w \in Workers, Ends(w)
  PROVE  /\ pc[w] # "idle"
         /\ pc'[w] = "idle" /\ event'[w] = NoEvent
         /\ \A v \in Workers \ {w} :
              pc'[v] = pc[v] /\ event'[v] = event[v] /\ seen'[v] = seen[v] /\ action'[v] = action[v]
         /\ \A e \in Events : e # event[w] => row'[e] = row[e]
         /\ pc'    \in [Workers -> {"idle", "find", "verify", "resolve", "transition", "done", "error"}]
         /\ event' \in [Workers -> Events \cup {NoEvent}]
         /\ seen'  \in [Workers -> Statuses \cup {"unread"}]
         /\ action' \in [Workers -> Actions \cup {NoAction}]
BY DEF TypeOK, Ends, Unmatched, RejectSignature, Unsupported, RecordTransitioned, RecordError,
       Unhandled, Crash, Answer, SetRow

\* So does one that goes on, and it keeps its event.
LEMMA OnFacts ==
  ASSUME TypeOK, NEW w \in Workers, GoesOn(w)
  PROVE  /\ pc[w] # "idle" /\ pc'[w] # "idle" /\ event' = event
         /\ \A v \in Workers \ {w} :
              pc'[v] = pc[v] /\ seen'[v] = seen[v] /\ action'[v] = action[v]
         /\ \A e \in Events : e # event[w] => row'[e] = row[e]
BY DEF TypeOK, GoesOn, FindLeg, AcceptSignature, Resolve, TransitionFlips, TransitionNoOp,
       TransitionThrows, StatementThrows, Move, SetRow

\* A step that is not of request v leaves what v knows true.
LEMMA OtherServed ==
  ASSUME IInv, [Next]_vars, NEW v \in Workers,
         pc'[v] = pc[v], event'[v] = event[v], seen'[v] = seen[v], action'[v] = action[v],
         event[v] # NoEvent => row'[event[v]] = row[event[v]]
  PROVE  Served(v)'
<1>1. Served(v) /\ visible \subseteq visible'
  BY StepVisible DEF IInv, ServeInv
<1>2. pc[v] # "idle" => event[v] \in Events /\ event[v] # NoEvent
  BY <1>1 DEF IInv, TypeOK, Served
<1>3. pc[v] = "done" => Real(event[v])'
  <2>1. ASSUME pc[v] = "done"
        PROVE  Real(event[v])'
    <3>1. PICK e \in Events : e = event[v]
      BY <1>2, <2>1
    <3>2. Real(e)'
      BY <1>1, <2>1, <3>1, RealStays DEF Served
    <3> QED
      BY <3>1, <3>2 DEF Real, Reached, Goal
  <2> QED
    BY <2>1
<1> QED
  BY <1>1, <1>2, <1>3 DEF Served, Matched, Acting

\* Every step keeps what each request knows.
LEMMA StepServed == ASSUME IInv, [Next]_vars PROVE ServeInv'
<1>t. TypeOK /\ ServeInv /\ OwnInv
  BY DEF IInv
<1>1. ASSUME NEW w \in Workers, NEW e \in Events, Receive(w, e)
      PROVE  ServeInv'
  <2>1. /\ pc[w] = "idle" /\ row[e] = "absent" /\ row'[e] = "RECEIVED"
        /\ \A d \in Events \ {e} : row'[d] = row[d]
        /\ pc'[w] = "find" /\ event'[w] = e
        /\ seen' = seen /\ action' = action
        /\ \A v \in Workers \ {w} : pc'[v] = pc[v] /\ event'[v] = event[v]
    BY <1>1, <1>t DEF Receive, Move, IsNew, SetRow, TypeOK
  <2>2. ASSUME NEW v \in Workers \ {w}
        PROVE  Served(v)'
    <3>1. event[v] # NoEvent => event[v] \in Events /\ event[v] # e
      BY <1>t, <2>1 DEF TypeOK, ServeInv, Served, Matched
    <3> QED
      BY <2>1, <3>1, OtherServed
  <2>3. Served(w)'
    BY <2>1, SentinelAssumption DEF Served, Matched, Acting
  <2> QED
    BY <2>2, <2>3 DEF ServeInv
<1>2. ASSUME NEW w \in Workers, Ends(w)
      PROVE  ServeInv'
  <2>1. Served(w)'
    BY <1>2, <1>t, EndFacts DEF Served, Matched, Acting
  <2>2. ASSUME NEW v \in Workers \ {w}
        PROVE  Served(v)'
    <3>1. event[v] # NoEvent => event[v] \in Events /\ event[v] # event[w]
      BY <1>t DEF TypeOK, OwnInv
    <3> QED
      BY <1>2, <1>t, <3>1, EndFacts, OtherServed
  <2> QED
    BY <2>1, <2>2 DEF ServeInv
<1>3. ASSUME NEW w \in Workers, GoesOn(w)
      PROVE  ServeInv'
  <2>1. ASSUME NEW v \in Workers \ {w}
        PROVE  Served(v)'
    <3>1. event[v] # NoEvent => event[v] \in Events /\ event[v] # event[w]
      BY <1>t DEF TypeOK, OwnInv
    <3> QED
      BY <1>3, <1>t, <3>1, OnFacts, OtherServed
  <2>o. event[w] \in Events /\ Served(w) /\ event' = event /\ pc[w] # "idle"
    BY <1>3, <1>t, OnFacts DEF ServeInv, Served, TypeOK
  <2>v. visible \subseteq visible' /\ visible \subseteq Legs
    BY <1>t, StepVisible DEF TypeOK
  <2>2. ASSUME FindLeg(w)
        PROVE  Served(w)'
    <3>1. pc[w] = "find" /\ pc'[w] = "verify" /\ row' = row /\ LegOf[event[w]] \in visible
          /\ seen'[w] = status[LegOf[event[w]]] /\ seen'[w] \in Statuses
      BY <1>t, <2>2, <2>v DEF FindLeg, Move, TypeOK
    <3> QED
      BY <2>o, <2>v, <3>1 DEF Served, Matched, Acting
  <2>3. ASSUME AcceptSignature(w)
        PROVE  Served(w)'
    <3>1. pc[w] = "verify" /\ pc'[w] = "resolve" /\ row'[event[w]] = "MATCHED"
          /\ event[w] \in Authentic /\ seen' = seen
      BY <1>t, <2>3, <2>o DEF AcceptSignature, Move, Verifies, SetRow, TypeOK
    <3> QED
      BY <2>o, <2>v, <3>1 DEF Served, Matched, Acting
  <2>4. ASSUME Resolve(w)
        PROVE  Served(w)'
    <3>1. pc[w] = "resolve" /\ pc'[w] = "transition" /\ row' = row /\ seen' = seen
          /\ action'[w] = resolveTransitionAction(Outcome[event[w]], seen[w])
          /\ action'[w] # NoAction
      BY <1>t, <2>4 DEF Resolve, Move, TypeOK
    <3> QED
      BY <2>o, <2>v, <3>1 DEF Served, Matched, Acting
  <2>5. ASSUME TransitionFlips(w)
        PROVE  Served(w)'
    <3>1. pc[w] = "transition" /\ pc'[w] = "done" /\ row' = row /\ seen' = seen /\ action' = action
      BY <1>t, <2>5 DEF TransitionFlips, Move, TypeOK
    <3>2. Real(event[w])'
      BY <2>5, EventFlips
    <3> QED
      BY <2>o, <2>v, <3>1, <3>2 DEF Served, Matched, Acting
  <2>6. ASSUME TransitionNoOp(w)
        PROVE  Served(w)'
    <3>1. /\ pc[w] = "transition" /\ pc'[w] = "done" /\ row' = row /\ seen' = seen
          /\ action' = action /\ visible' = visible /\ log' = log
          /\ status[LegOf[event[w]]] = TargetStatus[action[w]]
      BY <1>t, <2>6 DEF TransitionNoOp, Move, TypeOK, legVars
    <3>2. pc[w] \in Acting
      BY <3>1 DEF Acting
    <3>3. LegOf[event[w]] \in visible /\ LegOf[event[w]] \in Legs
          /\ Bucket(TargetStatus[action[w]]) = Goal(event[w])
      BY <3>2, Acts
    <3>4. Real(event[w])
      BY <3>1, <3>3 DEF Real, IInv, LogInv
    <3>5. Real(event[w])'
      BY <2>o, <3>1, <3>4 DEF Real, Reached, Goal
    <3> QED
      BY <2>o, <2>v, <3>1, <3>5 DEF Served, Matched, Acting
  <2>7. ASSUME TransitionThrows(w) \/ StatementThrows(w)
        PROVE  Served(w)'
    <3>1. pc[w] \in {"transition", "done"} /\ pc'[w] = "error" /\ seen' = seen
          /\ action' = action /\ (row' = row \/ SetRow(event[w], "TRANSITIONED"))
      BY <1>t, <2>7 DEF TransitionThrows, StatementThrows, Move, TypeOK
    <3>2. pc[w] \in Matched /\ pc[w] \in Acting /\ event[w] # NoEvent /\ event[w] \in Events
      BY <1>t, <2>o, <3>1 DEF Served, Matched, Acting, TypeOK
    <3>3. row'[event[w]] \in {"MATCHED", "TRANSITIONED"}
      BY <1>t, <2>o, <3>1, <3>2 DEF Served, SetRow, TypeOK
    <3> QED
      BY <2>o, <2>v, <3>1, <3>2, <3>3 DEF Served, Matched, Acting
  <2>8. Served(w)'
    BY <1>3, <2>2, <2>3, <2>4, <2>5, <2>6, <2>7 DEF GoesOn
  <2> QED
    BY <2>1, <2>8 DEF ServeInv
<1>4. CASE Elsewhere
  <2>1. row' = row /\ pc' = pc /\ event' = event /\ seen' = seen /\ action' = action
    BY <1>4 DEF Elsewhere, CommitLeg, OperatorTransition, Duplicate, ReceiveThrows, vars, workerVars
  <2> QED
    BY <2>1, OtherServed DEF ServeInv
<1> QED
  BY <1>1, <1>2, <1>3, <1>4, Steps

\* Every step keeps the types.
LEMMA StepType == ASSUME IInv, [Next]_vars PROVE TypeOK'
<1>t. TypeOK /\ visible' \subseteq Legs
      /\ status' \in [Legs -> Statuses] /\ log' \in [Legs -> Seq(Flip)]
  BY StepVisible, StepLegs DEF IInv
<1> DEFINE Typed == /\ row'    \in [Events -> Rows]
                    /\ acked'  \subseteq Events
                    /\ pc'     \in [Workers -> {"idle", "find", "verify", "resolve", "transition", "done", "error"}]
                    /\ event'  \in [Workers -> Events \cup {NoEvent}]
                    /\ seen'   \in [Workers -> Statuses \cup {"unread"}]
                    /\ action' \in [Workers -> Actions \cup {NoAction}]
                    /\ faults' \in 0..MaxFaults /\ crashes' \in 0..MaxCrashes
<1>1. ASSUME NEW w \in Workers, NEW e \in Events, Receive(w, e)
      PROVE  Typed
  BY <1>1, <1>t DEF TypeOK, Receive, Move, SetRow, Rows, boundVars
<1>2. ASSUME NEW w \in Workers, Ends(w)
      PROVE  Typed
  <2>1. pc[w] # "idle" => event[w] \in Events
    BY DEF IInv, TypeOK, ServeInv, Served
  <2>2. pc[w] # "idle" /\ row' \in [Events -> Rows] /\ acked' \subseteq Events
    BY <1>2, <1>t, <2>1, EndFacts
    DEF TypeOK, Ends, Unmatched, RejectSignature, Unsupported, RecordTransitioned,
        RecordError, Unhandled, Crash, Answer, SetRow, Rows
  <2>3. faults' \in 0..MaxFaults
    <3>1. faults' = faults \/ (faults < MaxFaults /\ faults' = faults + 1)
      BY <1>2 DEF Ends, Unmatched, RejectSignature, Unsupported, RecordTransitioned,
                  RecordError, Unhandled, Crash, boundVars
    <3> QED
      BY <1>t, <3>1, BoundAssumption DEF TypeOK
  <2>4. crashes' \in 0..MaxCrashes
    <3>1. crashes' = crashes \/ (crashes < MaxCrashes /\ crashes' = crashes + 1)
      BY <1>2 DEF Ends, Unmatched, RejectSignature, Unsupported, RecordTransitioned,
                  RecordError, Unhandled, Crash, boundVars
    <3> QED
      BY <1>t, <3>1, BoundAssumption DEF TypeOK
  <2> QED
    BY <1>2, <1>t, <2>2, <2>3, <2>4, EndFacts
<1>3. ASSUME NEW w \in Workers, GoesOn(w)
      PROVE  Typed
  <2>1. row' \in [Events -> Rows] /\ acked' \subseteq Events
        /\ pc' \in [Workers -> {"idle", "find", "verify", "resolve", "transition", "done", "error"}]
        /\ event' \in [Workers -> Events \cup {NoEvent}]
    BY <1>3, <1>t
    DEF TypeOK, GoesOn, FindLeg, AcceptSignature, Resolve, TransitionFlips, TransitionNoOp,
        TransitionThrows, StatementThrows, Move, SetRow, Rows
  <2>2. seen' \in [Workers -> Statuses \cup {"unread"}]
    BY <1>3, <1>t
    DEF TypeOK, GoesOn, FindLeg, AcceptSignature, Resolve, TransitionFlips, TransitionNoOp,
        TransitionThrows, StatementThrows
  <2>3. action' \in [Workers -> Actions \cup {NoAction}]
    <3>1. CASE action' = action
      BY <1>t, <3>1 DEF TypeOK
    <3>2. CASE Resolve(w)
      <4>1. PICK a : a = resolveTransitionAction(Outcome[event[w]], seen[w])
        OBVIOUS
      <4>2. action' = [action EXCEPT ![w] = a] /\ action'[w] # NoAction
        BY <3>2, <4>1 DEF Resolve
      <4>3. action'[w] = a
        BY <1>t, <4>2 DEF TypeOK
      <4>4. a \in Actions
        BY <4>1, <4>2, <4>3, Resolved
      <4> QED
        BY <1>t, <4>2, <4>4 DEF TypeOK
    <3> QED
      BY <1>3, <3>1, <3>2
      DEF GoesOn, FindLeg, AcceptSignature, TransitionFlips, TransitionNoOp, TransitionThrows,
          StatementThrows
  <2>4. faults' \in 0..MaxFaults /\ crashes' \in 0..MaxCrashes
    BY <1>3, <1>t, BoundAssumption
    DEF TypeOK, GoesOn, FindLeg, AcceptSignature, Resolve, TransitionFlips, TransitionNoOp,
        TransitionThrows, StatementThrows, boundVars
  <2> QED
    BY <2>1, <2>2, <2>3, <2>4
<1>4. ASSUME Elsewhere
      PROVE  Typed
  <2>1. row' = row /\ pc' = pc /\ event' = event /\ seen' = seen /\ action' = action
    BY <1>4 DEF Elsewhere, CommitLeg, OperatorTransition, Duplicate, ReceiveThrows, vars, workerVars
  <2>2. acked' \subseteq Events
    BY <1>4, <1>t DEF TypeOK, Elsewhere, CommitLeg, OperatorTransition, Duplicate, ReceiveThrows, vars
  <2>3. faults' \in 0..MaxFaults
    <3>1. faults' = faults \/ (faults < MaxFaults /\ faults' = faults + 1)
      BY <1>4 DEF Elsewhere, CommitLeg, OperatorTransition, Duplicate, ReceiveThrows, vars, boundVars
    <3> QED
      BY <1>t, <3>1, BoundAssumption DEF TypeOK
  <2>4. crashes' = crashes
    BY <1>4 DEF Elsewhere, CommitLeg, OperatorTransition, Duplicate, ReceiveThrows, vars, boundVars
  <2> QED
    BY <1>t, <2>1, <2>2, <2>3, <2>4 DEF TypeOK
<1> HIDE DEF Typed
<1>5. Typed
  BY <1>1, <1>2, <1>3, <1>4, Steps
<1> QED
  BY <1>t, <1>5 DEF TypeOK, Typed

\* The insert gives an event to one request: rows of served events are there.
LEMMA StepOwn == ASSUME IInv, [Next]_vars PROVE OwnInv'
<1>t. TypeOK /\ ServeInv /\ OwnInv
  BY DEF IInv
<1>1. ASSUME NEW w \in Workers, NEW e \in Events, Receive(w, e)
      PROVE  OwnInv'
  <2>1. /\ row[e] = "absent" /\ event'[w] = e
        /\ \A v \in Workers \ {w} : event'[v] = event[v]
    BY <1>1, <1>t DEF Receive, IsNew, TypeOK
  <2>2. \A v \in Workers : event[v] # e
    BY <1>t, <2>1, SentinelAssumption DEF TypeOK, ServeInv, Served, Matched
  <2> QED
    BY <1>t, <2>1, <2>2 DEF OwnInv
<1>2. ASSUME NEW w \in Workers, Ends(w)
      PROVE  OwnInv'
  BY <1>2, <1>t, EndFacts DEF OwnInv
<1>3. ASSUME NEW w \in Workers, GoesOn(w)
      PROVE  OwnInv'
  BY <1>3, <1>t, OnFacts DEF OwnInv
<1>4. CASE Elsewhere
  BY <1>4, <1>t
  DEF OwnInv, Elsewhere, CommitLeg, OperatorTransition, Duplicate, ReceiveThrows, vars, workerVars
<1> QED
  BY <1>1, <1>2, <1>3, <1>4, Steps

\* Which rows a step writes: an absent one, or that of a request being served.
LEMMA RowSteps ==
  ASSUME IInv, [Next]_vars, NEW e \in Events, row'[e] # row[e]
  PROVE  \/ row[e] = "absent" /\ row'[e] = "RECEIVED" /\ \E w \in Workers : event'[w] = e
         \/ \E w \in Workers : /\ event[w] = e /\ pc[w] # "idle"
                              /\ (Ends(w) \/ AcceptSignature(w) \/ StatementThrows(w))
<1>t. TypeOK
  BY DEF IInv
<1>1. ASSUME NEW w \in Workers, NEW d \in Events, Receive(w, d)
      PROVE  row[e] = "absent" /\ row'[e] = "RECEIVED" /\ event'[w] = e
  BY <1>1, <1>t DEF Receive, IsNew, SetRow, TypeOK
<1>2. ASSUME NEW w \in Workers, Ends(w)
      PROVE  event[w] = e /\ pc[w] # "idle" /\ Ends(w)
  BY <1>2, <1>t, EndFacts
<1>3. ASSUME NEW w \in Workers, GoesOn(w)
      PROVE  event[w] = e /\ pc[w] # "idle" /\ (AcceptSignature(w) \/ StatementThrows(w))
  <2>1. AcceptSignature(w) \/ StatementThrows(w)
    BY <1>3, <1>t
    DEF GoesOn, FindLeg, Resolve, TransitionFlips, TransitionNoOp, TransitionThrows
  <2> QED
    BY <1>3, <1>t, <2>1, OnFacts
<1>4. ~Elsewhere
  BY DEF Elsewhere, CommitLeg, OperatorTransition, Duplicate, ReceiveThrows, vars
<1> QED
  BY <1>1, <1>2, <1>3, <1>4, Steps

\* A row becomes TRANSITIONED only of a leg that was taken there.
LEMMA StepTransitioned == ASSUME IInv, [Next]_vars PROVE TransitionedIsReal'
<1>1. ASSUME NEW e \in Events, row'[e] = "TRANSITIONED"
      PROVE  Real(e)'
  <2>1. CASE row[e] = "TRANSITIONED"
    BY <2>1, RealStays DEF IInv, TransitionedIsReal, Real, Reached, Goal
  <2>2. CASE row[e] # "TRANSITIONED"
    <3>1. PICK w \in Workers : /\ event[w] = e /\ pc[w] # "idle"
                              /\ (Ends(w) \/ AcceptSignature(w) \/ StatementThrows(w))
      BY <1>1, <2>2, RowSteps
    <3>2. pc[w] = "done"
      BY <1>1, <2>2, <3>1
      DEF IInv, TypeOK, Ends, Unmatched, RejectSignature, Unsupported, RecordTransitioned,
          RecordError, Unhandled, Crash, AcceptSignature, StatementThrows, SetRow
    <3>3. Real(e)
      BY <3>1, <3>2 DEF IInv, ServeInv, Served
    <3> QED
      BY <3>3, RealStays
  <2> QED
    BY <2>1, <2>2
<1> QED
  BY <1>1 DEF TransitionedIsReal, Real, Reached, Goal

\* The invariant holds before the first event.
LEMMA InitIInv == Init => IInv
<1> SUFFICES ASSUME Init PROVE IInv
  OBVIOUS
<1>1. status = InitStatus /\ log = [l \in Legs |-> <<>>]
  BY DEF Init, Ledger!Init
<1>2. TypeOK
  <2>1. status \in [Legs -> Statuses]
    BY <1>1, InitAssumption DEF Statuses
  <2>2. log \in [Legs -> Seq(Flip)]
    BY <1>1
  <2> QED
    BY <2>1, <2>2, BoundAssumption DEF Init, TypeOK, Rows
<1>3. ServeInv
  BY DEF Init, ServeInv, Served, Matched, Acting
<1>4. OwnInv /\ TransitionedIsReal
  BY DEF Init, OwnInv, TransitionedIsReal
<1>5. LogInv
  BY <1>1 DEF LogInv, Reached
<1>6. FlipsFollowEvents
  BY <1>1 DEF FlipsFollowEvents
<1> QED
  BY <1>2, <1>3, <1>4, <1>5, <1>6 DEF IInv

\* The inductive invariant: every request knows what its place says it knows,
\* no event is served twice, and no leg stands where no flip took it.
THEOREM Invariance == Spec => []IInv
<1>1. IInv /\ [Next]_vars => IInv'
  BY StepType, StepServed, StepOwn, StepLegs, StepTransitioned DEF IInv
<1> QED
  BY InitIInv, <1>1, PTL DEF Spec

\* Type correctness: processing_status and payment_status stay among their codes.
THEOREM TypeCorrect == Spec => []TypeOK
BY Invariance, PTL DEF IInv

\* TransitionedIsReal: a row says TRANSITIONED only of a leg that really went
\* where the gateway's outcome says.
THEOREM RowsTellTruth == Spec => []TransitionedIsReal
BY Invariance, PTL DEF IInv

\* FlipsFollowEvents: an event moves its own leg, the way of its outcome, and
\* only when its signature verified.
THEOREM OnlyVerifiedFlips == Spec => []FlipsFollowEvents
BY Invariance, PTL DEF IInv

\* RowsAreFinal: no request rewrites the row of an event that has its end,
\* but the one that set it TRANSITIONED and was told that it had failed.
THEOREM FinalStays == Spec => RowsAreFinal
<1>1. ASSUME IInv, [Next]_vars, NEW e \in Events, row[e] \in Final, row'[e] # row[e]
      PROVE  row[e] = "TRANSITIONED" /\ row'[e] = "ERROR" /\ ~Settled(e)
  <2>1. row[e] \notin {"absent", "RECEIVED", "MATCHED"}
    BY <1>1 DEF Final
  <2>2. PICK w \in Workers : /\ event[w] = e /\ pc[w] # "idle"
                            /\ (Ends(w) \/ AcceptSignature(w) \/ StatementThrows(w))
    BY <1>1, <2>1, RowSteps
  <2>3. pc[w] = "error" /\ row[e] = "TRANSITIONED"
    BY <1>1, <2>1, <2>2 DEF IInv, TypeOK, ServeInv, Served, Matched
  <2>4. RecordError(w)
    BY <1>1, <2>2, <2>3
    DEF Ends, Unmatched, RejectSignature, Unsupported, RecordTransitioned, Unhandled, Crash,
        AcceptSignature, StatementThrows, Move
  <2>5. row'[e] = "ERROR"
    BY <1>1, <2>2, <2>4 DEF RecordError, SetRow, IInv, TypeOK
  <2> QED
    BY <2>2, <2>3, <2>5 DEF Settled
<1>2. IInv /\ [Next]_vars =>
        [\A e \in Events : row[e] \in Final =>
           \/ row'[e] = row[e]
           \/ row[e] = "TRANSITIONED" /\ row'[e] = "ERROR" /\ ~Settled(e)]_vars
  BY <1>1
<1> QED
  BY Invariance, <1>2, PTL DEF Spec, RowsAreFinal

-----------------------------------------------------------------------------
(* Nothing is forgotten                                                    *)

Quiet     == faults = 0 /\ crashes = 0
Closed(e) == Outcome[e] = "PAYMENT_SUCCEEDED" => ~Pending(LegOf[e])

\* A status read past the waiting ones stays past them, and a success that
\* went through transitionPaymentTx, thrown or not, finds the leg there.
Knew(w) ==
  /\ pc[w] \in Matched \cup {"verify"} /\ Bucket(seen[w]) # "pending" => ~Pending(LegOf[event[w]])
  /\ pc[w] \in {"done", "error"} => Closed(event[w])

\* What the row of an event says while nothing has failed.
Kept(e) ==
  /\ row[e] \in {"RECEIVED", "MATCHED"} => \E w \in Workers : event[w] = e
  /\ e \in acked => row[e] # "absent"
  /\ row[e] = "REJECTED_SIGNATURE" => e \notin Authentic
  /\ row[e] \in {"TRANSITIONED", "ERROR"} => LegOf[e] \in Legs /\ Closed(e)

QuietInv == Quiet => (\A w \in Workers : Knew(w)) /\ (\A e \in Events : Kept(e))

\* Nothing has failed after a step only if nothing had before, and the step is
\* no failure.
LEMMA QuietSteps ==
  ASSUME TypeOK, [Next]_vars, Quiet'
  PROVE  /\ Quiet
         /\ \A w \in Workers : ~StatementThrows(w) /\ ~Unhandled(w) /\ ~Crash(w)
         /\ \A w \in Workers, e \in Events : ~ReceiveThrows(w, e)
<1>1. faults' = 0 /\ crashes' = 0 /\ faults \in Nat /\ crashes \in Nat
  BY BoundAssumption DEF Quiet, TypeOK
<1>2. \A w \in Workers : ~StatementThrows(w) /\ ~Unhandled(w) /\ ~Crash(w)
  <2>1. \A w \in Workers : ~StatementThrows(w)
    BY <1>1 DEF StatementThrows
  <2>2. \A w \in Workers : ~Unhandled(w)
    BY <1>1 DEF Unhandled, Answer
  <2>3. \A w \in Workers : ~Crash(w)
    BY <1>1 DEF Crash, Answer
  <2> QED
    BY <2>1, <2>2, <2>3
<1>3. \A w \in Workers, e \in Events : ~ReceiveThrows(w, e)
  BY <1>1 DEF ReceiveThrows
<1>4. UNCHANGED boundVars
  <2>1. ASSUME NEW w \in Workers, NEW e \in Events, Receive(w, e)
        PROVE  UNCHANGED boundVars
    BY <2>1 DEF Receive
  <2>2. ASSUME NEW w \in Workers, Ends(w)
        PROVE  UNCHANGED boundVars
    BY <1>2, <2>2 DEF Ends, Unmatched, RejectSignature, Unsupported, RecordTransitioned, RecordError
  <2>3. ASSUME NEW w \in Workers, GoesOn(w)
        PROVE  UNCHANGED boundVars
    BY <1>2, <2>3 DEF GoesOn, FindLeg, AcceptSignature, Resolve, TransitionFlips,
                      TransitionNoOp, TransitionThrows
  <2>4. ASSUME Elsewhere
        PROVE  UNCHANGED boundVars
    BY <1>3, <2>4 DEF Elsewhere, CommitLeg, OperatorTransition, Duplicate, vars, boundVars
  <2> QED
    BY <2>1, <2>2, <2>3, <2>4, Steps
<1> QED
  BY <1>1, <1>2, <1>3, <1>4 DEF Quiet, boundVars

\* No flip leads a leg back to waiting.
LEMMA ClosedStays ==
  ASSUME IInv, [Next]_vars, NEW e \in Events, LegOf[e] \in Legs, Closed(e)
  PROVE  Closed(e)'
<1>1. ~Pending(LegOf[e]) => ~Pending(LegOf[e])'
  BY StepLegs
<1> QED
  BY <1>1 DEF Closed, Pending

\* A step that is not of request v leaves what v knew true.
LEMMA OtherKnew ==
  ASSUME IInv, [Next]_vars, NEW v \in Workers, Knew(v),
         pc'[v] = pc[v], event'[v] = event[v], seen'[v] = seen[v]
  PROVE  Knew(v)'
<1>1. CASE pc[v] \notin Matched \cup {"verify"}
  BY <1>1 DEF Knew, Matched
<1>2. CASE pc[v] \in Matched \cup {"verify"}
  <2>1. LegOf[event[v]] \in Legs
    BY <1>2 DEF IInv, TypeOK, ServeInv, Served
  <2>2. ~Pending(LegOf[event[v]]) => ~Pending(LegOf[event[v]])'
    <3>1. PICK l \in Legs : l = LegOf[event[v]]
      BY <2>1
    <3>2. ~Pending(l) => ~Pending(l)'
      BY StepLegs
    <3> QED
      BY <3>1, <3>2 DEF Pending
  <2> QED
    BY <2>2 DEF Knew, Closed, Pending
<1> QED
  BY <1>1, <1>2

\* While nothing fails, every step keeps what each request knew of its leg.
LEMMA StepKnew ==
  ASSUME IInv, QuietInv, [Next]_vars, Quiet', NEW v \in Workers
  PROVE  Knew(v)'
<1>t. TypeOK /\ ServeInv /\ Quiet /\ Knew(v)
  BY QuietSteps DEF IInv, QuietInv
<1>1. ASSUME NEW w \in Workers, NEW e \in Events, Receive(w, e)
      PROVE  Knew(v)'
  <2>1. CASE v = w
    BY <1>1, <1>t, <2>1 DEF Receive, Move, TypeOK, Knew, Matched
  <2>2. CASE v # w
    BY <1>1, <1>t, <2>2, OtherKnew DEF Receive, Move, TypeOK
  <2> QED
    BY <2>1, <2>2
<1>2. ASSUME NEW w \in Workers, Ends(w)
      PROVE  Knew(v)'
  <2>1. CASE v = w
    BY <1>2, <1>t, <2>1, EndFacts DEF Knew, Matched
  <2>2. CASE v # w
    BY <1>2, <1>t, <2>2, EndFacts, OtherKnew
  <2> QED
    BY <2>1, <2>2
<1>3. ASSUME NEW w \in Workers, GoesOn(w), v # w
      PROVE  Knew(v)'
  BY <1>3, <1>t, OnFacts, OtherKnew
<1>4. ASSUME GoesOn(v)
      PROVE  Knew(v)'
  <2>1. event' = event /\ pc[v] # "idle" /\ Served(v)
    BY <1>4, <1>t, OnFacts DEF ServeInv
  <2>2. ASSUME FindLeg(v)
        PROVE  Knew(v)'
    <3>1. pc'[v] = "verify" /\ seen'[v] = status[LegOf[event[v]]] /\ status' = status
      BY <1>t, <2>2 DEF FindLeg, Move, TypeOK, legVars
    <3> QED
      BY <2>1, <3>1 DEF Knew, Pending, Matched
  <2>3. ASSUME AcceptSignature(v) \/ Resolve(v)
        PROVE  Knew(v)'
    <3>1. /\ pc[v] \in {"verify", "resolve"} /\ pc'[v] \in {"resolve", "transition"}
          /\ seen' = seen /\ status' = status
      BY <1>t, <2>3 DEF AcceptSignature, Resolve, Move, TypeOK, legVars
    <3> QED
      BY <1>t, <2>1, <3>1 DEF Knew, Pending, Matched
  <2>4. ASSUME TransitionFlips(v)
        PROVE  Knew(v)'
    <3>1. ~Pending(LegOf[event[v]])'
      BY <2>4, EventFlips
    <3> QED
      BY <3>1 DEF Knew, Closed
  <2>5. ASSUME TransitionNoOp(v) \/ TransitionThrows(v)
        PROVE  Knew(v)'
    <3>1. /\ pc[v] = "transition" /\ pc'[v] \in {"done", "error"}
          /\ status' = status /\ seen' = seen
          /\ status[LegOf[event[v]]] = TargetStatus[action[v]]
             \/ status[LegOf[event[v]]] \notin SourceStatuses[action[v]]
      BY <1>t, <2>5 DEF TransitionNoOp, TransitionThrows, Move, TypeOK, legVars
    <3>2. pc[v] \in Acting
      BY <3>1 DEF Acting
    <3>3. /\ action[v] \in Actions
          /\ Outcome[event[v]] = "PAYMENT_SUCCEEDED" => action[v] = "VERIFY"
      BY <3>2, Acts
    <3>4. Outcome[event[v]] = "PAYMENT_SUCCEEDED" => ~Pending(LegOf[event[v]])
      BY <3>1, <3>3, Targets DEF SourceStatuses, Pending, Bucket
    <3>5. Bucket(seen[v]) # "pending" => ~Pending(LegOf[event[v]])
      BY <1>t, <3>1 DEF Knew, Matched
    <3> QED
      BY <2>1, <3>1, <3>4, <3>5 DEF Knew, Closed, Pending
  <2> QED
    BY <1>4, <2>2, <2>3, <2>4, <2>5, QuietSteps, <1>t DEF GoesOn
<1>5. CASE Elsewhere
  <2>1. pc' = pc /\ event' = event /\ seen' = seen
    BY <1>5 DEF Elsewhere, CommitLeg, OperatorTransition, Duplicate, ReceiveThrows, vars, workerVars
  <2> QED
    BY <1>t, <2>1, OtherKnew
<1> QED
  BY <1>1, <1>2, <1>3, <1>4, <1>5, Steps

\* While nothing fails, every step keeps what the row of an event says.
LEMMA StepKept ==
  ASSUME IInv, QuietInv, [Next]_vars, Quiet', NEW e \in Events
  PROVE  Kept(e)'
<1>t. TypeOK /\ ServeInv /\ Quiet /\ Kept(e) /\ TypeOK'
  BY QuietSteps, StepType DEF IInv, QuietInv
\* A request that stands on its own stands on the row it was given.
<1>o. ASSUME NEW w \in Workers, event[w] = e, pc[w] # "idle"
      PROVE  row[e] \in {"RECEIVED", "MATCHED", "TRANSITIONED"}
  BY <1>t, <1>o DEF TypeOK, ServeInv, Served, Matched
<1>n. \A w \in Workers : ~StatementThrows(w)
  BY <1>t, QuietSteps
\* A request that ends closes its row.
<1>e. ASSUME NEW w \in Workers, event[w] = e, Ends(w)
      PROVE  /\ row'[e] \in Final
             /\ row'[e] = "REJECTED_SIGNATURE" => e \notin Authentic
             /\ row'[e] \in {"TRANSITIONED", "ERROR"} => LegOf[e] \in Legs /\ Closed(e)
  <2>1. Unmatched(w) \/ RejectSignature(w) \/ Unsupported(w) \/ RecordTransitioned(w) \/ RecordError(w)
    BY <1>e, <1>t, QuietSteps DEF Ends
  <2>2. row'[e] \in Final /\ (row'[e] = "REJECTED_SIGNATURE" => e \notin Authentic)
    BY <1>t, <1>e, <2>1
    DEF TypeOK, Unmatched, RejectSignature, Unsupported, RecordTransitioned, RecordError, SetRow,
        Final, Rows, Verifies
  <2>3. Served(w) /\ Knew(w)
    BY <1>t DEF ServeInv, QuietInv
  <2>4. row'[e] \in {"TRANSITIONED", "ERROR"} => pc[w] \in {"resolve", "done", "error"}
    BY <1>t, <1>e, <2>1
    DEF TypeOK, Unmatched, RejectSignature, Unsupported, RecordTransitioned, RecordError, SetRow
  <2>5. pc[w] \in {"resolve", "done", "error"} => LegOf[e] \in Legs
    BY <1>t, <1>e, <2>3 DEF Served, Matched, TypeOK
  <2>6. pc[w] \in {"done", "error"} => Closed(e)
    BY <1>e, <2>3 DEF Knew
  <2>7. ASSUME Unsupported(w)
        PROVE  Closed(e)
    <3>1. pc[w] = "resolve" /\ resolveTransitionAction(Outcome[e], seen[w]) = NoAction
      BY <1>e, <2>7 DEF Unsupported
    <3>2. Outcome[e] = "PAYMENT_SUCCEEDED" => Bucket(seen[w]) # "pending"
      BY <3>1 DEF resolveTransitionAction, NoAction, Bucket
    <3> QED
      BY <1>e, <2>3, <3>1, <3>2 DEF Knew, Matched, Closed
  <2>8. row'[e] \in {"TRANSITIONED", "ERROR"} => Unsupported(w) \/ pc[w] \in {"done", "error"}
    BY <1>t, <1>e, <2>1
    DEF TypeOK, Unmatched, RejectSignature, RecordTransitioned, RecordError, SetRow
  <2> QED
    BY <2>2, <2>4, <2>5, <2>6, <2>7, <2>8
<1>1. row'[e] \in {"RECEIVED", "MATCHED"} => \E w \in Workers : event'[w] = e
  <2> SUFFICES ASSUME row'[e] \in {"RECEIVED", "MATCHED"}
               PROVE  \E w \in Workers : event'[w] = e
    OBVIOUS
  <2>1. ASSUME NEW w \in Workers, event[w] = e
        PROVE  event'[w] = e
    <3>1. ~Ends(w)
      BY <1>e, <2>1 DEF Final
    <3>2. pc[w] # "idle"
      BY <1>t, <2>1, SentinelAssumption DEF ServeInv, Served
    <3>3. ASSUME NEW v \in Workers, NEW d \in Events, Receive(v, d)
          PROVE  event'[w] = event[w]
      BY <1>t, <3>2, <3>3 DEF Receive, Move, TypeOK
    <3>4. ASSUME NEW v \in Workers, Ends(v)
          PROVE  event'[w] = event[w]
      BY <1>t, <3>1, <3>4, EndFacts
    <3>5. ASSUME NEW v \in Workers, GoesOn(v)
          PROVE  event'[w] = event[w]
      BY <1>t, <3>5, OnFacts
    <3>6. ASSUME Elsewhere
          PROVE  event'[w] = event[w]
      BY <3>6 DEF Elsewhere, CommitLeg, OperatorTransition, Duplicate, ReceiveThrows, vars, workerVars
    <3> QED
      BY <2>1, <3>3, <3>4, <3>5, <3>6, Steps
  <2>2. CASE row'[e] = row[e]
    BY <1>t, <2>1, <2>2 DEF Kept
  <2>3. CASE row'[e] # row[e]
    BY <2>1, <2>3, RowSteps
  <2> QED
    BY <2>2, <2>3
<1>2. e \in acked' => row'[e] # "absent"
  <2>1. row[e] # "absent" => row'[e] # "absent"
    <3>1. CASE row'[e] = row[e]
      BY <3>1
    <3>2. CASE row'[e] # row[e]
      <4>1. ASSUME NEW w \in Workers, event[w] = e, AcceptSignature(w)
            PROVE  row'[e] # "absent"
        BY <1>t, <4>1 DEF AcceptSignature, SetRow, TypeOK
      <4> QED
        BY <1>e, <1>n, <3>2, <4>1, RowSteps DEF Final
    <3> QED
      BY <3>1, <3>2
  <2>2. ASSUME NEW w \in Workers, Ends(w), e \in acked' \ acked
        PROVE  row[e] # "absent"
    <3>1. event[w] = e
      BY <2>2 DEF Ends, Unmatched, RejectSignature, Unsupported, RecordTransitioned, RecordError,
                  Unhandled, Crash, Answer
    <3> QED
      BY <1>o, <1>t, <2>2, <3>1, EndFacts
  <2>3. ASSUME NEW w \in Workers, NEW d \in Events, Receive(w, d)
        PROVE  acked' = acked
    BY <2>3 DEF Receive
  <2>4. ASSUME NEW w \in Workers, GoesOn(w)
        PROVE  acked' = acked
    BY <2>4 DEF GoesOn, FindLeg, AcceptSignature, Resolve, TransitionFlips, TransitionNoOp,
                TransitionThrows, StatementThrows
  <2>5. ASSUME Elsewhere, e \in acked' \ acked
        PROVE  row[e] # "absent"
    BY <1>t, <2>5, QuietSteps DEF Elsewhere, CommitLeg, OperatorTransition, Duplicate, IsNew, vars
  <2> QED
    BY <1>t, <2>1, <2>2, <2>3, <2>4, <2>5, Steps DEF Kept
<1>3. /\ row'[e] = "REJECTED_SIGNATURE" => e \notin Authentic
      /\ row'[e] \in {"TRANSITIONED", "ERROR"} => LegOf[e] \in Legs /\ Closed(e)
  <2>1. CASE row'[e] = row[e]
    BY <1>t, <2>1 DEF Kept
  <2>2. CASE row'[e] # row[e]
    <3>1. ASSUME NEW w \in Workers, event[w] = e, AcceptSignature(w)
          PROVE  row'[e] = "MATCHED"
      BY <1>t, <3>1 DEF AcceptSignature, SetRow, TypeOK
    <3> QED
      BY <1>e, <1>n, <2>2, <3>1, RowSteps
  <2> QED
    BY <2>1, <2>2
<1> QED
  BY <1>1, <1>2, <1>3, ClosedStays DEF Kept

\* NothingIsForgotten: while no server dies and no statement throws, a paid
\* event is being served, waits for its delivery or has confirmed its leg.
THEOREM NothingForgotten == Spec => []NothingIsForgotten
<1>1. Init => QuietInv
  BY DEF Init, QuietInv, Knew, Kept, Matched
<1>2. IInv /\ QuietInv /\ [Next]_vars => QuietInv'
  <2> SUFFICES ASSUME IInv, QuietInv, [Next]_vars, Quiet'
               PROVE  (\A w \in Workers : Knew(w)') /\ (\A e \in Events : Kept(e)')
    BY DEF QuietInv
  <2> QED
    BY StepKnew, StepKept
<1>3. IInv /\ QuietInv => NothingIsForgotten
  <2> SUFFICES ASSUME IInv, QuietInv, faults = 0, crashes = 0, NEW e \in Events
               PROVE  /\ row[e] \in {"RECEIVED", "MATCHED"} => ~Settled(e)
                      /\ /\ e \in acked /\ e \in Authentic /\ Settled(e)
                         /\ Outcome[e] = "PAYMENT_SUCCEEDED"
                         /\ LegOf[e] \in visible /\ row[e] # "UNMATCHED"
                         => Bucket(status[LegOf[e]]) # "pending"
    BY DEF NothingIsForgotten
  <2>1. Kept(e) /\ row[e] \in Rows
    BY DEF QuietInv, Quiet, IInv, TypeOK
  <2>2. row[e] \in {"RECEIVED", "MATCHED"} => ~Settled(e)
    BY <2>1 DEF Kept, Settled
  <2> QED
    BY <2>1, <2>2 DEF Kept, Rows, Closed, Pending
<1> QED
  BY Invariance, <1>1, <1>2, <1>3, PTL DEF Spec
=============================================================================
