--------------------------- MODULE EditLockProofs ---------------------------
(* What protects an order from blind overwrites, for any number of users.  *)
EXTENDS EditLock, TLAPS

PageOpen == InSave \cup {"ask", "refresh", "take", "edit"}

\* A page knows what it expects; a save knows what was committed since it
\* read the order, and in its transaction it has read what it expects.
Knows(place, b, n, k, v) ==
  /\ n <= v
  /\ b # NoVersion => b \in k
  /\ place \in PageOpen => b # NoVersion
  /\ place \in InSave => \A x \in 1..v : x > n => x \in k
  /\ place \in InTx => n = b
  /\ place = "reread" => v > n

KnownInv == \A u \in Users : Knows(pc[u], base[u], seen[u], known[u], version)

IInv == TypeOK /\ KnownInv /\ LostOnlyInOverlap

LEMMA InitIInv == Init => IInv
<1> USE EditAssumption
<1> SUFFICES ASSUME Init PROVE IInv
  OBVIOUS
<1>1. TypeOK
  BY DEF Init, TypeOK, Places, InSave, InTx
<1>2. KnownInv
  <2>1. \A u \in Users : pc[u] = "idle" /\ base[u] = NoVersion /\ seen[u] = 0 /\ version = 0
    BY DEF Init
  <2>2. "idle" \notin PageOpen /\ "idle" \notin InSave /\ "idle" \notin InTx /\ "idle" # "reread"
    BY DEF PageOpen, InSave, InTx
  <2> SUFFICES ASSUME NEW u \in Users
               PROVE  /\ seen[u] <= version /\ base[u] = NoVersion
                      /\ pc[u] \notin PageOpen \cup InSave \cup InTx \cup {"reread"}
    BY DEF KnownInv, Knows
  <2> QED
    BY <2>1, <2>2
<1> QED
  BY <1>1, <1>2 DEF Init, IInv, LostOnlyInOverlap

\* A user's own step, and the steps of the others and of time, keep the types.
LEMMA StepType == ASSUME TypeOK, KnownInv, [Next]_vars PROVE TypeOK'
<1> USE EditAssumption DEF TypeOK
<1>1. CASE UNCHANGED vars
  BY <1>1 DEF vars
<1>2. CASE Expire \/ ForceUnlock
  BY <1>2 DEF Expire, ForceUnlock, orderVars, txVars, NoLock, Live
<1>3. ASSUME NEW u \in Users,
             Load(u) \/ Ask(u) \/ Refresh(u) \/ Take(u) \/ Leave(u) \/ Look(u) \/ Unlock(u)
      PROVE  TypeOK'
  <2> USE DEF Goto, orderVars, txVars, Places, InSave, InTx
  <2>1. CASE Load(u)
    BY <2>1 DEF Load
  <2>2. CASE Ask(u)
    BY <2>2 DEF Ask
  <2>3. CASE Refresh(u)
    <3>1. CASE lock = NoLock
      BY <2>3, <3>1 DEF Refresh
    <3>2. CASE lock # NoLock
      <4>1. lock \in [by : Users, live : BOOLEAN]
        BY <3>2
      <4>2. [lock EXCEPT !.live = TRUE] \in [by : Users, live : BOOLEAN]
        BY <4>1
      <4> QED
        BY <2>3, <3>2, <4>2 DEF Refresh
    <3> QED
      BY <3>1, <3>2
  <2>4. CASE Take(u)
    BY <2>4 DEF Take, Row
  <2>5. CASE Leave(u)
    BY <2>5 DEF Leave
  <2>6. CASE Look(u)
    BY <2>6 DEF Look, Back
  <2>7. CASE Unlock(u)
    BY <2>7 DEF Unlock, Back
  <2> QED
    BY <1>3, <2>1, <2>2, <2>3, <2>4, <2>5, <2>6, <2>7
<1>4. ASSUME NEW u \in Users,
             \/ Save(u) \/ Check(u) \/ Drop(u) \/ SeePieces(u) \/ DeletePieces(u)
             \/ SeeItems(u) \/ DeleteItems(u) \/ Reread(u) \/ Fail(u)
      PROVE  TypeOK'
  <2> USE DEF Goto, orderVars, txVars, Places, InSave, InTx
  <2>1. CASE Save(u)
    BY <2>1 DEF Save
  <2>2. CASE Check(u)
    BY <2>2 DEF Check, Compared
  <2>3. CASE Drop(u)
    BY <2>3 DEF Drop, Compared
  <2>4. CASE SeePieces(u)
    BY <2>4 DEF SeePieces
  <2>5. CASE DeletePieces(u)
    BY <2>5 DEF DeletePieces
  <2>6. CASE SeeItems(u)
    BY <2>6 DEF SeeItems, ItemsSeen
  <2>7. CASE DeleteItems(u)
    BY <2>7 DEF DeleteItems, Left
  <2>8. CASE Reread(u)
    BY <2>8 DEF Reread
  <2>9. CASE Fail(u)
    BY <2>9 DEF Fail, Ended
  <2> QED
    BY <1>4, <2>1, <2>2, <2>3, <2>4, <2>5, <2>6, <2>7, <2>8, <2>9
<1>5. ASSUME NEW u \in Users, Commit(u)
      PROVE  TypeOK'
  <2> DEFINE v == version + 1
             knew == version \in known[u]
             s == [at |-> v, on |-> base[u], by |-> u, knew |-> knew]
  <2>1. v \in 1..MaxSaves /\ v \in 0..MaxSaves /\ version' = v
    BY <1>5 DEF Commit
  <2>2. items' \in SUBSET (0..MaxSaves) /\ pieces' \in SUBSET (0..MaxSaves)
    <3>1. items' = (items \ gone[u]) \cup {v} /\ pieces' = (pieces \ hold[u]) \cup {v}
      BY <1>5 DEF Commit
    <3> QED
      BY <2>1, <3>1
  <2>3. saves' \in SUBSET [at : 1..MaxSaves, on : 0..MaxSaves, by : Users, knew : BOOLEAN]
    <3>1. base[u] \in 0..MaxSaves /\ knew \in BOOLEAN
      BY <1>5 DEF Commit, KnownInv, Knows, PageOpen, InSave, InTx
    <3>2. saves' = saves \cup {s}
      BY <1>5 DEF Commit
    <3> HIDE DEF knew
    <3>3. s \in [at : 1..MaxSaves, on : 0..MaxSaves, by : Users, knew : BOOLEAN]
      BY <2>1, <3>1, Zenon
    <3> QED
      BY <3>2, <3>3
  <2>4. known' \in [Users -> SUBSET (0..MaxSaves)]
    BY <1>5, <2>1 DEF Commit
  <2>5. /\ cut' \in [Users -> SUBSET (0..MaxSaves)]
        /\ hold' \in [Users -> SUBSET (0..MaxSaves)]
        /\ gone' \in [Users -> SUBSET (0..MaxSaves)]
    BY <1>5 DEF Commit, Ended
  <2>6. pc' \in [Users -> Places] /\ lock' = lock /\ base' = base /\ seen' = seen
    BY <1>5 DEF Commit, Goto, Places, InSave
  <2> QED
    BY <2>1, <2>2, <2>3, <2>4, <2>5, <2>6
<1> QED
  BY <1>1, <1>2, <1>3, <1>4, <1>5 DEF Next

\* A step of one page that commits nothing.
LEMMA OwnStep ==
  ASSUME KnownInv, NEW u \in Users, version' = version,
         \A w \in Users \ {u} : /\ pc'[w] = pc[w] /\ base'[w] = base[w]
                                /\ seen'[w] = seen[w] /\ known'[w] = known[w],
         Knows(pc'[u], base'[u], seen'[u], known'[u], version)
  PROVE  KnownInv'
<1> SUFFICES ASSUME NEW w \in Users
             PROVE  Knows(pc'[w], base'[w], seen'[w], known'[w], version)
  BY DEF KnownInv
<1>1. CASE w = u
  BY <1>1
<1>2. CASE w # u
  BY <1>2 DEF KnownInv
<1> QED
  BY <1>1, <1>2

LEMMA StepKnown == ASSUME TypeOK, KnownInv, [Next]_vars PROVE KnownInv'
<1> USE EditAssumption DEF TypeOK, Goto, PageOpen, InSave, InTx
<1>1. CASE UNCHANGED vars
  BY <1>1 DEF vars, KnownInv
<1>2. CASE Expire \/ ForceUnlock
  BY <1>2 DEF Expire, ForceUnlock, orderVars, KnownInv
<1>3. ASSUME NEW u \in Users,
             Load(u) \/ Ask(u) \/ Refresh(u) \/ Take(u) \/ Leave(u) \/ Look(u) \/ Unlock(u)
      PROVE  KnownInv'
  <2>1. /\ version' = version
        /\ \A w \in Users \ {u} : /\ pc'[w] = pc[w] /\ base'[w] = base[w]
                                 /\ seen'[w] = seen[w] /\ known'[w] = known[w]
    BY <1>3 DEF Load, Ask, Refresh, Take, Leave, Look, Unlock, orderVars
  <2>2. Knows(pc[u], base[u], seen[u], known[u], version)
    BY DEF KnownInv
  <2>3. CASE Load(u)
    BY <2>1, <2>2, <2>3, OwnStep DEF Load, Knows
  <2>4. CASE Ask(u)
    BY <2>1, <2>2, <2>4, OwnStep DEF Ask, Knows
  <2>5. CASE Refresh(u)
    BY <2>1, <2>2, <2>5, OwnStep DEF Refresh, Knows
  <2>6. CASE Take(u)
    BY <2>1, <2>2, <2>6, OwnStep DEF Take, Knows
  <2>7. CASE Leave(u)
    BY <2>1, <2>2, <2>7, OwnStep DEF Leave, Knows
  <2>8. CASE Look(u)
    BY <2>1, <2>2, <2>8, OwnStep DEF Look, Back, Knows
  <2>9. CASE Unlock(u)
    BY <2>1, <2>2, <2>9, OwnStep DEF Unlock, Back, Knows
  <2> QED
    BY <1>3, <2>3, <2>4, <2>5, <2>6, <2>7, <2>8, <2>9
<1>4. ASSUME NEW u \in Users,
             \/ Save(u) \/ Check(u) \/ Drop(u) \/ SeePieces(u) \/ DeletePieces(u)
             \/ SeeItems(u) \/ DeleteItems(u) \/ Reread(u) \/ Fail(u)
      PROVE  KnownInv'
  <2>1. /\ version' = version
        /\ \A w \in Users \ {u} : /\ pc'[w] = pc[w] /\ base'[w] = base[w]
                                 /\ seen'[w] = seen[w] /\ known'[w] = known[w]
    BY <1>4 DEF Save, Check, Drop, SeePieces, DeletePieces, SeeItems, DeleteItems,
                Reread, Fail, orderVars
  <2>2. Knows(pc[u], base[u], seen[u], known[u], version)
    BY DEF KnownInv
  <2>3. CASE Save(u)
    BY <2>1, <2>2, <2>3, OwnStep DEF Save, Knows
  <2>4. CASE Check(u)
    BY <2>1, <2>2, <2>4, OwnStep DEF Check, Compared, Unchanged, Knows
  <2>5. CASE Drop(u)
    BY <2>1, <2>2, <2>5, OwnStep DEF Drop, Compared, Unchanged, Knows
  <2>6. CASE SeePieces(u)
    BY <2>1, <2>2, <2>6, OwnStep DEF SeePieces, Knows
  <2>7. CASE DeletePieces(u)
    BY <2>1, <2>2, <2>7, OwnStep DEF DeletePieces, Knows
  <2>8. CASE SeeItems(u)
    BY <2>1, <2>2, <2>8, OwnStep DEF SeeItems, Knows
  <2>9. CASE DeleteItems(u)
    BY <2>1, <2>2, <2>9, OwnStep DEF DeleteItems, Knows
  <2>10. CASE Reread(u)
    <3>1. version \in 1..version /\ version \in known[u]
      BY <2>2, <2>10 DEF Reread, Knows
    <3> QED
      BY <2>1, <2>2, <2>10, <3>1, OwnStep DEF Reread, Knows
  <2>11. CASE Fail(u)
    BY <2>1, <2>2, <2>11, OwnStep DEF Fail, Knows
  <2> QED
    BY <1>4, <2>3, <2>4, <2>5, <2>6, <2>7, <2>8, <2>9, <2>10, <2>11
<1>5. ASSUME NEW u \in Users, Commit(u)
      PROVE  KnownInv'
  <2> SUFFICES ASSUME NEW w \in Users
               PROVE  Knows(pc'[w], base'[w], seen'[w], known'[w], version')
    BY DEF KnownInv
  <2>1. Knows(pc[w], base[w], seen[w], known[w], version)
    BY DEF KnownInv
  <2>2. /\ version' = version + 1 /\ base'[w] = base[w] /\ seen'[w] = seen[w]
        /\ pc[u] = "commit" /\ pc'[w] = IF w = u THEN "reread" ELSE pc[w]
        /\ known'[w] = IF pc[w] \in InSave THEN known[w] \cup {version + 1} ELSE known[w]
    BY <1>5 DEF Commit
  <2> QED
    BY <2>1, <2>2 DEF Knows
<1> QED
  BY <1>1, <1>2, <1>3, <1>4, <1>5 DEF Next

LEMMA StepLost == ASSUME IInv, [Next]_vars PROVE LostOnlyInOverlap'
<1> USE EditAssumption
<1>1. ASSUME NEW u \in Users, Commit(u)
      PROVE  LostOnlyInOverlap'
  <2>1. Knows(pc[u], base[u], seen[u], known[u], version) /\ pc[u] = "commit"
    BY <1>1 DEF IInv, KnownInv, Commit
  <2>2. version \in known[u]
    <3>1. seen[u] \in known[u] /\ \A x \in 1..version : x > seen[u] => x \in known[u]
      BY <2>1 DEF Knows, InTx, InSave, PageOpen
    <3>2. version \in 0..MaxSaves /\ seen[u] \in 0..MaxSaves /\ seen[u] <= version
      BY <2>1 DEF Knows, IInv, TypeOK
    <3> QED
      BY <3>1, <3>2
  <2> DEFINE s == [at |-> version + 1, on |-> base[u], by |-> u, knew |-> version \in known[u]]
  <2>3. saves' = saves \cup {s} /\ s.knew
    BY <1>1, <2>2 DEF Commit
  <2> HIDE DEF s
  <2> QED
    BY <2>3 DEF IInv, LostOnlyInOverlap
<1>2. CASE saves' = saves
  BY <1>2 DEF IInv, LostOnlyInOverlap
<1>3. CASE \A u \in Users : ~Commit(u)
  BY <1>2, <1>3 DEF Next, vars, orderVars, Load, Ask, Refresh, Take, Leave, Look, Unlock,
     Save, Check, Drop, SeePieces, DeletePieces, SeeItems, DeleteItems, Reread, Fail,
     Expire, ForceUnlock
<1> QED
  BY <1>1, <1>3

\* The invariant that carries both results.
THEOREM Invariance == Spec => []IInv
<1>1. IInv /\ [Next]_vars => IInv'
  BY StepType, StepKnown, StepLost DEF IInv
<1> QED
  BY InitIInv, <1>1, PTL DEF Spec

\* Every variable keeps its type, for any number of users and saves.
THEOREM TypeCorrect == Spec => []TypeOK
<1>1. IInv => TypeOK
  BY DEF IInv
<1> QED
  BY Invariance, <1>1, PTL

\* No save overwrites what its author had no part in, whatever happens to
\* the lock.
THEOREM NoBlindOverwrite == Spec => []LostOnlyInOverlap
<1>1. IInv => LostOnlyInOverlap
  BY DEF IInv
<1> QED
  BY Invariance, <1>1, PTL

-----------------------------------------------------------------------------
(* Two saves at once.                                                      *)

\* What a transaction has deleted while at most one save has committed: the
\* one generation of rows there is, or nothing.
Holds(place, v, c, h, g) ==
  /\ place \notin {"items", "restrict", "commit"} => h = {}
  /\ h \in {{}, {v}}
  /\ v = 0 /\ place \in {"items", "restrict", "commit"} => h = {v}
  /\ place = "hold" => c \in {{0}, {v}}
  /\ place = "restrict" => c = {v}
  /\ place = "commit" => h = {v} /\ g = {v}

HoldsInv ==
  /\ \A u \in Users : Holds(pc[u], version, cut[u], hold[u], gone[u])
  /\ \A u, w \in Users : u # w => hold[u] \cap hold[w] = {}

MixInv ==
  Opening # {} => /\ version <= 2 => items = {version} /\ pieces = {version}
                  /\ version <= 1 => HoldsInv

\* A step of one page that commits nothing and deletes no piece.
LEMMA OwnHolds ==
  ASSUME HoldsInv, NEW u \in Users, version' = version,
         \A w \in Users \ {u} : /\ pc'[w] = pc[w] /\ cut'[w] = cut[w]
                                /\ hold'[w] = hold[w] /\ gone'[w] = gone[w],
         Holds(pc'[u], version, cut'[u], hold'[u], gone'[u]),
         \A w \in Users \ {u} : hold'[u] \cap hold[w] = {}
  PROVE  HoldsInv'
<1>1. ASSUME NEW w \in Users
      PROVE  Holds(pc'[w], version, cut'[w], hold'[w], gone'[w])
  BY <1>1 DEF HoldsInv
<1>2. ASSUME NEW x \in Users, NEW w \in Users, x # w
      PROVE  hold'[x] \cap hold'[w] = {}
  BY <1>2 DEF HoldsInv
<1> QED
  BY <1>1, <1>2 DEF HoldsInv

LEMMA StepHolds ==
  ASSUME TypeOK, HoldsInv, items = {version}, pieces = {version}, version \in {0, 1},
         NEW u \in Users, version' = version,
         \/ Load(u) \/ Ask(u) \/ Refresh(u) \/ Take(u) \/ Leave(u) \/ Look(u) \/ Unlock(u)
         \/ Save(u) \/ Check(u) \/ Drop(u) \/ SeePieces(u) \/ DeletePieces(u)
         \/ SeeItems(u) \/ DeleteItems(u) \/ Reread(u) \/ Fail(u)
  PROVE  HoldsInv'
<1> USE DEF TypeOK, Goto
<1>1. Holds(pc[u], version, cut[u], hold[u], gone[u])
  BY DEF HoldsInv
<1>2. \A w \in Users \ {u} : /\ pc'[w] = pc[w] /\ cut'[w] = cut[w]
                             /\ hold'[w] = hold[w] /\ gone'[w] = gone[w]
  BY DEF Load, Ask, Refresh, Take, Leave, Look, Unlock, Save, Check, Drop, SeePieces,
         DeletePieces, SeeItems, DeleteItems, Reread, Fail, Ended, txVars
<1>3. \A w \in Users \ {u} : hold[u] \cap hold[w] = {}
  BY DEF HoldsInv
<1>4. CASE Load(u) \/ Ask(u) \/ Refresh(u) \/ Take(u) \/ Leave(u) \/ Look(u) \/ Unlock(u)
           \/ Save(u) \/ Check(u) \/ Drop(u) \/ Reread(u)
  <2>1. pc[u] \notin {"items", "restrict", "commit"} /\ pc'[u] \notin {"hold", "items", "restrict", "commit"}
    BY <1>4 DEF Load, Ask, Refresh, Take, Leave, Look, Unlock, Save, Check, Drop, Reread,
                Back, Compared
  <2>2. cut' = cut /\ hold' = hold /\ gone' = gone
    BY <1>4 DEF Load, Ask, Refresh, Take, Leave, Look, Unlock, Save, Check, Drop, Reread, txVars
  <2> QED
    BY <1>1, <1>2, <1>3, <2>1, <2>2, OwnHolds DEF Holds
<1>5. CASE SeePieces(u)
  BY <1>1, <1>2, <1>3, <1>5, OwnHolds DEF SeePieces, Holds
<1>6. CASE DeletePieces(u)
  <2>1. /\ pc'[u] = "items" /\ cut'[u] = cut[u] /\ gone'[u] = gone[u]
        /\ hold'[u] = cut[u] \cap {version} /\ cut[u] \in {{0}, {version}}
        /\ \A w \in Users \ {u} : hold[w] \cap cut[u] = {}
    BY <1>1, <1>6 DEF DeletePieces, Holds
  <2>2. hold'[u] \in {{}, {version}} /\ (version = 0 => hold'[u] = {version})
    BY <2>1
  <2>3. \A w \in Users \ {u} : hold'[u] \cap hold[w] = {}
    BY <2>1
  <2> QED
    BY <1>2, <2>1, <2>2, <2>3, OwnHolds DEF Holds
<1>7. CASE SeeItems(u)
  BY <1>1, <1>2, <1>3, <1>7, OwnHolds DEF SeeItems, ItemsSeen, Holds
<1>8. CASE DeleteItems(u)
  <2>1. /\ pc'[u] = "commit" /\ cut'[u] = cut[u] /\ hold'[u] = hold[u]
        /\ gone'[u] = cut[u] \cap items /\ cut[u] = {version}
        /\ (cut[u] \cap items) \cap pieces \subseteq hold[u]
    BY <1>1, <1>8 DEF DeleteItems, Left, Holds
  <2>2. gone'[u] = {version} /\ hold'[u] = {version}
    BY <1>1, <2>1 DEF Holds
  <2> QED
    BY <1>2, <1>3, <2>1, <2>2, OwnHolds DEF Holds
<1>9. CASE Fail(u)
  <2>1. pc'[u] = "edit" /\ hold'[u] = {}
    BY <1>9 DEF Fail, Ended
  <2> QED
    BY <1>2, <2>1, OwnHolds DEF Holds
<1> QED
  BY <1>4, <1>5, <1>6, <1>7, <1>8, <1>9

LEMMA StepMix == ASSUME TypeOK, MixInv, [Next]_vars PROVE MixInv'
<1> USE EditAssumption
<1> SUFFICES ASSUME Opening # {} PROVE MixInv'
  BY DEF MixInv
<1>1. ASSUME NEW u \in Users, Commit(u), version <= 1
      PROVE  /\ items' = {version'} /\ pieces' = {version'}
             /\ version' <= 1 => HoldsInv'
  <2>1. /\ items = {version} /\ pieces = {version} /\ HoldsInv /\ version \in {0, 1}
    BY <1>1 DEF MixInv, TypeOK
  <2>2. pc[u] = "commit" /\ hold[u] = {version} /\ gone[u] = {version}
    BY <1>1, <2>1 DEF HoldsInv, Holds, Commit
  <2>3. version' = version + 1 /\ items' = {version'} /\ pieces' = {version'}
    BY <1>1, <2>1, <2>2 DEF Commit
  <2>4. ASSUME version' <= 1
        PROVE  HoldsInv'
    <3>1. version = 0 /\ version' = 1
      BY <2>1, <2>3, <2>4
    <3>2. ASSUME NEW w \in Users, w # u
          PROVE  /\ pc'[w] = pc[w] /\ cut'[w] = cut[w] /\ hold'[w] = {} /\ gone'[w] = gone[w]
                 /\ pc[w] \notin {"items", "restrict", "commit"}
                 /\ pc[w] = "hold" => cut[w] = {0}
      <4>1. hold[w] = {}
        BY <2>1, <2>2, <3>2 DEF HoldsInv, Holds
      <4>2. /\ pc'[w] = pc[w] /\ cut'[w] = cut[w] /\ hold'[w] = hold[w] /\ gone'[w] = gone[w]
        BY <1>1, <3>2 DEF Commit, Ended, Goto, TypeOK
      <4>3. Holds(pc[w], version, cut[w], hold[w], gone[w])
        BY <2>1 DEF HoldsInv
      <4> QED
        BY <3>1, <4>1, <4>2, <4>3 DEF Holds
    <3>3. pc'[u] = "reread" /\ hold'[u] = {}
      BY <1>1 DEF Commit, Ended, Goto, TypeOK
    <3>4. ASSUME NEW w \in Users
          PROVE  Holds(pc'[w], version', cut'[w], hold'[w], gone'[w]) /\ hold'[w] = {}
      BY <3>1, <3>2, <3>3 DEF Holds
    <3> QED
      BY <3>4 DEF HoldsInv
  <2> QED
    BY <2>3, <2>4
<1>2. ASSUME NEW u \in Users, Commit(u)
      PROVE  MixInv'
  <2>1. version' = version + 1 /\ version \in Int
    BY <1>2 DEF Commit, TypeOK
  <2> QED
    BY <1>1, <1>2, <2>1 DEF MixInv
<1>3. ASSUME version' = version, items' = items, pieces' = pieces,
             version <= 1 => HoldsInv'
      PROVE  MixInv'
  BY <1>3 DEF MixInv
<1>4. CASE UNCHANGED vars \/ Expire \/ ForceUnlock
  <2>1. UNCHANGED <<version, items, pieces, pc, cut, hold, gone>>
    BY <1>4 DEF vars, Expire, ForceUnlock, orderVars, txVars
  <2> QED
    BY <1>3, <2>1 DEF HoldsInv, MixInv
<1>5. ASSUME NEW u \in Users,
             \/ Load(u) \/ Ask(u) \/ Refresh(u) \/ Take(u) \/ Leave(u) \/ Look(u) \/ Unlock(u)
             \/ Save(u) \/ Check(u) \/ Drop(u) \/ SeePieces(u) \/ DeletePieces(u)
             \/ SeeItems(u) \/ DeleteItems(u) \/ Reread(u) \/ Fail(u)
      PROVE  MixInv'
  <2>1. UNCHANGED <<version, items, pieces>>
    BY <1>5 DEF Load, Ask, Refresh, Take, Leave, Look, Unlock, Save, Check, Drop, SeePieces,
                DeletePieces, SeeItems, DeleteItems, Reread, Fail, orderVars
  <2>2. ASSUME version <= 1
        PROVE  HoldsInv'
    <3>1. HoldsInv /\ items = {version} /\ pieces = {version} /\ version \in {0, 1}
      BY <2>2 DEF MixInv, TypeOK
    <3> QED
      BY <1>5, <2>1, <3>1, StepHolds
  <2> QED
    BY <1>3, <2>1, <2>2
<1> QED
  BY <1>2, <1>4, <1>5 DEF Next

\* The second DELETE and the foreign key keep two overlapping saves of an
\* order apart, for any number of people who have it open.
THEOREM OverlapKeepsOne == Spec => []TwoSavesDontMix
<1>1. Init => MixInv
  <2> SUFFICES ASSUME Init PROVE MixInv
    OBVIOUS
  <2>1. /\ version = 0 /\ (Opening # {} => items = {0} /\ pieces = {0})
        /\ \A u \in Users : pc[u] = "idle" /\ hold[u] = {}
    BY EditAssumption DEF Init
  <2>2. HoldsInv
    BY <2>1 DEF HoldsInv, Holds
  <2> QED
    BY <2>1, <2>2 DEF MixInv
<1>2. TypeOK /\ MixInv /\ [Next]_vars => MixInv'
  BY StepMix
<1>3. MixInv => TwoSavesDontMix
  BY DEF MixInv, TwoSavesDontMix
<1> QED
  BY <1>1, <1>2, <1>3, TypeCorrect, PTL DEF Spec

-----------------------------------------------------------------------------
(* Saves one after the other.                                              *)

\* From the reading of the order to the commit.
Saving == {"check", "drop"} \cup InTx

\* What the edit lock is for: of the saves that have read the order and not
\* committed, there is one at most.
SavesDontOverlap == \A u, w \in Users : pc[u] \in Saving /\ pc[w] \in Saving => u = w

\* The rows of one save, and of no other, once there has been one.
RowsOfOneSave == version > 0 => items = {version} /\ pieces = {version}

Rows == IF version = 0 THEN Opening ELSE {version}

\* A save knows the order as it stands, and deletes the rows there are.
Serial(place, n, c, h, g) ==
  /\ place \in Saving => n = version
  /\ h = IF place \in {"items", "restrict", "commit"} THEN pieces ELSE {}
  /\ place = "hold" => c = pieces
  /\ place = "restrict" => c = items
  /\ place = "commit" => g = items

SerialInv ==
  /\ items = Rows /\ pieces = Rows /\ NoLostSave
  /\ \A u \in Users : Serial(pc[u], seen[u], cut[u], hold[u], gone[u])

LEMMA StepSerial ==
  ASSUME IInv, SerialInv, SavesDontOverlap, [Next]_vars
  PROVE  SerialInv'
<1> USE DEF IInv, TypeOK, Goto
\* A step of one page that commits nothing leaves the others as they were.
<1>1. ASSUME NEW u \in Users, UNCHANGED orderVars,
             \A w \in Users \ {u} : /\ pc'[w] = pc[w] /\ seen'[w] = seen[w] /\ cut'[w] = cut[w]
                                    /\ hold'[w] = hold[w] /\ gone'[w] = gone[w],
             Serial(pc'[u], seen'[u], cut'[u], hold'[u], gone'[u])
      PROVE  SerialInv'
  <2>1. UNCHANGED <<version, items, pieces, saves>>
    BY <1>1 DEF orderVars
  <2>2. Rows' = Rows /\ NoLostSave'
    BY <2>1 DEF Rows, NoLostSave, SerialInv
  <2>3. ASSUME NEW w \in Users
        PROVE  Serial(pc[w], seen[w], cut[w], hold[w], gone[w])'
    <3>1. CASE w = u
      BY <1>1, <2>1, <3>1 DEF Serial
    <3>2. CASE w # u
      BY <1>1, <2>1, <3>2 DEF SerialInv, Serial
    <3> QED
      BY <3>1, <3>2
  <2> QED
    BY <2>1, <2>2, <2>3 DEF SerialInv
<1>2. ASSUME NEW u \in Users, Commit(u)
      PROVE  SerialInv'
  <2>1. Serial(pc[u], seen[u], cut[u], hold[u], gone[u]) /\ pc[u] = "commit"
    BY <1>2 DEF SerialInv, Commit
  <2>2. hold[u] = pieces /\ gone[u] = items /\ seen[u] = version /\ base[u] = seen[u]
    BY <2>1 DEF Serial, Saving, InTx, KnownInv, Knows
  <2>3. /\ version' = version + 1 /\ items' = {version'} /\ pieces' = {version'}
        /\ \E b \in BOOLEAN :
             saves' = saves \cup {[at |-> version', on |-> version, by |-> u, knew |-> b]}
    <3>1. /\ version' = version + 1
          /\ items' = (items \ gone[u]) \cup {version'}
          /\ pieces' = (pieces \ hold[u]) \cup {version'}
          /\ saves' = saves \cup {[at |-> version', on |-> base[u], by |-> u,
                                   knew |-> version \in known[u]]}
      BY <1>2 DEF Commit
    <3>2. (version \in known[u]) \in BOOLEAN
      OBVIOUS
    <3> QED
      BY <2>2, <3>1, <3>2
  <2>4. NoLostSave' /\ Rows' = {version'}
    BY <2>3 DEF SerialInv, NoLostSave, Rows
  <2>5. ASSUME NEW w \in Users
        PROVE  Serial(pc[w], seen[w], cut[w], hold[w], gone[w])'
    <3>1. CASE w = u
      <4>1. pc'[u] = "reread" /\ hold'[u] = {}
        BY <1>2 DEF Commit, Ended
      <4> QED
        BY <3>1, <4>1 DEF Serial, Saving, InTx
    <3>2. CASE w # u
      <4>1. pc[w] \notin Saving
        BY <2>1, <3>2 DEF SavesDontOverlap, Saving, InTx
      <4>2. pc'[w] = pc[w] /\ hold'[w] = hold[w]
        BY <1>2, <3>2 DEF Commit, Ended
      <4> QED
        BY <4>1, <4>2 DEF Serial, Saving, InTx, SerialInv
    <3> QED
      BY <3>1, <3>2
  <2> QED
    BY <2>3, <2>4, <2>5 DEF SerialInv
<1>3. ASSUME NEW u \in Users,
             \/ Load(u) \/ Ask(u) \/ Refresh(u) \/ Take(u) \/ Leave(u) \/ Look(u) \/ Unlock(u)
             \/ Reread(u) \/ Fail(u)
      PROVE  SerialInv'
  <2>1. /\ UNCHANGED orderVars /\ pc'[u] \notin Saving /\ hold'[u] = {}
        /\ \A w \in Users \ {u} : /\ pc'[w] = pc[w] /\ seen'[w] = seen[w] /\ cut'[w] = cut[w]
                                  /\ hold'[w] = hold[w] /\ gone'[w] = gone[w]
    BY <1>3 DEF Load, Ask, Refresh, Take, Leave, Look, Unlock, Reread, Fail, Back, Ended,
                txVars, Saving, InTx, SerialInv, Serial
  <2> QED
    BY <1>1, <2>1 DEF Serial, Saving, InTx
<1>4. ASSUME NEW u \in Users, Save(u) \/ Check(u) \/ Drop(u)
      PROVE  SerialInv'
  <2>1. /\ UNCHANGED <<orderVars, txVars>> /\ pc'[u] \in {"check", "drop", "edit", "pieces"}
        /\ pc[u] \in {"edit", "check", "drop"}
        /\ \A w \in Users \ {u} : pc'[w] = pc[w] /\ seen'[w] = seen[w]
        /\ seen'[u] = IF pc[u] = "edit" THEN version ELSE seen[u]
    BY <1>4 DEF Save, Check, Drop, Compared
  <2>2. seen'[u] = version /\ hold[u] = {}
    BY <2>1 DEF SerialInv, Serial, Saving
  <2> QED
    BY <1>1, <2>1, <2>2 DEF Serial, txVars
<1>5. ASSUME NEW u \in Users, SeePieces(u) \/ DeletePieces(u) \/ SeeItems(u) \/ DeleteItems(u)
      PROVE  SerialInv'
  <2>1. /\ UNCHANGED <<orderVars, seen>> /\ pc[u] \in Saving
        /\ \A w \in Users \ {u} : /\ pc'[w] = pc[w] /\ cut'[w] = cut[w]
                                  /\ hold'[w] = hold[w] /\ gone'[w] = gone[w]
    BY <1>5 DEF SeePieces, DeletePieces, SeeItems, DeleteItems, Saving, InTx
  <2>2. Serial(pc[u], seen[u], cut[u], hold[u], gone[u]) /\ seen[u] = version
    BY <2>1 DEF SerialInv, Serial
  <2>3. Serial(pc'[u], seen'[u], cut'[u], hold'[u], gone'[u])
    BY <1>5, <2>1, <2>2 DEF SeePieces, DeletePieces, SeeItems, DeleteItems, ItemsSeen, Left, Serial
  <2> QED
    BY <1>1, <2>1, <2>3
<1>6. ASSUME Expire \/ ForceUnlock \/ UNCHANGED vars
      PROVE  SerialInv'
  BY <1>6 DEF Expire, ForceUnlock, vars, orderVars, txVars, SerialInv, Serial, Rows, NoLostSave
<1> QED
  BY <1>2, <1>3, <1>4, <1>5, <1>6 DEF Next

\* If saves do not overlap, none is lost, and the order consists of the rows
\* of the last one, however many there are and a quick drop included: the
\* comparison with what the page loaded is enough then, with or without locks
\* that expire, are taken twice or are deleted by others.
THEOREM SerialSaves == Spec /\ []SavesDontOverlap => [](NoLostSave /\ RowsOfOneSave)
<1>1. Init => SerialInv
  BY DEF Init, SerialInv, Serial, Rows, NoLostSave, Saving, InTx
<1>2. SerialInv => NoLostSave /\ RowsOfOneSave
  BY DEF SerialInv, Rows, RowsOfOneSave
<1>3. IInv /\ SerialInv /\ SavesDontOverlap /\ [Next]_vars => SerialInv'
  BY StepSerial
<1> QED
  BY <1>1, <1>2, <1>3, Invariance, PTL DEF Spec
=============================================================================
