--------------------------- MODULE TotalTheorems ---------------------------
(***************************************************************************)
(* What a sum over a finite set is, whatever order its terms are added in. *)
(* Each proof by induction on the set is written as a search for a least   *)
(* counterexample: LeastSet gives a set of subsets its least member.       *)
(***************************************************************************)
EXTENDS Totals, FiniteSetTheorems, TLAPS

\* The term that a sum takes first, and what is left then.
Elem(S) == CHOOSE x \in S : TRUE
Rest(S) == S \ {Elem(S)}

\* f gives every subset of S its sum.
IsTotal(w, S, f) ==
  f = [s \in SUBSET S |-> IF s = {} THEN 0 ELSE w[Elem(s)] + f[Rest(s)]]
TotalOf(w, S) == CHOOSE f : IsTotal(w, S, f)

-----------------------------------------------------------------------------
(* The recursion behind the sum is well founded                            *)

\* SumOver is such a function, if there is one.
LEMMA SumChoice == \A w, S : SumOver(w, S) = TotalOf(w, S)[S]
  BY SMT DEF SumOver, MapThenSumSet, MapThenFoldSet, IsTotal, TotalOf, Elem, Rest

\* A set of finite sets has a member with no smaller one inside it.
LEMMA LeastSet ==
  ASSUME NEW C, C # {}, \A s \in C : IsFiniteSet(s)
  PROVE  \E s \in C : \A t \in C : t \subseteq s => t = s
<1> DEFINE T == {Cardinality(s) : s \in C}
<1>1. T \subseteq Nat /\ T # {}
  BY FS_CardinalityType
<1>2. PICK n \in T : \A m \in T : <<m, n>> \notin OpToRel(<, Nat)
  <2> HIDE DEF T
  <2> QED
    BY <1>1, WFMin, NatLessThanWellFounded, Zenon
<1>3. PICK s \in C : n = Cardinality(s)
  OBVIOUS
<1>4. \A t \in C : ~ (Cardinality(t) < Cardinality(s))
  BY <1>1, <1>2, <1>3 DEF OpToRel
<1>5. ASSUME NEW t \in C, t \subseteq s PROVE t = s
  <2>1. t \in SUBSET s /\ IsFiniteSet(s)
    BY <1>5
  <2>2. Cardinality(t) <= Cardinality(s) /\ (Cardinality(s) = Cardinality(t) => s = t)
    BY <2>1, FS_Subset
  <2>3. Cardinality(s) \in Nat /\ Cardinality(t) \in Nat
    BY <1>1
  <2> QED
    BY <1>4, <2>2, <2>3
<1> QED
  BY <1>5

\* Taking a term leaves a smaller set.
LEMMA ElemRest ==
  ASSUME NEW S, S # {}
  PROVE  Elem(S) \in S /\ Rest(S) \in SUBSET S /\ Rest(S) # S
  BY DEF Elem, Rest

\* Two such functions agree where both are defined.
LEMMA TotalUnique ==
  ASSUME NEW w, NEW S, IsFiniteSet(S), NEW U, IsFiniteSet(U), NEW f, NEW g,
         IsTotal(w, S, f), IsTotal(w, U, g)
  PROVE  \A s \in SUBSET (S \cap U) : f[s] = g[s]
<1> DEFINE C == {s \in SUBSET (S \cap U) : f[s] # g[s]}
<1> SUFFICES ASSUME C # {} PROVE FALSE
  OBVIOUS
<1>1. \A s \in C : IsFiniteSet(s)
  BY FS_Subset
<1>2. PICK s \in C : \A t \in C : t \subseteq s => t = s
  <2> HIDE DEF C
  <2> QED
    BY <1>1, LeastSet
<1>3. s # {}
  BY DEF IsTotal
<1>4. f[Rest(s)] = g[Rest(s)]
  BY <1>2, <1>3, ElemRest
<1> QED
  BY <1>3, <1>4 DEF IsTotal

\* Every finite set has such a function.
LEMMA TotalDefined ==
  ASSUME NEW w, NEW S, IsFiniteSet(S)
  PROVE  IsTotal(w, S, TotalOf(w, S))
<1> DEFINE C == {s \in SUBSET S : ~ \E f : IsTotal(w, s, f)}
<1>1. C = {}
  <2> SUFFICES ASSUME C # {} PROVE FALSE
    OBVIOUS
  <2>1. \A s \in C : IsFiniteSet(s)
    BY FS_Subset
  <2>2. PICK s \in C : \A t \in C : t \subseteq s => t = s
    <3> HIDE DEF C
    <3> QED
      BY <2>1, LeastSet
  <2>3. \A t \in SUBSET s : t # s => IsTotal(w, t, TotalOf(w, t))
    BY <2>2 DEF TotalOf
  <2> DEFINE g == [t \in SUBSET s |-> IF t = {} THEN 0
                                      ELSE w[Elem(t)] + TotalOf(w, Rest(t))[Rest(t)]]
  <2>4. ASSUME NEW t \in SUBSET s, t # {} PROVE g[Rest(t)] = TotalOf(w, Rest(t))[Rest(t)]
    <3> DEFINE r == Rest(t)
    <3>1. r \in SUBSET s /\ r # s
      BY <2>4, ElemRest
    <3>2. IsTotal(w, r, TotalOf(w, r))
      BY <2>3, <3>1
    <3>3. TotalOf(w, r)[r] = IF r = {} THEN 0 ELSE w[Elem(r)] + TotalOf(w, r)[Rest(r)]
      <4>1. r \in SUBSET r
        OBVIOUS
      <4> QED
        BY <3>2, <4>1 DEF IsTotal
    <3>4. ASSUME r # {} PROVE TotalOf(w, r)[Rest(r)] = TotalOf(w, Rest(r))[Rest(r)]
      <4>1. Rest(r) \in SUBSET r /\ Rest(r) \in SUBSET s /\ Rest(r) # s
        BY <3>1, <3>4, ElemRest
      <4>2. IsTotal(w, Rest(r), TotalOf(w, Rest(r)))
        BY <2>3, <4>1
      <4>3. IsFiniteSet(r) /\ IsFiniteSet(Rest(r))
        BY <2>1, <3>1, <4>1, FS_Subset
      <4>4. Rest(r) \in SUBSET (r \cap Rest(r))
        BY <4>1
      <4> HIDE DEF r
      <4> QED
        BY <3>2, <4>2, <4>3, <4>4, TotalUnique
    <3>5. g[r] = IF r = {} THEN 0 ELSE w[Elem(r)] + TotalOf(w, Rest(r))[Rest(r)]
      BY <3>1
    <3> QED
      BY <3>3, <3>4, <3>5
  <2>5. IsTotal(w, s, g)
    BY <2>4 DEF IsTotal
  <2> QED
    BY <2>5
<1> QED
  BY <1>1 DEF TotalOf

\* A sum is its first term and the sum of the rest.
LEMMA SumUnfold ==
  ASSUME NEW w, NEW S, IsFiniteSet(S)
  PROVE  SumOver(w, S) = IF S = {} THEN 0 ELSE w[Elem(S)] + SumOver(w, Rest(S))
<1>1. IsTotal(w, S, TotalOf(w, S))
  BY TotalDefined
<1>2. TotalOf(w, S)[S] = IF S = {} THEN 0 ELSE w[Elem(S)] + TotalOf(w, S)[Rest(S)]
  <2>1. S \in SUBSET S
    OBVIOUS
  <2> QED
    BY <1>1, <2>1 DEF IsTotal
<1>3. ASSUME S # {} PROVE TotalOf(w, S)[Rest(S)] = TotalOf(w, Rest(S))[Rest(S)]
  <2>1. Rest(S) \in SUBSET S
    BY <1>3, ElemRest
  <2>2. IsFiniteSet(Rest(S))
    BY <2>1, FS_Subset
  <2>3. IsTotal(w, Rest(S), TotalOf(w, Rest(S)))
    BY <2>2, TotalDefined
  <2> QED
    BY <1>1, <2>1, <2>2, <2>3, TotalUnique
<1> QED
  BY <1>2, <1>3, SumChoice

-----------------------------------------------------------------------------
(* Sums                                                                    *)

\* No terms sum up to 0.
LEMMA SumEmpty == \A w : SumOver(w, {}) = 0
  BY SumUnfold, FS_EmptySet

\* A sum of integers is an integer.
LEMMA SumInt ==
  ASSUME NEW w, NEW S, IsFiniteSet(S), \A x \in S : w[x] \in Int
  PROVE  SumOver(w, S) \in Int
<1> DEFINE C == {s \in SUBSET S : SumOver(w, s) \notin Int}
<1> SUFFICES ASSUME C # {} PROVE FALSE
  BY DEF C
<1>1. \A s \in C : IsFiniteSet(s)
  BY FS_Subset
<1>2. PICK s \in C : \A t \in C : t \subseteq s => t = s
  <2> HIDE DEF C
  <2> QED
    BY <1>1, LeastSet
<1>3. SumOver(w, s) = IF s = {} THEN 0 ELSE w[Elem(s)] + SumOver(w, Rest(s))
  BY <1>1, SumUnfold
<1>4. s # {}
  BY <1>3
<1>5. Elem(s) \in S /\ SumOver(w, Rest(s)) \in Int
  BY <1>2, <1>4, ElemRest
<1> QED
  BY <1>3, <1>5

\* Any term may be taken first.
LEMMA SumElement ==
  ASSUME NEW w, NEW S, IsFiniteSet(S), \A x \in S : w[x] \in Int, NEW x \in S
  PROVE  SumOver(w, S) = w[x] + SumOver(w, S \ {x})
<1> DEFINE Bad(s) == \E y \in s : SumOver(w, s) # w[y] + SumOver(w, s \ {y})
           C == {s \in SUBSET S : Bad(s)}
<1> SUFFICES ASSUME C # {} PROVE FALSE
  OBVIOUS
<1>1. \A s \in C : IsFiniteSet(s)
  BY FS_Subset
<1>2. PICK s \in C : \A t \in C : t \subseteq s => t = s
  <2> HIDE DEF C
  <2> QED
    BY <1>1, LeastSet
<1>3. PICK y \in s : SumOver(w, s) # w[y] + SumOver(w, s \ {y})
  OBVIOUS
<1> DEFINE h == Elem(s)
<1>4. h \in s /\ s \in SUBSET S
  BY <1>3, ElemRest
<1>5. SumOver(w, s) = w[h] + SumOver(w, s \ {h})
  BY <1>1, <1>3, SumUnfold DEF Rest
<1>6. h # y
  BY <1>3, <1>5
<1> HIDE DEF h
<1>7. \A t \in SUBSET S : t \subseteq s /\ t # s => ~ Bad(t)
  BY <1>2
<1>8. SumOver(w, s \ {h}) = w[y] + SumOver(w, (s \ {h}) \ {y})
  <2>1. s \ {h} \in SUBSET S /\ s \ {h} \subseteq s /\ s \ {h} # s /\ y \in s \ {h}
    BY <1>3, <1>4, <1>6
  <2> QED
    BY <1>7, <2>1
<1>9. SumOver(w, s \ {y}) = w[h] + SumOver(w, (s \ {h}) \ {y})
  <2>1. s \ {y} \in SUBSET S /\ s \ {y} \subseteq s /\ s \ {y} # s /\ h \in s \ {y}
    BY <1>3, <1>4, <1>6
  <2>2. SumOver(w, s \ {y}) = w[h] + SumOver(w, (s \ {y}) \ {h})
    BY <1>7, <2>1
  <2>3. (s \ {y}) \ {h} = (s \ {h}) \ {y}
    OBVIOUS
  <2> QED
    BY <2>2, <2>3, Zenon
<1>10. SumOver(w, (s \ {h}) \ {y}) \in Int
  <2>1. (s \ {h}) \ {y} \in SUBSET S
    BY <1>4
  <2>2. IsFiniteSet((s \ {h}) \ {y})
    BY <2>1, FS_Subset
  <2> QED
    BY <2>1, <2>2, SumInt
<1>11. w[h] \in Int /\ w[y] \in Int
  BY <1>3, <1>4
<1> QED
  BY <1>3, <1>5, <1>7, <1>8, <1>9, <1>10, <1>11

\* A new term adds itself to the sum.
LEMMA SumAdd ==
  ASSUME NEW w, NEW S, IsFiniteSet(S), NEW x, x \notin S, \A y \in S \cup {x} : w[y] \in Int
  PROVE  SumOver(w, S \cup {x}) = w[x] + SumOver(w, S)
<1>1. IsFiniteSet(S \cup {x}) /\ x \in S \cup {x}
  BY FS_AddElement
<1>2. SumOver(w, S \cup {x}) = w[x] + SumOver(w, (S \cup {x}) \ {x})
  BY <1>1, SumElement
<1>3. (S \cup {x}) \ {x} = S
  OBVIOUS
<1> QED
  BY <1>2, <1>3, Zenon

\* Only the terms matter.
LEMMA SumEqual ==
  ASSUME NEW v, NEW w, NEW S, IsFiniteSet(S), \A x \in S : v[x] = w[x]
  PROVE  SumOver(v, S) = SumOver(w, S)
<1> DEFINE C == {s \in SUBSET S : SumOver(v, s) # SumOver(w, s)}
<1> SUFFICES ASSUME C # {} PROVE FALSE
  OBVIOUS
<1>1. \A s \in C : IsFiniteSet(s)
  BY FS_Subset
<1>2. PICK s \in C : \A t \in C : t \subseteq s => t = s
  <2> HIDE DEF C
  <2> QED
    BY <1>1, LeastSet
<1>3. /\ SumOver(v, s) = IF s = {} THEN 0 ELSE v[Elem(s)] + SumOver(v, Rest(s))
      /\ SumOver(w, s) = IF s = {} THEN 0 ELSE w[Elem(s)] + SumOver(w, Rest(s))
  BY <1>1, SumUnfold
<1>4. s # {}
  BY <1>3
<1>5. Elem(s) \in S /\ SumOver(v, Rest(s)) = SumOver(w, Rest(s))
  BY <1>2, <1>4, ElemRest
<1> QED
  BY <1>3, <1>5

\* Term by term, two sums add up to one.
LEMMA SumPlus ==
  ASSUME NEW u, NEW v, NEW w, NEW S, IsFiniteSet(S),
         \A x \in S : v[x] \in Int /\ w[x] \in Int /\ u[x] = v[x] + w[x]
  PROVE  SumOver(u, S) = SumOver(v, S) + SumOver(w, S)
<1> DEFINE C == {s \in SUBSET S : SumOver(u, s) # SumOver(v, s) + SumOver(w, s)}
<1> SUFFICES ASSUME C # {} PROVE FALSE
  OBVIOUS
<1>1. \A s \in C : IsFiniteSet(s)
  BY FS_Subset
<1>2. PICK s \in C : \A t \in C : t \subseteq s => t = s
  <2> HIDE DEF C
  <2> QED
    BY <1>1, LeastSet
<1>3. /\ SumOver(u, s) = IF s = {} THEN 0 ELSE u[Elem(s)] + SumOver(u, Rest(s))
      /\ SumOver(v, s) = IF s = {} THEN 0 ELSE v[Elem(s)] + SumOver(v, Rest(s))
      /\ SumOver(w, s) = IF s = {} THEN 0 ELSE w[Elem(s)] + SumOver(w, Rest(s))
  BY <1>1, SumUnfold
<1>4. s # {}
  BY <1>3
<1>5. Elem(s) \in S /\ SumOver(u, Rest(s)) = SumOver(v, Rest(s)) + SumOver(w, Rest(s))
  BY <1>2, <1>4, ElemRest
<1>6. SumOver(v, Rest(s)) \in Int /\ SumOver(w, Rest(s)) \in Int
  <2>1. Rest(s) \in SUBSET S
    BY <1>4, ElemRest
  <2> QED
    BY <2>1, FS_Subset, SumInt
<1> QED
  BY <1>3, <1>4, <1>5, <1>6

\* The sums over two sets that share no member add up to that over both.
LEMMA SumUnion ==
  ASSUME NEW w, NEW S, IsFiniteSet(S), NEW T, IsFiniteSet(T), S \cap T = {},
         \A x \in S \cup T : w[x] \in Int
  PROVE  SumOver(w, S \cup T) = SumOver(w, S) + SumOver(w, T)
<1> DEFINE C == {t \in SUBSET T : SumOver(w, S \cup t) # SumOver(w, S) + SumOver(w, t)}
<1> SUFFICES ASSUME C # {} PROVE FALSE
  OBVIOUS
<1>1. \A t \in C : IsFiniteSet(t)
  BY FS_Subset
<1>2. PICK t \in C : \A r \in C : r \subseteq t => r = t
  <2> HIDE DEF C
  <2> QED
    BY <1>1, LeastSet
<1>3. SumOver(w, S) \in Int
  BY SumInt
<1>4. CASE t = {}
  <2>1. S \cup t = S
    BY <1>4
  <2>2. SumOver(w, S \cup t) = SumOver(w, S)
    BY <2>1, Zenon
  <2> QED
    BY <1>3, <1>4, <2>2, SumEmpty
<1>5. CASE t # {}
  <2>1. PICK x \in t : TRUE
    BY <1>5
  <2> DEFINE r == t \ {x}
  <2>2. r \in SUBSET T /\ r \subseteq t /\ r # t
    OBVIOUS
  <2>3. SumOver(w, S \cup r) = SumOver(w, S) + SumOver(w, r)
    BY <1>2, <2>2
  <2>4. SumOver(w, t) = w[x] + SumOver(w, r)
    BY <1>1, SumElement
  <2>5. IsFiniteSet(S \cup t)
    BY <1>1, FS_Union
  <2>6. SumOver(w, S \cup t) = w[x] + SumOver(w, S \cup r)
    <3>1. SumOver(w, S \cup t) = w[x] + SumOver(w, (S \cup t) \ {x})
      BY <2>5, SumElement
    <3>2. (S \cup t) \ {x} = S \cup r
      OBVIOUS
    <3> QED
      BY <3>1, <3>2, Zenon
  <2>7. SumOver(w, r) \in Int /\ w[x] \in Int
    BY <2>2, FS_Subset, SumInt
  <2> QED
    BY <1>3, <2>3, <2>4, <2>6, <2>7
<1> QED
  BY <1>4, <1>5

\* A sum of natural numbers is one.
LEMMA SumNat ==
  ASSUME NEW w, NEW S, IsFiniteSet(S), \A x \in S : w[x] \in Nat
  PROVE  SumOver(w, S) \in Nat
<1> DEFINE C == {s \in SUBSET S : SumOver(w, s) \notin Nat}
<1> SUFFICES ASSUME C # {} PROVE FALSE
  BY DEF C
<1>1. \A s \in C : IsFiniteSet(s)
  BY FS_Subset
<1>2. PICK s \in C : \A t \in C : t \subseteq s => t = s
  <2> HIDE DEF C
  <2> QED
    BY <1>1, LeastSet
<1>3. SumOver(w, s) = IF s = {} THEN 0 ELSE w[Elem(s)] + SumOver(w, Rest(s))
  BY <1>1, SumUnfold
<1>4. s # {}
  BY <1>3
<1>5. Elem(s) \in S /\ SumOver(w, Rest(s)) \in Nat
  BY <1>2, <1>4, ElemRest
<1> QED
  BY <1>3, <1>5

\* The sum over a part of the set is not more than the whole.
LEMMA SumSubset ==
  ASSUME NEW w, NEW S, IsFiniteSet(S), \A x \in S : w[x] \in Nat, NEW T \in SUBSET S
  PROVE  SumOver(w, T) <= SumOver(w, S)
<1>1. IsFiniteSet(T) /\ IsFiniteSet(S \ T)
  BY FS_Subset
<1>2. SumOver(w, T \cup (S \ T)) = SumOver(w, T) + SumOver(w, S \ T)
  BY <1>1, SumUnion
<1>3. T \cup (S \ T) = S
  OBVIOUS
<1>4. SumOver(w, S) = SumOver(w, T) + SumOver(w, S \ T)
  BY <1>2, <1>3, Zenon
<1> QED
  BY <1>1, <1>4, SumNat

\* Terms that grow by u on a part T of S let the sum grow by that of u over T.
LEMMA SumShift ==
  ASSUME NEW u, NEW v, NEW w, NEW S, IsFiniteSet(S), NEW T \in SUBSET S,
         \A x \in S : v[x] \in Int,
         \A x \in T : u[x] \in Int /\ w[x] = v[x] + u[x],
         \A x \in S \ T : w[x] = v[x]
  PROVE  SumOver(w, S) = SumOver(v, S) + SumOver(u, T)
<1>1. IsFiniteSet(T) /\ IsFiniteSet(S \ T) /\ \A x \in S : w[x] \in Int
  BY FS_Subset
<1>2. T \cup (S \ T) = S
  OBVIOUS
<1>3. SumOver(w, S) = SumOver(w, T) + SumOver(w, S \ T)
  <2>1. SumOver(w, T \cup (S \ T)) = SumOver(w, T) + SumOver(w, S \ T)
    BY <1>1, SumUnion
  <2> QED
    BY <1>2, <2>1, Zenon
<1>4. SumOver(v, S) = SumOver(v, T) + SumOver(v, S \ T)
  <2>1. SumOver(v, T \cup (S \ T)) = SumOver(v, T) + SumOver(v, S \ T)
    BY <1>1, SumUnion
  <2> QED
    BY <1>2, <2>1, Zenon
<1>5. SumOver(w, T) = SumOver(v, T) + SumOver(u, T)
  BY <1>1, SumPlus
<1>6. SumOver(w, S \ T) = SumOver(v, S \ T)
  BY <1>1, SumEqual
<1>7. SumOver(v, T) \in Int /\ SumOver(u, T) \in Int /\ SumOver(v, S \ T) \in Int
  BY <1>1, SumInt
<1> QED
  BY <1>3, <1>4, <1>5, <1>6, <1>7
=============================================================================
