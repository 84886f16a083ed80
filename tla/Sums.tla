-------------------------------- MODULE Sums --------------------------------
(***************************************************************************)
(* Sums over finite sets: what SumFunctionOnSet of the community modules   *)
(* computes, for every function and every finite set of indices.           *)
(***************************************************************************)
EXTENDS Integers, FiniteSets, Functions, FiniteSetTheorems, TLAPS

(* Induction over finite sets, with a family of sets for the predicate:    *)
(* one that has a set when it has the set without any one of its elements  *)
(* has every finite set.                                                   *)
LEMMA InductionOverSets ==
  ASSUME NEW S, IsFiniteSet(S), NEW G, G \subseteq SUBSET S,
         \A T \in SUBSET S : (\A x \in T : T \ {x} \in G) => T \in G
  PROVE  S \in G
<1>1. SUFFICES ASSUME S \notin G PROVE FALSE
  OBVIOUS
<1> DEFINE Bad == (SUBSET S) \ G
<1>2. Bad \subseteq FiniteSubsetsOf(S) /\ Bad # {}
  BY <1>1, FS_FiniteSubsetsOfFinite
<1>3. IsWellFoundedOn(StrictSubsetOrdering(S), FiniteSubsetsOf(S))
  BY FS_StrictSubsetOrderingWellFounded
<1> HIDE DEF Bad
<1>4. PICK T \in Bad : \A U \in Bad : <<U, T>> \notin StrictSubsetOrdering(S)
  BY <1>2, <1>3, WFMin
<1> USE DEF Bad
<1>5. ASSUME NEW x \in T PROVE T \ {x} \in G
  <2>1. <<T \ {x}, T>> \in (SUBSET S) \X (SUBSET S) /\ T \ {x} # T
    BY <1>4, <1>5
  <2>2. <<T \ {x}, T>> \in StrictSubsetOrdering(S)
    BY <2>1 DEF StrictSubsetOrdering
  <2> QED
    BY <1>4, <2>1, <2>2
<1> QED
  BY <1>4, <1>5

-----------------------------------------------------------------------------
(* The recursion behind the fold has a solution.                           *)

Pick(s) == CHOOSE x \in s : TRUE

IsTotal(g, f, D) == g = [s \in D |-> IF s = {} THEN 0 ELSE f[Pick(s)] + g[s \ {Pick(s)}]]

Total(f, S) == CHOOSE g : IsTotal(g, f, SUBSET S)

(* The sum of the library is that solution at the whole set. *)
LEMMA SumIsTotal ==
  ASSUME NEW f, NEW S
  PROVE  SumFunctionOnSet(f, S) = Total(f, S)[S]
BY DEF SumFunctionOnSet, FoldFunctionOnSet, MapThenFoldSet, Total, IsTotal, Pick

(* The fold takes an element of the set first. *)
LEMMA Picked == ASSUME NEW s, s # {} PROVE Pick(s) \in s
BY DEF Pick

(* Two solutions agree where both are defined. *)
LEMMA TotalUnique ==
  ASSUME NEW f, NEW S, NEW T, NEW g, NEW h,
         IsTotal(g, f, SUBSET S), IsTotal(h, f, SUBSET T),
         NEW s, IsFiniteSet(s), s \subseteq S, s \subseteq T
  PROVE  g[s] = h[s]
<1> DEFINE G == {u \in SUBSET s : g[u] = h[u]}
<1>1. ASSUME NEW u \in SUBSET s, \A x \in u : u \ {x} \in G PROVE u \in G
  <2>1. u \in SUBSET S /\ u \in SUBSET T
    OBVIOUS
  <2>2. /\ g[u] = IF u = {} THEN 0 ELSE f[Pick(u)] + g[u \ {Pick(u)}]
        /\ h[u] = IF u = {} THEN 0 ELSE f[Pick(u)] + h[u \ {Pick(u)}]
    BY <2>1, Zenon DEF IsTotal
  <2>3. u # {} => g[u \ {Pick(u)}] = h[u \ {Pick(u)}]
    BY <1>1, Picked
  <2> QED
    BY <2>2, <2>3
<1> HIDE DEF G
<1>2. G \subseteq SUBSET s
  BY DEF G
<1>3. s \in G
  BY <1>1, <1>2, InductionOverSets
<1> QED
  BY <1>3 DEF G

(* The subsets of S of which a solution is known grow by one element at a  *)
(* time.                                                                   *)
LEMMA TotalExists ==
  ASSUME NEW f, NEW S, IsFiniteSet(S)
  PROVE  IsTotal(Total(f, S), f, SUBSET S)
<1> DEFINE G == {T \in SUBSET S : \E g : IsTotal(g, f, SUBSET T)}
<1>1. ASSUME NEW T \in SUBSET S, \A x \in T : T \ {x} \in G PROVE T \in G
  <2> DEFINE Part(x) == CHOOSE g : IsTotal(g, f, SUBSET (T \ {x}))
             whole == [s \in SUBSET T |-> IF s = {} THEN 0
                                         ELSE f[Pick(s)] + Part(Pick(s))[s \ {Pick(s)}]]
  <2>1. \A x \in T : IsTotal(Part(x), f, SUBSET (T \ {x}))
    BY <1>1
  <2> HIDE DEF Part
  <2>2. ASSUME NEW s \in SUBSET T, s # {}
        PROVE  whole[s \ {Pick(s)}] = Part(Pick(s))[s \ {Pick(s)}]
    <3> DEFINE p == Pick(s)  u == s \ {p}  q == Pick(u)
    <3>1. p \in T /\ u \in SUBSET T /\ u \in SUBSET (T \ {p})
      BY <2>2, Picked
    <3>2. Part(p)[u] = IF u = {} THEN 0 ELSE f[q] + Part(p)[u \ {q}]
      BY <2>1, <3>1, Zenon DEF IsTotal
    <3>3. whole[u] = IF u = {} THEN 0 ELSE f[q] + Part(q)[u \ {q}]
      BY <3>1
    <3>4. ASSUME u # {} PROVE Part(p)[u \ {q}] = Part(q)[u \ {q}]
      <4>1. q \in T /\ u \ {q} \subseteq T \ {p} /\ u \ {q} \subseteq T \ {q}
        BY <3>1, <3>4, Picked
      <4>2. IsFiniteSet(u \ {q})
        BY <3>1, FS_Subset
      <4>3. IsTotal(Part(p), f, SUBSET (T \ {p})) /\ IsTotal(Part(q), f, SUBSET (T \ {q}))
        BY <2>1, <3>1, <4>1
      <4>4. u \ {q} \subseteq T \ {p} /\ u \ {q} \subseteq T \ {q}
        BY <4>1
      <4> DEFINE g == Part(p)  h == Part(q)  A == T \ {p}  B == T \ {q}  v == u \ {q}
      <4>5. /\ IsTotal(g, f, SUBSET A) /\ IsTotal(h, f, SUBSET B)
            /\ IsFiniteSet(v) /\ v \subseteq A /\ v \subseteq B
        BY <4>2, <4>3, <4>4
      <4> HIDE DEF g, h, A, B, v
      <4>6. g[v] = h[v]
        BY <4>5, TotalUnique
      <4> QED
        BY <4>6 DEF g, h, v
    <3> QED
      BY <3>2, <3>3, <3>4
  <2>3. IsTotal(whole, f, SUBSET T)
    BY <2>2 DEF IsTotal
  <2> QED
    BY <2>3
<1> HIDE DEF G
<1>2. G \subseteq SUBSET S
  BY DEF G
<1>3. S \in G
  BY <1>1, <1>2, InductionOverSets
<1> QED
  BY <1>3 DEF G, Total

-----------------------------------------------------------------------------
(* The sum of a set that is not empty, by the element the fold picks.      *)
LEMMA SumPicks ==
  ASSUME NEW f, NEW S, IsFiniteSet(S)
  PROVE  SumFunctionOnSet(f, S) =
           IF S = {} THEN 0 ELSE f[Pick(S)] + SumFunctionOnSet(f, S \ {Pick(S)})
<1> DEFINE T == S \ {Pick(S)}
<1>1. IsFiniteSet(T)
  BY FS_Subset
<1>2. IsTotal(Total(f, S), f, SUBSET S) /\ IsTotal(Total(f, T), f, SUBSET T)
  BY <1>1, TotalExists
<1>3. Total(f, S)[T] = Total(f, T)[T]
  <2>1. T \subseteq S /\ T \subseteq T
    OBVIOUS
  <2> HIDE DEF T
  <2> QED
    BY <1>1, <1>2, <2>1, TotalUnique
<1>4. S \in SUBSET S
  OBVIOUS
<1>5. Total(f, S)[S] = IF S = {} THEN 0 ELSE f[Pick(S)] + Total(f, S)[T]
  BY <1>2, <1>4, Zenon DEF IsTotal
<1> HIDE DEF T
<1>6. SumFunctionOnSet(f, S) = Total(f, S)[S] /\ SumFunctionOnSet(f, T) = Total(f, T)[T]
  BY SumIsTotal
<1> QED
  BY <1>3, <1>5, <1>6 DEF T

(* Nothing adds up to zero. *)
LEMMA SumEmpty == ASSUME NEW f PROVE SumFunctionOnSet(f, {}) = 0
BY SumPicks, FS_EmptySet

(* A sum of integers is an integer. *)
LEMMA SumInteger ==
  ASSUME NEW f, NEW S, IsFiniteSet(S), \A x \in S : f[x] \in Int
  PROVE  SumFunctionOnSet(f, S) \in Int
<1> DEFINE G == {T \in SUBSET S : SumFunctionOnSet(f, T) \in Int}
<1>1. ASSUME NEW T \in SUBSET S, \A x \in T : T \ {x} \in G PROVE T \in G
  <2>1. IsFiniteSet(T)
    BY FS_Subset
  <2>2. SumFunctionOnSet(f, T) =
          IF T = {} THEN 0 ELSE f[Pick(T)] + SumFunctionOnSet(f, T \ {Pick(T)})
    BY <2>1, SumPicks
  <2>3. T # {} => f[Pick(T)] \in Int /\ SumFunctionOnSet(f, T \ {Pick(T)}) \in Int
    BY <1>1, Picked
  <2> QED
    BY <2>2, <2>3
<1> HIDE DEF G
<1>2. G \subseteq SUBSET S
  BY DEF G
<1>3. S \in G
  BY <1>1, <1>2, InductionOverSets
<1> QED
  BY <1>3 DEF G

(* Any element can be taken out first. *)
LEMMA SumRemoves ==
  ASSUME NEW f, NEW S, IsFiniteSet(S), \A x \in S : f[x] \in Int, NEW x \in S
  PROVE  SumFunctionOnSet(f, S) = f[x] + SumFunctionOnSet(f, S \ {x})
<1> DEFINE Sum(T) == SumFunctionOnSet(f, T)
           G == {T \in SUBSET S : \A y \in T : Sum(T) = f[y] + Sum(T \ {y})}
<1>1. ASSUME NEW T \in SUBSET S, \A y \in T : T \ {y} \in G PROVE T \in G
  <2>1. SUFFICES ASSUME NEW y \in T PROVE Sum(T) = f[y] + Sum(T \ {y})
    BY DEF G
  <2> DEFINE p == Pick(T)
  <2>2. p \in T /\ f[p] \in Int /\ f[y] \in Int
    BY Picked
  <2>3. Sum(T) = f[p] + Sum(T \ {p})
    BY SumPicks, FS_Subset
  <2>4. CASE y = p
    BY <2>3, <2>4
  <2>5. CASE y # p
    <3> DEFINE u == (T \ {p}) \ {y}
    <3>1. Sum(T \ {p}) = f[y] + Sum(u)
      BY <1>1, <2>2, <2>5
    <3>2. Sum(T \ {y}) = f[p] + Sum((T \ {y}) \ {p})
      BY <1>1, <2>2, <2>5
    <3>3. (T \ {y}) \ {p} = u
      OBVIOUS
    <3>4. Sum(u) \in Int
      <4>1. IsFiniteSet(u) /\ u \subseteq S
        BY FS_Subset
      <4> QED
        BY <4>1, SumInteger
    <3>5. Sum(T) = f[p] + (f[y] + Sum(u)) /\ Sum(T \ {y}) = f[p] + Sum(u)
      BY <2>3, <3>1, <3>2, <3>3
    <3> QED
      BY <2>2, <3>4, <3>5
  <2> QED
    BY <2>4, <2>5
<1> HIDE DEF G
<1>2. G \subseteq SUBSET S
  BY DEF G
<1>3. S \in G
  BY <1>1, <1>2, InductionOverSets
<1> QED
  BY <1>3 DEF G

(* A new element adds its value. *)
LEMMA SumAdds ==
  ASSUME NEW f, NEW S, IsFiniteSet(S), NEW x, x \notin S, \A y \in S \cup {x} : f[y] \in Int
  PROVE  SumFunctionOnSet(f, S \cup {x}) = f[x] + SumFunctionOnSet(f, S)
<1>1. IsFiniteSet(S \cup {x}) /\ (S \cup {x}) \ {x} = S
  BY FS_AddElement
<1> QED
  BY <1>1, SumRemoves

(* Two sets that share nothing add up. *)
LEMMA SumOfUnion ==
  ASSUME NEW f, NEW A, NEW B, IsFiniteSet(A), IsFiniteSet(B), A \cap B = {},
         \A x \in A \cup B : f[x] \in Int
  PROVE  SumFunctionOnSet(f, A \cup B) = SumFunctionOnSet(f, A) + SumFunctionOnSet(f, B)
<1> DEFINE Sum(T) == SumFunctionOnSet(f, T)
           G == {T \in SUBSET B : Sum(A \cup T) = Sum(A) + Sum(T)}
<1>1. ASSUME NEW T \in SUBSET B, \A x \in T : T \ {x} \in G PROVE T \in G
  <2>1. CASE T = {}
    <3>1. Sum(A) \in Int
      BY SumInteger
    <3>2. A \cup T = A
      BY <2>1
    <3> HIDE DEF Sum
    <3> QED
      BY <2>1, <3>1, <3>2, SumEmpty DEF Sum
  <2>2. CASE T # {}
    <3>1. PICK x \in T : TRUE
      BY <2>2
    <3> DEFINE U == T \ {x}  V == A \cup U
    <3>2. IsFiniteSet(T) /\ IsFiniteSet(U) /\ IsFiniteSet(A \cup T)
      BY FS_Subset, FS_Union
    <3>3. (A \cup T) \ {x} = V /\ x \in A \cup T
      BY <3>1
    <3>4. Sum(A \cup T) = f[x] + Sum((A \cup T) \ {x})
      BY <3>1, <3>2, SumRemoves
    <3>5. Sum(T) = f[x] + Sum(U)
      BY <3>1, <3>2, SumRemoves
    <3>6. Sum(V) = Sum(A) + Sum(U)
      BY <1>1, <3>1
    <3>7. Sum(A) \in Int /\ Sum(U) \in Int /\ f[x] \in Int
      BY <3>1, <3>2, SumInteger
    <3>8. Sum(A \cup T) = f[x] + (Sum(A) + Sum(U))
      BY <3>3, <3>4, <3>6
    <3>9. Sum(A \cup T) = Sum(A) + Sum(T)
      <4> HIDE DEF Sum, U
      <4> QED
        BY <3>5, <3>7, <3>8
    <3> QED
      BY <3>9
  <2> QED
    BY <2>1, <2>2
<1> HIDE DEF G
<1>2. G \subseteq SUBSET B
  BY DEF G
<1>3. B \in G
  BY <1>1, <1>2, InductionOverSets
<1> QED
  BY <1>3 DEF G

(* A sum depends on the values of the indices alone. *)
LEMMA SumOfSame ==
  ASSUME NEW f, NEW g, NEW S, IsFiniteSet(S), \A x \in S : f[x] = g[x]
  PROVE  SumFunctionOnSet(f, S) = SumFunctionOnSet(g, S)
<1> DEFINE G == {T \in SUBSET S : SumFunctionOnSet(f, T) = SumFunctionOnSet(g, T)}
<1>1. ASSUME NEW T \in SUBSET S, \A x \in T : T \ {x} \in G PROVE T \in G
  <2>1. IsFiniteSet(T)
    BY FS_Subset
  <2>2. /\ SumFunctionOnSet(f, T) =
             IF T = {} THEN 0 ELSE f[Pick(T)] + SumFunctionOnSet(f, T \ {Pick(T)})
        /\ SumFunctionOnSet(g, T) =
             IF T = {} THEN 0 ELSE g[Pick(T)] + SumFunctionOnSet(g, T \ {Pick(T)})
    BY <2>1, SumPicks
  <2>3. T # {} => /\ f[Pick(T)] = g[Pick(T)]
                  /\ SumFunctionOnSet(f, T \ {Pick(T)}) = SumFunctionOnSet(g, T \ {Pick(T)})
    BY <1>1, Picked
  <2> QED
    BY <2>2, <2>3
<1> HIDE DEF G
<1>2. G \subseteq SUBSET S
  BY DEF G
<1>3. S \in G
  BY <1>1, <1>2, InductionOverSets
<1> QED
  BY <1>3 DEF G

(* Equal values add up to a product. *)
LEMMA SumOfEqual ==
  ASSUME NEW f, NEW S, IsFiniteSet(S), NEW c \in Int, \A x \in S : f[x] = c
  PROVE  SumFunctionOnSet(f, S) = c * Cardinality(S)
<1> DEFINE G == {T \in SUBSET S : SumFunctionOnSet(f, T) = c * Cardinality(T)}
<1>1. ASSUME NEW T \in SUBSET S, \A x \in T : T \ {x} \in G PROVE T \in G
  <2>1. IsFiniteSet(T)
    BY FS_Subset
  <2>2. SumFunctionOnSet(f, T) =
          IF T = {} THEN 0 ELSE f[Pick(T)] + SumFunctionOnSet(f, T \ {Pick(T)})
    BY <2>1, SumPicks
  <2>3. CASE T = {}
    BY <2>2, <2>3, FS_EmptySet
  <2>4. CASE T # {}
    <3>1. Pick(T) \in T
      BY <2>4, Picked
    <3>2. Cardinality(T) \in Nat /\ Cardinality(T \ {Pick(T)}) = Cardinality(T) - 1
      BY <2>1, <3>1, FS_RemoveElement, FS_CardinalityType
    <3>3. SumFunctionOnSet(f, T) = c + c * (Cardinality(T) - 1)
      BY <1>1, <2>2, <2>4, <3>1, <3>2
    <3>4. c + c * (Cardinality(T) - 1) = c * Cardinality(T)
      BY <3>2
    <3> QED
      BY <3>3, <3>4
  <2> QED
    BY <2>3, <2>4
<1> HIDE DEF G
<1>2. G \subseteq SUBSET S
  BY DEF G
<1>3. S \in G
  BY <1>1, <1>2, InductionOverSets
<1> QED
  BY <1>3 DEF G
=============================================================================
