--------------------------------- MODULE Sums ---------------------------------
(***************************************************************************)
(* What a sum over a finite set is, for the proofs about revenue and about *)
(* counted entries.  MapThenSumSet is a fold, defined by recursion over    *)
(* the subsets of the set; what holds of it is proved by looking at a      *)
(* smallest subset of which it does not hold.                              *)
(***************************************************************************)
EXTENDS Integers, FiniteSets, FiniteSetsExt, FiniteSetTheorems, WellFoundedInduction, TLAPS

\* The sum of the numbers w has for the members of S.
SumOf(w, S) == MapThenSumSet(LAMBDA p : w[p], S)

\* The member that the fold takes next.
OneOf(s) == CHOOSE x \in s : TRUE

\* Adding up the members of the subsets of S, as the fold does it.
AddsUp(g, w, S) ==
  g = [s \in SUBSET S |-> IF s = {} THEN 0 ELSE w[OneOf(s)] + g[s \ {OneOf(s)}]]

\* The sum is what the fold has for the whole set.
LEMMA SumIsFold ==
    ASSUME NEW w, NEW S
    PROVE  SumOf(w, S) = (CHOOSE g : AddsUp(g, w, S))[S]
  BY DEF SumOf, MapThenSumSet, MapThenFoldSet, AddsUp, OneOf

\* Among subsets of a finite set there is a smallest one.
LEMMA SmallestSet ==
    ASSUME NEW S, IsFiniteSet(S), NEW C, C \subseteq SUBSET S, C # {}
    PROVE  \E T \in C : \A U \in C : U \subseteq T => U = T
<1>1. SUBSET S = FiniteSubsetsOf(S)
  BY FS_FiniteSubsetsOfFinite
<1>2. IsWellFoundedOn(StrictSubsetOrdering(S), SUBSET S)
  BY <1>1, FS_StrictSubsetOrderingWellFounded
<1>3. PICK T \in C : \A U \in C : <<U, T>> \notin StrictSubsetOrdering(S)
  BY <1>2, WFMin
<1>4. \A U \in C : U \subseteq T => U = T
  BY <1>3 DEF StrictSubsetOrdering
<1> QED
  BY <1>4

\* Two folds of the same numbers agree wherever both are defined.
LEMMA FoldIsUnique ==
    ASSUME NEW w, NEW S, IsFiniteSet(S), NEW R, NEW g, NEW h,
           AddsUp(g, w, S), AddsUp(h, w, R)
    PROVE  \A T \in SUBSET S : T \subseteq R => g[T] = h[T]
<1> DEFINE C == {T \in SUBSET S : T \subseteq R /\ g[T] # h[T]}
<1> SUFFICES ASSUME C # {} PROVE FALSE
  OBVIOUS
<1>0. C \subseteq SUBSET S
  OBVIOUS
<1> HIDE DEF C
<1>1. PICK T \in C : \A U \in C : U \subseteq T => U = T
  BY <1>0, SmallestSet
<1> USE DEF C
<1>2. g[T] = IF T = {} THEN 0 ELSE w[OneOf(T)] + g[T \ {OneOf(T)}]
  BY DEF AddsUp
<1>3. h[T] = IF T = {} THEN 0 ELSE w[OneOf(T)] + h[T \ {OneOf(T)}]
  BY DEF AddsUp
<1>4. T # {} /\ g[T \ {OneOf(T)}] # h[T \ {OneOf(T)}]
  BY <1>2, <1>3
<1>5. OneOf(T) \in T
  BY <1>4 DEF OneOf
<1> QED
  BY <1>1, <1>4, <1>5

\* There is a fold.
LEMMA FoldExists ==
    ASSUME NEW w, NEW S, IsFiniteSet(S)
    PROVE  \E g : AddsUp(g, w, S)
<1> DEFINE C == {T \in SUBSET S : ~\E g : AddsUp(g, w, T)}
           G(T) == CHOOSE g : AddsUp(g, w, T)
<1> SUFFICES ASSUME C # {} PROVE FALSE
  OBVIOUS
<1>0. C \subseteq SUBSET S
  OBVIOUS
<1> HIDE DEF C
<1>1. PICK T \in C : \A U \in C : U \subseteq T => U = T
  BY <1>0, SmallestSet
<1> USE DEF C
<1>2. ASSUME NEW U \in SUBSET T, U # T PROVE AddsUp(G(U), w, U) /\ IsFiniteSet(U)
  <2>1. \E g : AddsUp(g, w, U)
    BY <1>1, <1>2
  <2> QED
    BY <2>1, FS_Subset
<1> DEFINE g == [s \in SUBSET T |-> IF s = {} THEN 0
                                    ELSE w[OneOf(s)] + G(s \ {OneOf(s)})[s \ {OneOf(s)}]]
<1> HIDE DEF G
<1>3. ASSUME NEW U \in SUBSET T, U # T PROVE g[U] = G(U)[U]
  <2>1. G(U)[U] = IF U = {} THEN 0 ELSE w[OneOf(U)] + G(U)[U \ {OneOf(U)}]
    BY <1>2, <1>3 DEF AddsUp
  <2>2. CASE U = {}
    BY <2>1, <2>2
  <2>3. CASE U # {}
    <3> DEFINE V == U \ {OneOf(U)}
    <3>1. OneOf(U) \in U
      BY <2>3 DEF OneOf
    <3>2. V \in SUBSET T /\ V # T /\ V \in SUBSET U
      BY <1>3, <3>1
    <3>3. G(U)[V] = G(V)[V]
      BY <1>2, <1>3, <3>2, FoldIsUnique
    <3> QED
      BY <2>1, <2>3, <3>3
  <2> QED
    BY <2>2, <2>3
<1>4. ASSUME NEW s \in SUBSET T
      PROVE  g[s] = IF s = {} THEN 0 ELSE w[OneOf(s)] + g[s \ {OneOf(s)}]
  <2>1. CASE s = {}
    BY <2>1
  <2>2. CASE s # {}
    <3>1. OneOf(s) \in s
      BY <2>2 DEF OneOf
    <3>2. g[s \ {OneOf(s)}] = G(s \ {OneOf(s)})[s \ {OneOf(s)}]
      BY <1>3, <3>1
    <3> QED
      BY <2>2, <3>2
  <2> QED
    BY <2>1, <2>2
<1>5. AddsUp(g, w, T)
  BY <1>4 DEF AddsUp
<1> QED
  BY <1>1, <1>5

\* So the sum is taken by a fold.
LEMMA SumIsFolded ==
    ASSUME NEW w, NEW S, IsFiniteSet(S)
    PROVE  \E g : AddsUp(g, w, S) /\ SumOf(w, S) = g[S]
  BY FoldExists, SumIsFold

\* There is nothing in the sum of nothing.
LEMMA SumOfNone == ASSUME NEW w PROVE SumOf(w, {}) = 0
<1>1. IsFiniteSet({})
  BY FS_EmptySet
<1>2. PICK g : AddsUp(g, w, {}) /\ SumOf(w, {}) = g[{}]
  BY <1>1, SumIsFolded
<1> QED
  BY <1>2 DEF AddsUp

\* The sum is that of the member taken and of the rest.
LEMMA SumPicks ==
    ASSUME NEW w, NEW S, IsFiniteSet(S), S # {}
    PROVE  OneOf(S) \in S /\ SumOf(w, S) = w[OneOf(S)] + SumOf(w, S \ {OneOf(S)})
<1>1. OneOf(S) \in S
  BY DEF OneOf
<1> DEFINE R == S \ {OneOf(S)}
<1>2. IsFiniteSet(R) /\ R \in SUBSET S
  BY FS_Subset
<1>3. PICK g : AddsUp(g, w, S) /\ SumOf(w, S) = g[S]
  BY SumIsFolded
<1>4. PICK h : AddsUp(h, w, R) /\ SumOf(w, R) = h[R]
  BY <1>2, SumIsFolded
<1>5. g[R] = h[R]
  BY <1>2, <1>3, <1>4, FoldIsUnique
<1>6. g[S] = w[OneOf(S)] + g[R]
  BY <1>3 DEF AddsUp
<1> QED
  BY <1>1, <1>3, <1>4, <1>5, <1>6

\* Sums of numbers are numbers.
LEMMA SumIsInt ==
    ASSUME NEW w, NEW S, IsFiniteSet(S), \A p \in S : w[p] \in Int
    PROVE  SumOf(w, S) \in Int
<1> DEFINE C == {T \in SUBSET S : SumOf(w, T) \notin Int}
<1> SUFFICES ASSUME C # {} PROVE FALSE
  OBVIOUS
<1>0. C \subseteq SUBSET S
  OBVIOUS
<1> HIDE DEF C
<1>1. PICK T \in C : \A U \in C : U \subseteq T => U = T
  BY <1>0, SmallestSet
<1> USE DEF C
<1>2. IsFiniteSet(T)
  BY FS_Subset
<1>3. T # {}
  BY SumOfNone
<1>4. OneOf(T) \in T /\ SumOf(w, T) = w[OneOf(T)] + SumOf(w, T \ {OneOf(T)})
  BY <1>2, <1>3, SumPicks
<1>5. SumOf(w, T \ {OneOf(T)}) \in Int
  BY <1>1, <1>4
<1> QED
  BY <1>4, <1>5

\* In whatever order the members are taken, the sum is the same.
LEMMA SumTakes ==
    ASSUME NEW w, NEW S, IsFiniteSet(S), \A p \in S : w[p] \in Int, NEW x \in S
    PROVE  SumOf(w, S) = w[x] + SumOf(w, S \ {x})
<1> DEFINE Takes(T, y) == SumOf(w, T) = w[y] + SumOf(w, T \ {y})
           C == {T \in SUBSET S : \E y \in T : ~Takes(T, y)}
<1> SUFFICES ASSUME C # {} PROVE FALSE
  OBVIOUS
<1>0. C \subseteq SUBSET S
  OBVIOUS
<1> HIDE DEF C
<1>1. PICK T \in C : \A U \in C : U \subseteq T => U = T
  BY <1>0, SmallestSet
<1> USE DEF C
<1>2. IsFiniteSet(T) /\ T \in SUBSET S
  BY FS_Subset
<1>3. PICK y \in T : ~Takes(T, y)
  OBVIOUS
<1> DEFINE p == OneOf(T)
<1>4. p \in T /\ Takes(T, p)
  BY <1>2, <1>3, SumPicks
<1>5. p # y
  BY <1>3, <1>4
<1> HIDE DEF p
<1>6. Takes(T \ {p}, y) /\ Takes(T \ {y}, p)
  BY <1>1, <1>3, <1>4, <1>5
<1>7. (T \ {p}) \ {y} = (T \ {y}) \ {p}
  OBVIOUS
<1>8. IsFiniteSet((T \ {p}) \ {y})
  BY <1>2, FS_Subset
<1>9. SumOf(w, (T \ {p}) \ {y}) \in Int /\ w[p] \in Int /\ w[y] \in Int
  BY <1>2, <1>4, <1>8, SumIsInt
<1> DEFINE rest == SumOf(w, (T \ {p}) \ {y})
<1>10. /\ SumOf(w, T) = w[p] + SumOf(w, T \ {p})
       /\ SumOf(w, T \ {p}) = w[y] + rest
       /\ SumOf(w, T \ {y}) = w[p] + rest
  BY <1>4, <1>6, <1>7
<1>11. SumOf(w, T) # w[y] + SumOf(w, T \ {y})
  BY <1>3
<1> HIDE DEF rest
<1> QED
  BY <1>9, <1>10, <1>11 DEF rest

\* One more member adds its number.
LEMMA SumAdds ==
    ASSUME NEW w, NEW S, IsFiniteSet(S), \A p \in S : w[p] \in Int,
           NEW x, x \notin S, w[x] \in Int
    PROVE  SumOf(w, S \cup {x}) = w[x] + SumOf(w, S)
<1>1. IsFiniteSet(S \cup {x}) /\ \A p \in S \cup {x} : w[p] \in Int
  BY FS_AddElement
<1>2. (S \cup {x}) \ {x} = S
  OBVIOUS
<1> QED
  BY <1>1, <1>2, SumTakes

\* The same numbers have the same sum.
LEMMA SumAgrees ==
    ASSUME NEW w, NEW v, NEW S, IsFiniteSet(S), \A p \in S : w[p] = v[p]
    PROVE  SumOf(w, S) = SumOf(v, S)
<1> DEFINE C == {T \in SUBSET S : SumOf(w, T) # SumOf(v, T)}
<1> SUFFICES ASSUME C # {} PROVE FALSE
  OBVIOUS
<1>0. C \subseteq SUBSET S
  OBVIOUS
<1> HIDE DEF C
<1>1. PICK T \in C : \A U \in C : U \subseteq T => U = T
  BY <1>0, SmallestSet
<1> USE DEF C
<1>2. IsFiniteSet(T) /\ T \in SUBSET S
  BY FS_Subset
<1>3. T # {}
  BY SumOfNone
<1>4. /\ OneOf(T) \in T /\ SumOf(w, T) = w[OneOf(T)] + SumOf(w, T \ {OneOf(T)})
      /\ SumOf(v, T) = v[OneOf(T)] + SumOf(v, T \ {OneOf(T)})
  BY <1>2, <1>3, SumPicks
<1>5. SumOf(w, T \ {OneOf(T)}) = SumOf(v, T \ {OneOf(T)})
  BY <1>1, <1>4
<1> QED
  BY <1>2, <1>4, <1>5

\* Nothing adds up to nothing.
LEMMA SumOfZeros ==
    ASSUME NEW w, NEW S, IsFiniteSet(S), \A p \in S : w[p] = 0
    PROVE  SumOf(w, S) = 0
<1> DEFINE C == {T \in SUBSET S : SumOf(w, T) # 0}
<1> SUFFICES ASSUME C # {} PROVE FALSE
  OBVIOUS
<1>0. C \subseteq SUBSET S
  OBVIOUS
<1> HIDE DEF C
<1>1. PICK T \in C : \A U \in C : U \subseteq T => U = T
  BY <1>0, SmallestSet
<1> USE DEF C
<1>2. IsFiniteSet(T) /\ T \in SUBSET S
  BY FS_Subset
<1>3. T # {}
  BY SumOfNone
<1>4. OneOf(T) \in T /\ SumOf(w, T) = w[OneOf(T)] + SumOf(w, T \ {OneOf(T)})
  BY <1>2, <1>3, SumPicks
<1>5. SumOf(w, T \ {OneOf(T)}) = 0
  BY <1>1, <1>4
<1> QED
  BY <1>2, <1>4, <1>5

\* Where one number changes, the sum changes by as much.
LEMMA SumChanges ==
    ASSUME NEW w, NEW v, NEW S, IsFiniteSet(S), NEW x \in S,
           \A p \in S : w[p] \in Int /\ v[p] \in Int,
           \A p \in S \ {x} : w[p] = v[p]
    PROVE  SumOf(v, S) = SumOf(w, S) + v[x] - w[x]
<1> DEFINE R == S \ {x}
<1>1. IsFiniteSet(R)
  BY FS_Subset
<1>2. SumOf(w, R) = SumOf(v, R) /\ SumOf(w, R) \in Int
  BY <1>1, SumAgrees, SumIsInt
<1>3. SumOf(w, S) = w[x] + SumOf(w, R) /\ SumOf(v, S) = v[x] + SumOf(v, R)
  BY SumTakes
<1> QED
  BY <1>2, <1>3

\* No sum of counts is negative.
LEMMA SumIsNat ==
    ASSUME NEW w, NEW S, IsFiniteSet(S), \A p \in S : w[p] \in Nat
    PROVE  SumOf(w, S) \in Nat
<1> DEFINE C == {T \in SUBSET S : SumOf(w, T) \notin Nat}
<1> SUFFICES ASSUME C # {} PROVE FALSE
  OBVIOUS
<1>0. C \subseteq SUBSET S
  OBVIOUS
<1> HIDE DEF C
<1>1. PICK T \in C : \A U \in C : U \subseteq T => U = T
  BY <1>0, SmallestSet
<1> USE DEF C
<1>2. IsFiniteSet(T)
  BY FS_Subset
<1>3. T # {}
  BY SumOfNone
<1>4. OneOf(T) \in T /\ SumOf(w, T) = w[OneOf(T)] + SumOf(w, T \ {OneOf(T)})
  BY <1>2, <1>3, SumPicks
<1>5. SumOf(w, T \ {OneOf(T)}) \in Nat
  BY <1>1, <1>4
<1> QED
  BY <1>4, <1>5

\* A count is not more than the sum it is in.
LEMMA SumBounds ==
    ASSUME NEW w, NEW S, IsFiniteSet(S), \A p \in S : w[p] \in Nat, NEW x \in S
    PROVE  w[x] =< SumOf(w, S)
<1>1. IsFiniteSet(S \ {x})
  BY FS_Subset
<1>2. SumOf(w, S \ {x}) \in Nat
  BY <1>1, SumIsNat
<1>3. SumOf(w, S) = w[x] + SumOf(w, S \ {x})
  BY SumTakes
<1> QED
  BY <1>2, <1>3

\* A sum taken row by row and column by column.
LEMMA SumSplits ==
    ASSUME NEW w, NEW S, IsFiniteSet(S), \A p \in S : w[p] \in Int,
           NEW of, NEW K, IsFiniteSet(K), \A p \in S : of[p] \in K
    PROVE  SumOf([k \in K |-> SumOf(w, {p \in S : of[p] = k})], K) = SumOf(w, S)
<1> DEFINE Part(T, k) == {p \in T : of[p] = k}
           Parts(T) == [k \in K |-> SumOf(w, Part(T, k))]
           C == {T \in SUBSET S : SumOf(Parts(T), K) # SumOf(w, T)}
<1> SUFFICES ASSUME C # {} PROVE FALSE
  OBVIOUS
<1>0. C \subseteq SUBSET S
  OBVIOUS
<1> HIDE DEF C
<1>1. PICK T \in C : \A U \in C : U \subseteq T => U = T
  BY <1>0, SmallestSet
<1> USE DEF C
<1>2. IsFiniteSet(T) /\ T \in SUBSET S
  BY FS_Subset
<1>3. \A U, k : U \in SUBSET S => IsFiniteSet(Part(U, k)) /\ SumOf(w, Part(U, k)) \in Int
  <2> SUFFICES ASSUME NEW U \in SUBSET S, NEW k
               PROVE  IsFiniteSet(Part(U, k)) /\ SumOf(w, Part(U, k)) \in Int
    OBVIOUS
  <2>1. Part(U, k) \in SUBSET S
    OBVIOUS
  <2> HIDE DEF Part
  <2>2. IsFiniteSet(Part(U, k))
    BY <2>1, FS_Subset
  <2> QED
    BY <2>1, <2>2, SumIsInt
<1>4. CASE T = {}
  <2>1. \A k \in K : Parts(T)[k] = 0
    <3>1. \A k : Part({}, k) = {}
      OBVIOUS
    <3> QED
      BY <1>4, <3>1, SumOfNone
  <2> HIDE DEF Parts
  <2>2. SumOf(Parts(T), K) = 0
    BY <2>1, SumOfZeros
  <2> QED
    BY <1>4, <2>2, SumOfNone
<1>5. CASE T # {}
  <2>1. PICK x \in T : TRUE
    BY <1>5
  <2> DEFINE U == T \ {x}
             l == of[x]
  <2>2. U \in SUBSET S /\ IsFiniteSet(U) /\ U \notin C /\ l \in K
    BY <1>1, <1>2, FS_Subset
  <2>3. SumOf(Parts(U), K) = SumOf(w, U)
    BY <2>2
  <2>4. SumOf(w, T) = w[x] + SumOf(w, U)
    BY <1>2, SumTakes
  <2>5. Part(T, l) = Part(U, l) \cup {x} /\ x \notin Part(U, l)
    OBVIOUS
  <2>6. SumOf(w, Part(T, l)) = w[x] + SumOf(w, Part(U, l))
    <3>1. IsFiniteSet(Part(U, l)) /\ (\A p \in Part(U, l) : w[p] \in Int) /\ w[x] \in Int
      BY <1>2, <1>3, <2>2
    <3> HIDE DEF Part, U, l
    <3> QED
      BY <2>5, <3>1, SumAdds
  <2>7. \A k \in K \ {l} : Part(T, k) = Part(U, k)
    OBVIOUS
  <2>8. Parts(T)[l] = w[x] + Parts(U)[l] /\ \A k \in K \ {l} : Parts(T)[k] = Parts(U)[k]
    BY <2>2, <2>6, <2>7
  <2>9. \A k \in K : Parts(T)[k] \in Int /\ Parts(U)[k] \in Int
    BY <1>2, <1>3, <2>2
  <2> HIDE DEF Parts, U, l
  <2>10. /\ SumOf(Parts(T), K) = Parts(T)[l] + SumOf(Parts(T), K \ {l})
         /\ SumOf(Parts(U), K) = Parts(U)[l] + SumOf(Parts(U), K \ {l})
    BY <2>2, <2>9, SumTakes
  <2>11. /\ SumOf(Parts(T), K \ {l}) = SumOf(Parts(U), K \ {l})
         /\ SumOf(Parts(U), K \ {l}) \in Int
    <3>1. IsFiniteSet(K \ {l})
      BY FS_Subset
    <3> QED
      BY <2>8, <2>9, <3>1, SumAgrees, SumIsInt
  <2>12. w[x] \in Int
    BY <1>2
  <2> QED
    BY <2>2, <2>3, <2>4, <2>8, <2>9, <2>10, <2>11, <2>12
<1> QED
  BY <1>4, <1>5
===============================================================================
