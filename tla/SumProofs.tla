------------------------------ MODULE SumProofs ------------------------------
(***************************************************************************)
(* What the keepers' totals are made of: sums over finite sets, as the     *)
(* outstanding rewards are added up, and the number of copies in a bag, as *)
(* the references to historical periods are counted.  And functions that   *)
(* are defined by recursion, as the meaning of a buffer is.  Induction is  *)
(* by the smallest counterexample.                                         *)
(***************************************************************************)
EXTENDS Integers, Bags, FiniteSets, FiniteSetsExt, FiniteSetTheorems,
        WellFoundedInduction, TLAPS

\* A set of natural numbers has a smallest element.
LEMMA Smallest ==
    ASSUME NEW T \in SUBSET Nat, T # {}
    PROVE  \E x \in T : \A y \in T : x =< y
<1>1. PICK x \in T : \A y \in T : ~(<<y, x>> \in OpToRel(<, Nat))
  BY WFMin, NatLessThanWellFounded
<1>2. \A y \in T : ~(y < x)
  BY <1>1 DEF OpToRel
<1>3. QED
  BY <1>2

\* A set of subsets of a finite set holds all of them, if it holds each subset
\* that can only be made smaller inside the set.
LEMMA SubsetInduction ==
    ASSUME NEW S, IsFiniteSet(S), NEW good,
           \A T \in SUBSET S : (\A x \in T : T \ {x} \in good) => T \in good
    PROVE  \A T \in SUBSET S : T \in good
<1> DEFINE bad == {T \in SUBSET S : T \notin good}
           sizes == {Cardinality(T) : T \in bad}
<1>1. \A T \in SUBSET S : IsFiniteSet(T) /\ Cardinality(T) \in Nat
  BY FS_Subset, FS_CardinalityType
<1>2. SUFFICES ASSUME bad # {} PROVE FALSE
  OBVIOUS
<1>3. PICK T \in bad : \A U \in bad : Cardinality(T) =< Cardinality(U)
  <2>1. sizes \in SUBSET Nat /\ sizes # {}
    BY <1>1, <1>2
  <2> HIDE DEF sizes
  <2>2. PICK n \in sizes : \A m \in sizes : n =< m
    BY <2>1, Smallest
  <2>3. QED
    BY <2>2 DEF sizes
<1>4. ASSUME NEW x \in T PROVE T \ {x} \in good
  <2>1. Cardinality(T \ {x}) < Cardinality(T)
    <3>1. Cardinality(T \ {x}) = Cardinality(T) - 1
      BY <1>1, <1>3, FS_RemoveElement
    <3>2. QED
      BY <1>1, <1>3, <3>1
  <2>2. Cardinality(T \ {x}) \in Nat
    BY <1>1
  <2>3. QED
    BY <1>1, <1>3, <2>1, <2>2
<1>5. QED
  BY <1>3, <1>4

-----------------------------------------------------------------------------
(* Functions defined by recursion. *)

\* step[x][g] says what a recursive function g is at x.
Satisfied(g, n, D, size, step) == \A x \in D : size[x] < n => g[x] = step[x][g]

\* A step looks at smaller arguments only.
Decreasing(D, R, size, step) ==
    \A x \in D : \A g, h \in [D -> R] :
        (\A y \in D : size[y] < size[x] => g[y] = h[y]) => step[x][g] = step[x][h]

\* A function that is what the step says everywhere.
Solved(D, R, step) == \E g \in [D -> R] : \A x \in D : g[x] = step[x][g]

\* Two functions that satisfy a step up to a size agree up to it.
LEMMA RecursionAgrees ==
    ASSUME NEW D, NEW R, NEW size \in [D -> Nat], NEW step, Decreasing(D, R, size, step),
           NEW g \in [D -> R], NEW h \in [D -> R], NEW n \in Nat,
           Satisfied(g, n, D, size, step), Satisfied(h, n, D, size, step)
    PROVE  \A x \in D : size[x] < n => g[x] = h[x]
<1> DEFINE bad == {m \in Nat : \E x \in D : size[x] = m /\ m < n /\ g[x] # h[x]}
<1>1. SUFFICES ASSUME bad # {} PROVE FALSE
  OBVIOUS
<1>2. PICK m \in bad : \A k \in bad : m =< k
  <2>1. bad \in SUBSET Nat
    OBVIOUS
  <2> HIDE DEF bad
  <2> QED
    BY <1>1, <2>1, Smallest
<1>3. PICK x \in D : size[x] = m /\ m < n /\ g[x] # h[x]
  BY <1>2
<1>4. \A y \in D : size[y] < size[x] => g[y] = h[y]
  <2>1. SUFFICES ASSUME NEW y \in D, size[y] < size[x], g[y] # h[y] PROVE FALSE
    OBVIOUS
  <2>2. size[y] \in Nat /\ size[y] < n
    BY <1>3, <2>1
  <2>3. size[y] \in bad
    BY <2>1, <2>2
  <2> QED
    BY <1>2, <1>3, <2>1, <2>2, <2>3
<1>5. step[x][g] = step[x][h]
  BY <1>4 DEF Decreasing
<1> QED
  BY <1>3, <1>5 DEF Satisfied

\* Recursion on smaller arguments defines a function.
LEMMA RecursionExists ==
    ASSUME NEW D, NEW R, NEW size \in [D -> Nat],
           NEW step \in [D -> [[D -> R] -> R]], Decreasing(D, R, size, step), R # {}
    PROVE  Solved(D, R, step)
<1> DEFINE good(n) == {g \in [D -> R] : Satisfied(g, n, D, size, step)}
           bad == {n \in Nat : good(n) = {}}
<1>1. good(0) # {}
  <2>1. PICK r \in R : TRUE
    OBVIOUS
  <2>2. [x \in D |-> r] \in good(0)
    BY DEF Satisfied
  <2> QED
    BY <2>2
<1>2. ASSUME NEW n \in Nat, NEW g \in good(n) PROVE good(n + 1) # {}
  <2> DEFINE h == [x \in D |-> step[x][g]]
  <2>1. h \in [D -> R]
    OBVIOUS
  <2>2. ASSUME NEW x \in D, size[x] < n + 1 PROVE h[x] = step[x][h]
    <3>1. \A y \in D : size[y] < size[x] => g[y] = h[y]
      <4>1. SUFFICES ASSUME NEW y \in D, size[y] < size[x] PROVE g[y] = step[y][g]
        OBVIOUS
      <4>2. size[y] < n
        BY <2>2, <4>1
      <4> QED
        BY <4>2 DEF Satisfied
    <3>2. step[x][g] = step[x][h]
      <4> HIDE DEF h
      <4> QED
        BY <2>1, <3>1 DEF Decreasing
    <3> QED
      BY <3>2
  <2> HIDE DEF h
  <2>3. h \in good(n + 1)
    BY <2>1, <2>2 DEF Satisfied
  <2> QED
    BY <2>3
<1>3. bad = {}
  <2>1. SUFFICES ASSUME bad # {} PROVE FALSE
    OBVIOUS
  <2>2. bad \in SUBSET Nat
    OBVIOUS
  <2>3. PICK n \in bad : \A m \in bad : n =< m
    <3> HIDE DEF bad
    <3> QED
      BY <2>1, <2>2, Smallest
  <2>4. n # 0
    BY <1>1
  <2>5. n - 1 \in Nat /\ n - 1 \notin bad
    <3> HIDE DEF bad
    <3>1. n \in Nat
      BY <2>2, <2>3
    <3>2. n - 1 \in Nat /\ ~(n =< n - 1)
      BY <2>4, <3>1
    <3> QED
      BY <2>3, <3>2
  <2>6. PICK g : g \in good(n - 1)
    BY <2>5
  <2>7. good((n - 1) + 1) # {}
    BY <1>2, <2>5, <2>6
  <2>8. (n - 1) + 1 = n
    BY <2>3
  <2> QED
    BY <2>3, <2>7, <2>8
<1> DEFINE upTo(n) == CHOOSE g : g \in good(n)
           f == [x \in D |-> upTo(size[x] + 1)[x]]
<1>4. \A n \in Nat : upTo(n) \in [D -> R] /\ Satisfied(upTo(n), n, D, size, step)
  BY <1>3
<1>5. \A x \in D : size[x] + 1 \in Nat /\ size[x] < size[x] + 1
  OBVIOUS
<1> HIDE DEF upTo
<1>6. f \in [D -> R]
  BY <1>4, <1>5
<1>7. ASSUME NEW x \in D PROVE f[x] = step[x][f]
  <2> DEFINE g == upTo(size[x] + 1)
  <2>1. g \in [D -> R] /\ Satisfied(g, size[x] + 1, D, size, step)
    BY <1>4, <1>5
  <2>2. f[x] = g[x] /\ g[x] = step[x][g]
    <3>1. f[x] = g[x]
      OBVIOUS
    <3> HIDE DEF g, f
    <3> QED
      BY <1>5, <2>1, <3>1 DEF Satisfied
  <2>3. \A y \in D : size[y] < size[x] => f[y] = g[y]
    <3>1. SUFFICES ASSUME NEW y \in D, size[y] < size[x] PROVE f[y] = g[y]
      OBVIOUS
    <3> DEFINE h == upTo(size[y] + 1)
               n == size[y] + 1
    <3>2. f[y] = h[y]
      OBVIOUS
    <3>3. h \in [D -> R] /\ Satisfied(h, n, D, size, step) /\ n \in Nat
      BY <1>4, <1>5
    <3>4. Satisfied(g, n, D, size, step)
      <4>1. \A z \in D : size[z] < n => size[z] < size[x] + 1
        BY <3>1
      <4> HIDE DEF g, n
      <4> QED
        BY <2>1, <4>1 DEF Satisfied
    <3>5. size[y] < n
      BY <1>5
    <3> HIDE DEF g, h, f, n
    <3>6. h[y] = g[y]
      BY <2>1, <3>3, <3>4, <3>5, RecursionAgrees
    <3> QED
      BY <3>2, <3>6
  <2> HIDE DEF f, g
  <2>4. step[x][g] = step[x][f]
    BY <1>6, <2>1, <2>3 DEF Decreasing
  <2> QED
    BY <2>2, <2>4
<1> HIDE DEF f
<1> QED
  BY <1>6, <1>7 DEF Solved

\* What holds at every argument if it holds at the smaller ones holds everywhere.
LEMMA SizeInduction ==
    ASSUME NEW D, NEW size \in [D -> Nat], NEW good,
           \A x \in D : (\A y \in D : size[y] < size[x] => y \in good) => x \in good
    PROVE  D \subseteq good
<1> DEFINE bad == {n \in Nat : \E x \in D \ good : size[x] = n}
<1>1. SUFFICES ASSUME NEW z \in D \ good PROVE FALSE
  OBVIOUS
<1>2. size[z] \in bad
  OBVIOUS
<1>3. PICK n \in bad : \A m \in bad : n =< m
  <2>1. bad \in SUBSET Nat /\ bad # {}
    BY <1>2
  <2> HIDE DEF bad
  <2> QED
    BY <2>1, Smallest
<1>4. PICK x \in D \ good : size[x] = n
  OBVIOUS
<1>5. ASSUME NEW y \in D, size[y] < size[x] PROVE y \in good
  <2>1. size[y] \in Nat /\ size[x] \in Nat
    OBVIOUS
  <2>2. y \notin good => size[y] \in bad
    BY <2>1
  <2> QED
    BY <1>3, <1>4, <1>5, <2>1, <2>2
<1> QED
  BY <1>4, <1>5

-----------------------------------------------------------------------------
(* Sums. *)

Pick(T) == CHOOSE x \in T : TRUE

\* The sums of f over the subsets of S, taking one element after the other.
IsSummation(g, f, S) ==
    g = [T \in SUBSET S |-> IF T = {} THEN 0 ELSE f[Pick(T)] + g[T \ {Pick(T)}]]

Summation(f, S) == CHOOSE g : IsSummation(g, f, S)

Total(f, S) == Summation(f, S)[S]

\* The sum of the community module is this sum.
LEMMA MapThenSumSetIsTotal ==
    ASSUME NEW f, NEW S
    PROVE  MapThenSumSet(LAMBDA x : f[x], S) = Total(f, S)
BY DEF MapThenSumSet, MapThenFoldSet, Total, Summation, IsSummation, Pick

\* The number of copies in a bag is the sum of the copies of its elements.
LEMMA BagCardinalityIsTotal ==
    ASSUME NEW B
    PROVE  BagCardinality(B) = Total(B, DOMAIN B)
BY DEF BagCardinality, Total, Summation, IsSummation, Pick

\* Summing up one element after the other is well defined on a finite set.
LEMMA SummationExists ==
    ASSUME NEW f, NEW S, IsFiniteSet(S)
    PROVE  IsSummation(Summation(f, S), f, S)
<1> DEFINE upTo(n) == {T \in SUBSET S : Cardinality(T) =< n}
           next(g, T) == IF T = {} THEN 0 ELSE f[Pick(T)] + g[T \ {Pick(T)}]
           sums(g, n) == \A T \in upTo(n) : g[T] = next(g, T)
           bad == {n \in Nat : ~\E g : sums(g, n)}
<1>1. \A T \in SUBSET S : IsFiniteSet(T) /\ Cardinality(T) \in Nat
  BY FS_Subset, FS_CardinalityType
<1>2. \A T \in SUBSET S : T # {} =>
         Pick(T) \in T /\ T \ {Pick(T)} \in SUBSET S
         /\ Cardinality(T \ {Pick(T)}) = Cardinality(T) - 1
  <2>1. SUFFICES ASSUME NEW T \in SUBSET S, T # {}
                 PROVE  Pick(T) \in T /\ Cardinality(T \ {Pick(T)}) = Cardinality(T) - 1
    OBVIOUS
  <2>2. Pick(T) \in T
    BY <2>1 DEF Pick
  <2>3. QED
    BY <1>1, <2>2, FS_RemoveElement
<1>3. \E g : sums(g, 0)
  <2>1. \A T \in upTo(0) : T = {}
    <3>1. SUFFICES ASSUME NEW T \in SUBSET S, Cardinality(T) =< 0 PROVE T = {}
      OBVIOUS
    <3>2. Cardinality(T) = 0
      BY <1>1, <3>1
    <3>3. QED
      BY <1>1, <3>2, FS_EmptySet
  <2>2. sums([T \in upTo(0) |-> 0], 0)
    BY <2>1
  <2>3. QED
    BY <2>2
<1>4. ASSUME NEW n \in Nat, NEW g, sums(g, n)
      PROVE  \E h : sums(h, n + 1)
  <2> DEFINE h == [T \in upTo(n + 1) |-> next(g, T)]
  <2>1. ASSUME NEW T \in upTo(n + 1), T # {}
        PROVE  h[T \ {Pick(T)}] = g[T \ {Pick(T)}]
    <3>1. T \ {Pick(T)} \in upTo(n)
      BY <1>1, <1>2, <2>1
    <3>2. T \ {Pick(T)} \in upTo(n + 1)
      BY <1>1, <3>1
    <3>3. QED
      BY <1>4, <3>1, <3>2
  <2>2. sums(h, n + 1)
    BY <2>1
  <2> HIDE DEF h
  <2>3. QED
    BY <2>2
<1>5. bad = {}
  <2>1. SUFFICES ASSUME bad # {} PROVE FALSE
    OBVIOUS
  <2>2. bad \in SUBSET Nat
    OBVIOUS
  <2>3. PICK n \in bad : \A m \in bad : n =< m
    <3> HIDE DEF bad
    <3> QED
      BY <2>1, <2>2, Smallest
  <2>4. n # 0
    BY <1>3
  <2>5. n - 1 \in Nat /\ n - 1 \notin bad
    <3> HIDE DEF bad
    <3>1. n \in Nat
      BY <2>2, <2>3
    <3>2. n - 1 \in Nat /\ ~(n =< n - 1)
      BY <2>4, <3>1
    <3>3. QED
      BY <2>3, <3>2
  <2>6. PICK g : sums(g, n - 1)
    BY <2>5
  <2>7. \E h : sums(h, (n - 1) + 1)
    <3> HIDE DEF sums
    <3> QED
      BY <1>4, <2>5, <2>6
  <2>8. (n - 1) + 1 = n
    BY <2>3
  <2>9. QED
    BY <2>3, <2>7, <2>8
<1>6. PICK g : sums(g, Cardinality(S))
  BY <1>1, <1>5
<1>7. IsSummation([T \in SUBSET S |-> g[T]], f, S)
  <2>1. upTo(Cardinality(S)) = SUBSET S
    BY FS_Subset
  <2>2. \A T \in SUBSET S : g[T] = next(g, T)
    BY <1>6, <2>1
  <2>3. QED
    BY <1>2, <2>2 DEF IsSummation
<1>8. QED
  BY <1>7 DEF Summation

\* Sums of smaller sets are sums of the same kind.
LEMMA SummationRestricts ==
    ASSUME NEW f, NEW S, IsFiniteSet(S), NEW R \in SUBSET S
    PROVE  \A T \in SUBSET R : Summation(f, S)[T] = Summation(f, R)[T]
<1> DEFINE g == Summation(f, S)
           h == Summation(f, R)
           same == {T \in SUBSET R : g[T] = h[T]}
<1>1. IsFiniteSet(R) /\ IsSummation(g, f, S) /\ IsSummation(h, f, R)
  BY SummationExists, FS_Subset
<1> HIDE DEF g, h
<1>2. ASSUME NEW T \in SUBSET R, \A x \in T : T \ {x} \in same
      PROVE  T \in same
  <2>1. g[T] = IF T = {} THEN 0 ELSE f[Pick(T)] + g[T \ {Pick(T)}]
    BY <1>1 DEF IsSummation
  <2>2. h[T] = IF T = {} THEN 0 ELSE f[Pick(T)] + h[T \ {Pick(T)}]
    BY <1>1 DEF IsSummation
  <2>3. CASE T = {}
    BY <2>1, <2>2, <2>3
  <2>4. CASE T # {}
    <3>1. T \ {Pick(T)} \in same
      BY <1>2, <2>4 DEF Pick
    <3>2. QED
      BY <2>1, <2>2, <2>4, <3>1
  <2>5. QED
    BY <2>3, <2>4
<1> HIDE DEF same
<1>3. \A T \in SUBSET R : T \in same
  BY <1>1, <1>2, SubsetInduction
<1>4. QED
  BY <1>3 DEF same, g, h

\* The sum of the empty set is 0, that of another set starts with its choice.
LEMMA TotalUnfolds ==
    ASSUME NEW f, NEW S, IsFiniteSet(S)
    PROVE  Total(f, S) = IF S = {} THEN 0 ELSE f[Pick(S)] + Total(f, S \ {Pick(S)})
<1>1. Total(f, S) = IF S = {} THEN 0 ELSE f[Pick(S)] + Summation(f, S)[S \ {Pick(S)}]
  <2> DEFINE g == Summation(f, S)
  <2>1. IsSummation(g, f, S)
    BY SummationExists
  <2> HIDE DEF g
  <2>2. g[S] = IF S = {} THEN 0 ELSE f[Pick(S)] + g[S \ {Pick(S)}]
    BY <2>1 DEF IsSummation
  <2>3. QED
    BY <2>2 DEF g, Total
<1>2. Summation(f, S)[S \ {Pick(S)}] = Total(f, S \ {Pick(S)})
  BY SummationRestricts DEF Total
<1>3. QED
  BY <1>1, <1>2

\* Sums of integers are integers.
LEMMA TotalType ==
    ASSUME NEW S, IsFiniteSet(S), NEW f, \A x \in S : f[x] \in Int
    PROVE  \A T \in SUBSET S : Total(f, T) \in Int
<1> DEFINE typed == {T \in SUBSET S : Total(f, T) \in Int}
<1>1. ASSUME NEW T \in SUBSET S, \A x \in T : T \ {x} \in typed
      PROVE  T \in typed
  <2>1. Total(f, T) = IF T = {} THEN 0 ELSE f[Pick(T)] + Total(f, T \ {Pick(T)})
    BY TotalUnfolds, FS_Subset
  <2>2. CASE T = {}
    BY <2>1, <2>2
  <2>3. CASE T # {}
    <3>1. Pick(T) \in T
      BY <2>3 DEF Pick
    <3>2. QED
      BY <1>1, <2>1, <2>3, <3>1
  <2>4. QED
    BY <2>2, <2>3
<1> HIDE DEF typed
<1>2. \A T \in SUBSET S : T \in typed
  BY <1>1, SubsetInduction
<1>3. QED
  BY <1>2 DEF typed

\* Any element of a set can be added last: the choices do not matter.
LEMMA TotalSplits ==
    ASSUME NEW S, IsFiniteSet(S), NEW f, \A x \in S : f[x] \in Int
    PROVE  \A T \in SUBSET S : \A x \in T : Total(f, T) = f[x] + Total(f, T \ {x})
<1> DEFINE good == {T \in SUBSET S : \A x \in T : Total(f, T) = f[x] + Total(f, T \ {x})}
<1>1. ASSUME NEW T \in SUBSET S, \A x \in T : T \ {x} \in good
      PROVE  T \in good
  <2>1. SUFFICES ASSUME NEW x \in T
                 PROVE  Total(f, T) = f[x] + Total(f, T \ {x})
    OBVIOUS
  <2> DEFINE c == Pick(T)
  <2>2. c \in T
    BY DEF Pick
  <2>3. Total(f, T) = f[c] + Total(f, T \ {c})
    BY <2>1, TotalUnfolds, FS_Subset
  <2>4. CASE x = c
    BY <2>3, <2>4
  <2>5. CASE x # c
    <3> HIDE DEF c
    <3>1. Total(f, T \ {c}) = f[x] + Total(f, (T \ {c}) \ {x})
      BY <1>1, <2>2, <2>5
    <3>2. Total(f, T \ {x}) = f[c] + Total(f, (T \ {x}) \ {c})
      BY <1>1, <2>2, <2>5
    <3>3. (T \ {x}) \ {c} = (T \ {c}) \ {x}
      OBVIOUS
    <3>4. Total(f, (T \ {c}) \ {x}) \in Int /\ f[x] \in Int /\ f[c] \in Int
      BY <2>2, TotalType
    <3> DEFINE rest == Total(f, (T \ {c}) \ {x})
    <3>5. Total(f, T) = f[c] + (f[x] + rest) /\ Total(f, T \ {x}) = f[c] + rest
      BY <2>3, <3>1, <3>2, <3>3
    <3>6. rest \in Int
      BY <3>4
    <3> HIDE DEF rest
    <3>7. QED
      BY <3>4, <3>5, <3>6
  <2>6. QED
    BY <2>4, <2>5
<1> HIDE DEF good
<1>2. \A T \in SUBSET S : T \in good
  BY <1>1, SubsetInduction
<1>3. QED
  BY <1>2 DEF good

\* Sums of equal terms are equal.
LEMMA TotalSame ==
    ASSUME NEW S, IsFiniteSet(S), NEW f, NEW g, \A x \in S : f[x] = g[x]
    PROVE  Total(f, S) = Total(g, S)
<1> DEFINE same == {T \in SUBSET S : Total(f, T) = Total(g, T)}
<1>1. ASSUME NEW T \in SUBSET S, \A x \in T : T \ {x} \in same
      PROVE  T \in same
  <2>1. /\ Total(f, T) = IF T = {} THEN 0 ELSE f[Pick(T)] + Total(f, T \ {Pick(T)})
        /\ Total(g, T) = IF T = {} THEN 0 ELSE g[Pick(T)] + Total(g, T \ {Pick(T)})
    BY TotalUnfolds, FS_Subset
  <2>2. CASE T = {}
    BY <2>1, <2>2
  <2>3. CASE T # {}
    <3>1. Pick(T) \in T
      BY <2>3 DEF Pick
    <3>2. QED
      BY <1>1, <2>1, <2>3, <3>1
  <2>4. QED
    BY <2>2, <2>3
<1> HIDE DEF same
<1>2. \A T \in SUBSET S : T \in same
  BY <1>1, SubsetInduction
<1>3. QED
  BY <1>2 DEF same

\* Changing one term changes the sum by the difference.
LEMMA TotalChanges ==
    ASSUME NEW S, IsFiniteSet(S), NEW f, NEW g, NEW x \in S,
           \A y \in S : f[y] \in Int, g[x] \in Int,
           \A y \in S : y # x => g[y] = f[y]
    PROVE  Total(g, S) = Total(f, S) + g[x] - f[x]
<1>1. IsFiniteSet(S \ {x})
  BY FS_RemoveElement
<1>2. Total(f, S) = f[x] + Total(f, S \ {x})
  BY TotalSplits
<1>3. Total(g, S) = g[x] + Total(g, S \ {x})
  BY TotalSplits
<1>4. Total(g, S \ {x}) = Total(f, S \ {x})
  BY <1>1, TotalSame
<1>5. Total(f, S \ {x}) \in Int
  BY TotalType
<1>6. QED
  BY <1>2, <1>3, <1>4, <1>5

-----------------------------------------------------------------------------
(* Bags. *)

IsFiniteBag(B) == IsABag(B) /\ IsFiniteSet(BagToSet(B))

Copies(e, B) == IF e \in BagToSet(B) THEN B[e] ELSE 0

\* One more copy counts one more.
LEMMA AddCopy ==
    ASSUME NEW B, IsFiniteBag(B), NEW e
    PROVE  LET C == B (+) SetToBag({e})
           IN  /\ IsFiniteBag(C)
               /\ BagCardinality(C) = BagCardinality(B) + 1
               /\ BagToSet(C) = BagToSet(B) \cup {e}
               /\ \A x : Copies(x, C) = Copies(x, B) + (IF x = e THEN 1 ELSE 0)
<1> DEFINE C == B (+) SetToBag({e})
<1>1. /\ DOMAIN C = (DOMAIN B) \cup {e}
      /\ C[e] = (IF e \in DOMAIN B THEN B[e] ELSE 0) + 1
      /\ \A x \in DOMAIN B : x # e => C[x] = B[x]
  BY DEF (+), SetToBag, IsFiniteBag, IsABag
<1>2. IsFiniteSet(DOMAIN B) /\ \A x \in DOMAIN B : B[x] \in Nat /\ B[x] > 0
  BY DEF IsFiniteBag, IsABag, BagToSet
<1>3. C \in [DOMAIN C -> {n \in Nat : n > 0}]
  <2>1. C = [x \in DOMAIN C |-> C[x]]
    BY DEF (+)
  <2> HIDE DEF C
  <2>2. QED
    BY <1>1, <1>2, <2>1
<1> HIDE DEF C
<1>4. IsFiniteSet(DOMAIN C)
  BY <1>1, <1>2, FS_AddElement
<1>5. Total(C, DOMAIN C) = Total(B, DOMAIN B) + 1
  <2>1. \A x \in DOMAIN C : C[x] \in Int
    BY <1>3
  <2>2. CASE e \in DOMAIN B
    <3>1. DOMAIN C = DOMAIN B
      BY <1>1, <2>2
    <3>2. Total(C, DOMAIN B) = Total(B, DOMAIN B) + C[e] - B[e]
      BY <1>1, <1>2, <2>1, <2>2, TotalChanges
    <3>3. Total(B, DOMAIN B) \in Int
      BY <1>2, TotalType
    <3>4. QED
      BY <1>1, <1>2, <2>2, <3>1, <3>2, <3>3
  <2>3. CASE e \notin DOMAIN B
    <3>1. Total(C, DOMAIN C) = C[e] + Total(C, (DOMAIN C) \ {e})
      BY <1>1, <1>4, <2>1, TotalSplits
    <3>2. (DOMAIN C) \ {e} = DOMAIN B /\ C[e] = 1
      BY <1>1, <2>3
    <3>3. Total(C, DOMAIN B) = Total(B, DOMAIN B)
      BY <1>1, <1>2, <2>3, TotalSame
    <3>4. Total(B, DOMAIN B) \in Int
      BY <1>2, TotalType
    <3>5. QED
      BY <3>1, <3>2, <3>3, <3>4
  <2>4. QED
    BY <2>2, <2>3
<1>6. \A x : Copies(x, C) = Copies(x, B) + (IF x = e THEN 1 ELSE 0)
  BY <1>1, <1>2 DEF Copies, BagToSet
<1>7. QED
  BY <1>1, <1>3, <1>4, <1>5, <1>6, BagCardinalityIsTotal
     DEF IsFiniteBag, IsABag, BagToSet, C

\* One copy less counts one less.
LEMMA DropCopy ==
    ASSUME NEW B, IsFiniteBag(B), NEW e \in BagToSet(B)
    PROVE  LET C == B (-) SetToBag({e})
           IN  /\ IsFiniteBag(C)
               /\ BagCardinality(C) = BagCardinality(B) - 1
               /\ BagToSet(C) \subseteq BagToSet(B)
               /\ \A x : Copies(x, C) = Copies(x, B) - (IF x = e THEN 1 ELSE 0)
<1> DEFINE C == B (-) SetToBag({e})
           less(x) == IF x = e THEN B[x] - 1 ELSE B[x]
<1>1. IsFiniteSet(DOMAIN B) /\ \A x \in DOMAIN B : B[x] \in Nat /\ B[x] > 0
  BY DEF IsFiniteBag, IsABag, BagToSet
<1>2. C = [x \in {y \in DOMAIN B : less(y) > 0} |-> less(x)]
  BY DEF (-), SetToBag
<1>3. e \in DOMAIN B
  BY DEF BagToSet
<1>4. /\ DOMAIN C = IF B[e] = 1 THEN (DOMAIN B) \ {e} ELSE DOMAIN B
      /\ B[e] # 1 => C[e] = B[e] - 1
      /\ \A x \in DOMAIN B : x # e => C[x] = B[x]
  BY <1>1, <1>2, <1>3
<1>5. C \in [DOMAIN C -> {n \in Nat : n > 0}]
  <2>1. \A x \in {y \in DOMAIN B : less(y) > 0} : less(x) \in {n \in Nat : n > 0}
    BY <1>1
  <2> HIDE DEF less, C
  <2>2. QED
    BY <1>2, <2>1
<1> HIDE DEF C
<1>6. IsFiniteSet(DOMAIN C)
  BY <1>1, <1>4, FS_RemoveElement
<1>7. Total(B, DOMAIN B) \in Int
  BY <1>1, TotalType
<1>8. Total(C, DOMAIN C) = Total(B, DOMAIN B) - 1
  <2>1. CASE B[e] # 1
    <3>1. Total(C, DOMAIN B) = Total(B, DOMAIN B) + C[e] - B[e]
      BY <1>1, <1>3, <1>4, <2>1, TotalChanges
    <3>2. QED
      BY <1>1, <1>3, <1>4, <1>7, <2>1, <3>1
  <2>2. CASE B[e] = 1
    <3>1. Total(B, DOMAIN B) = B[e] + Total(B, (DOMAIN B) \ {e})
      BY <1>1, <1>3, TotalSplits
    <3>2. Total(C, (DOMAIN B) \ {e}) = Total(B, (DOMAIN B) \ {e})
      BY <1>4, <1>6, <2>2, TotalSame
    <3>3. Total(B, (DOMAIN B) \ {e}) \in Int
      BY <1>1, TotalType
    <3>4. QED
      BY <1>4, <2>2, <3>1, <3>2, <3>3
  <2>3. QED
    BY <2>1, <2>2
<1>9. \A x : Copies(x, C) = Copies(x, B) - (IF x = e THEN 1 ELSE 0)
  BY <1>1, <1>3, <1>4 DEF Copies, BagToSet
<1>10. QED
  BY <1>4, <1>5, <1>6, <1>8, <1>9, BagCardinalityIsTotal
     DEF IsFiniteBag, IsABag, BagToSet, C

\* The empty bag has no copies.
LEMMA NoCopies ==
    /\ IsFiniteBag(EmptyBag)
    /\ BagCardinality(EmptyBag) = 0
    /\ BagToSet(EmptyBag) = {}
    /\ \A x : Copies(x, EmptyBag) = 0
<1>1. DOMAIN EmptyBag = {}
  BY DEF EmptyBag, SetToBag
<1>2. Total(EmptyBag, {}) = 0
  BY TotalUnfolds, FS_EmptySet
<1>3. IsABag(EmptyBag)
  BY DEF EmptyBag, SetToBag, IsABag
<1>4. QED
  BY <1>1, <1>2, <1>3, FS_EmptySet, BagCardinalityIsTotal
     DEF IsFiniteBag, BagToSet, Copies
=============================================================================
