-------------------------------- MODULE Sums --------------------------------
(***************************************************************************)
(* Lemmas the proofs share: induction over the natural numbers and over    *)
(* finite sets, stated of sets rather than of predicates, so that they can *)
(* be cited; and what SumFunction of the community modules returns.        *)
(***************************************************************************)
EXTENDS Integers, Functions, FiniteSetTheorems, WellFoundedInduction, TLAPS

(* Every nonempty set of natural numbers has a least element.              *)
LEMMA LeastNatural ==
  ASSUME NEW S \in SUBSET Nat, S # {}
  PROVE  \E m \in S : \A k \in S : m <= k
<1> DEFINE Less == {p \in Nat \X Nat : p[1] < p[2]}
<1>1. OpToRel(<, Nat) = Less
  BY Zenon DEF OpToRel
<1>2. IsWellFoundedOn(Less, Nat)
  BY <1>1, NatLessThanWellFounded, Zenon
<1>3. \E m \in S : \A k \in S : <<k, m>> \notin Less
  <2> HIDE DEF Less
  <2>1. QED
    BY <1>2, WFMin
<1>4. \A k, m \in S : <<k, m>> \notin Less => m <= k
  OBVIOUS
<1> HIDE DEF Less
<1>5. QED
  BY <1>3, <1>4

(* Induction over the natural numbers up to n.                             *)
LEMMA UpTo ==
  ASSUME NEW n \in Nat, NEW Good, 0 \in Good,
         \A k \in 0..(n - 1) : k \in Good => k + 1 \in Good
  PROVE  n \in Good
<1> SUFFICES ASSUME n \notin Good PROVE FALSE
  OBVIOUS
<1> DEFINE Bad == {k \in 0..n : k \notin Good}
<1>1. Bad \in SUBSET Nat /\ n \in Bad
  OBVIOUS
<1>2. PICK m \in Bad : \A k \in Bad : m <= k
  BY <1>1, LeastNatural
<1>3. m # 0 /\ m - 1 \in 0..(n - 1) /\ m - 1 \notin Bad
  BY <1>2
<1>4. m - 1 \in Good
  BY <1>3
<1>5. (m - 1) + 1 \in Good
  BY <1>3, <1>4
<1>6. QED
  BY <1>2, <1>5
-----------------------------------------------------------------------------
(* The element a fold takes first.                                         *)
One(s) == CHOOSE x \in s : TRUE

(* The recursion equation of a sum over the subsets in D.                  *)
SumsOver(f, D, g) ==
  g = [s \in D |-> IF s = {} THEN 0 ELSE f[One(s)] + g[s \ {One(s)}]]

LEMMA SumIsRecursive ==
  ASSUME NEW f
  PROVE  SumFunction(f) = (CHOOSE g : SumsOver(f, SUBSET DOMAIN f, g))[DOMAIN f]
BY DEF SumFunction, SumFunctionOnSet, FoldFunctionOnSet, MapThenFoldSet, One, SumsOver

(* The recursion has a solution: sums of sets of n + 1 elements are made   *)
(* from sums of n.                                                         *)
LEMMA SumsExist ==
  ASSUME NEW S, IsFiniteSet(S), NEW f
  PROVE  \E g : SumsOver(f, SUBSET S, g)
<1> DEFINE Small(n) == {T \in SUBSET S : Cardinality(T) <= n}
           Good == {n \in Nat : \E g : SumsOver(f, Small(n), g)}
<1>1. \A T \in SUBSET S : IsFiniteSet(T) /\ Cardinality(T) \in Nat /\ Cardinality(T) <= Cardinality(S)
  BY FS_Subset, FS_CardinalityType
<1>2. 0 \in Good
  <2>1. \A T \in Small(0) : T = {}
    BY <1>1, FS_EmptySet
  <2>2. SumsOver(f, Small(0), [T \in Small(0) |-> 0])
    BY <2>1 DEF SumsOver
  <2>3. QED
    BY <2>2
<1>3. ASSUME NEW n \in Nat, n \in Good PROVE n + 1 \in Good
  <2>1. PICK g : SumsOver(f, Small(n), g)
    BY <1>3
  <2> DEFINE h == [T \in Small(n + 1) |-> IF T = {} THEN 0 ELSE f[One(T)] + g[T \ {One(T)}]]
  <2>2. \A T \in Small(n) : T \in Small(n + 1) /\ h[T] = g[T]
    <3>1. \A T \in Small(n) : T \in Small(n + 1)
      BY <1>1
    <3>2. \A T \in Small(n) : g[T] = IF T = {} THEN 0 ELSE f[One(T)] + g[T \ {One(T)}]
      BY <2>1 DEF SumsOver
    <3>3. QED
      BY <3>1, <3>2
  <2>3. ASSUME NEW T \in Small(n + 1), T # {} PROVE T \ {One(T)} \in Small(n)
    <3>1. One(T) \in T
      BY <2>3 DEF One
    <3>2. Cardinality(T \ {One(T)}) = Cardinality(T) - 1
      BY <1>1, <3>1, FS_RemoveElement
    <3>3. QED
      BY <1>1, <3>2
  <2>4. \A T \in Small(n + 1) : T # {} => h[T \ {One(T)}] = g[T \ {One(T)}]
    BY <2>2, <2>3
  <2>5. h = [T \in Small(n + 1) |-> IF T = {} THEN 0 ELSE f[One(T)] + h[T \ {One(T)}]]
    BY <2>4
  <2>6. SumsOver(f, Small(n + 1), h)
    BY <2>5 DEF SumsOver
  <2>7. \E d : SumsOver(f, Small(n + 1), d)
    BY <2>6
  <2>8. QED
    BY <2>7
<1>4. Cardinality(S) \in Good
  BY <1>1, <1>2, <1>3, UpTo
<1>5. Small(Cardinality(S)) = SUBSET S
  BY <1>1
<1>6. QED
  BY <1>4, <1>5

(* Induction along the elements that a sum runs over.                      *)
LEMMA SumInduction ==
  ASSUME NEW S, IsFiniteSet(S), NEW f, DOMAIN f = S,
         NEW R, <<{}, 0>> \in R,
         \A T \in SUBSET S : \A x \in T : \A n :
           <<T \ {x}, n>> \in R => <<T, f[x] + n>> \in R
  PROVE  <<S, SumFunction(f)>> \in R
<1> DEFINE g == CHOOSE h : SumsOver(f, SUBSET S, h)
           Good == {n \in Nat : \A T \in SUBSET S : Cardinality(T) = n => <<T, g[T]>> \in R}
<1>1. SumsOver(f, SUBSET S, g)
  BY SumsExist
<1>2. SumFunction(f) = g[S]
  BY SumIsRecursive
<1> HIDE DEF g
<1>3. \A T \in SUBSET S : IsFiniteSet(T) /\ Cardinality(T) \in Nat
  BY FS_Subset, FS_CardinalityType
<1>4. \A T \in SUBSET S : g[T] = IF T = {} THEN 0 ELSE f[One(T)] + g[T \ {One(T)}]
  BY <1>1 DEF SumsOver
<1>5. 0 \in Good
  <2>1. \A T \in SUBSET S : Cardinality(T) = 0 => T = {}
    BY <1>3, FS_EmptySet
  <2>2. QED
    BY <1>4, <2>1
<1>6. ASSUME NEW n \in Nat, n \in Good PROVE n + 1 \in Good
  <2>1. ASSUME NEW T \in SUBSET S, Cardinality(T) = n + 1 PROVE <<T, g[T]>> \in R
    <3>1. T # {}
      BY <2>1, FS_EmptySet
    <3>2. One(T) \in T
      BY <3>1 DEF One
    <3>3. Cardinality(T \ {One(T)}) = n /\ T \ {One(T)} \in SUBSET S
      <4>1. Cardinality(T \ {One(T)}) = Cardinality(T) - 1
        BY <1>3, <3>2, FS_RemoveElement
      <4>2. QED
        BY <2>1, <4>1
    <3>4. <<T \ {One(T)}, g[T \ {One(T)}]>> \in R
      BY <1>6, <3>3
    <3>5. <<T, f[One(T)] + g[T \ {One(T)}]>> \in R
      BY <3>2, <3>4
    <3>6. QED
      BY <1>4, <3>1, <3>5
  <2>2. QED
    BY <2>1
<1>7. Cardinality(S) \in Good
  BY <1>3, <1>5, <1>6, UpTo
<1>8. QED
  BY <1>2, <1>7

(* A sum is at most any bound that grows with each of its elements.        *)
LEMMA SumAtMost ==
  ASSUME NEW S, IsFiniteSet(S), NEW f \in [S -> Int],
         NEW bound \in [SUBSET S -> Int], 0 <= bound[{}],
         \A T \in SUBSET S : \A x \in T : f[x] + bound[T \ {x}] <= bound[T]
  PROVE  SumFunction(f) \in Int /\ SumFunction(f) <= bound[S]
<1> DEFINE R == {p \in (SUBSET S) \X Int : p[2] <= bound[p[1]]}
<1>1. <<{}, 0>> \in R
  <2>1. <<{}, 0>> \in (SUBSET S) \X Int
    OBVIOUS
  <2>2. QED
    BY <2>1
<1>2. ASSUME NEW T \in SUBSET S, NEW x \in T, NEW n, <<T \ {x}, n>> \in R
      PROVE  <<T, f[x] + n>> \in R
  <2>1. n \in Int /\ n <= bound[T \ {x}] /\ bound[T \ {x}] \in Int /\ bound[T] \in Int /\ f[x] \in Int
    BY <1>2
  <2>2. f[x] + bound[T \ {x}] <= bound[T]
    OBVIOUS
  <2>3. QED
    BY <2>1, <2>2
<1>3. <<S, SumFunction(f)>> \in R
  <2> HIDE DEF R
  <2>1. QED
    BY <1>1, <1>2, SumInduction
<1>4. QED
  BY <1>3

(* A sum is whatever grows by each of its elements.                        *)
LEMMA SumIs ==
  ASSUME NEW S, IsFiniteSet(S), NEW f \in [S -> Int],
         NEW size \in [SUBSET S -> Int], size[{}] = 0,
         \A T \in SUBSET S : \A x \in T : size[T] = f[x] + size[T \ {x}]
  PROVE  SumFunction(f) = size[S]
<1> DEFINE R == {p \in (SUBSET S) \X Int : p[2] = size[p[1]]}
<1>1. <<{}, 0>> \in R
  OBVIOUS
<1>2. ASSUME NEW T \in SUBSET S, NEW x \in T, NEW n, <<T \ {x}, n>> \in R
      PROVE  <<T, f[x] + n>> \in R
  <2>1. n = size[T \ {x}] /\ size[T] = f[x] + size[T \ {x}] /\ size[T] \in Int
    BY <1>2
  <2>2. QED
    BY <2>1
<1>3. <<S, SumFunction(f)>> \in R
  <2> HIDE DEF R
  <2>1. QED
    BY <1>1, <1>2, SumInduction
<1>4. QED
  BY <1>3

(* The groups of a finite set have as many elements together as the set.   *)
LEMMA GroupsAddUp ==
  ASSUME NEW S, IsFiniteSet(S), NEW G, IsFiniteSet(G), NEW group \in [S -> G]
  PROVE  SumFunction([g \in G |-> Cardinality({e \in S : group[e] = g})]) = Cardinality(S)
<1> DEFINE In(T) == {e \in S : group[e] \in T}
           f == [g \in G |-> Cardinality({e \in S : group[e] = g})]
           size == [T \in SUBSET G |-> Cardinality(In(T))]
<1>1. \A P \in SUBSET S : IsFiniteSet(P) /\ Cardinality(P) \in Nat
  BY FS_Subset, FS_CardinalityType
<1>2. f \in [G -> Int] /\ size \in [SUBSET G -> Int]
  BY <1>1
<1>3. size[{}] = 0
  <2>1. In({}) = {}
    OBVIOUS
  <2>2. QED
    BY <2>1, FS_EmptySet
<1>4. ASSUME NEW T \in SUBSET G, NEW x \in T PROVE size[T] = f[x] + size[T \ {x}]
  <2> DEFINE A == {e \in S : group[e] = x}
             B == In(T \ {x})
  <2>1. In(T) = A \cup B /\ A \cap B = {}
    OBVIOUS
  <2>2. IsFiniteSet(A) /\ IsFiniteSet(B) /\ Cardinality(A) \in Nat /\ Cardinality(B) \in Nat
    BY <1>1
  <2>3. Cardinality(A \cup B) = Cardinality(A) + Cardinality(B) - Cardinality(A \cap B)
    BY <2>2, FS_Union
  <2>4. Cardinality(In(T)) = Cardinality(A) + Cardinality(B)
    <3>1. Cardinality(A \cap B) = 0 /\ Cardinality(In(T)) = Cardinality(A \cup B)
      BY <2>1, FS_EmptySet
    <3> HIDE DEF A, B, In
    <3>2. QED
      BY <2>2, <2>3, <3>1
  <2>5. QED
    BY <2>4
<1>5. SumFunction(f) = size[G]
  <2> HIDE DEF f, size
  <2>1. QED
    BY <1>2, <1>3, <1>4, SumIs
<1>6. In(G) = S
  OBVIOUS
<1>7. QED
  BY <1>5, <1>6
=============================================================================
