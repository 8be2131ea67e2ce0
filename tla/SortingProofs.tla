----------------------------- MODULE SortingProofs -----------------------------
(* Lemmas about finite sets of numbers in their order.                      *)
EXTENDS Sorting, Sequences, FunctionTheorems, FiniteSetTheorems, TLAPS

Rank(S, x) == Cardinality(Before(S, x))

LEMMA RankType ==
  ASSUME NEW S \in SUBSET Nat, IsFiniteSet(S), NEW x \in S
  PROVE  Rank(S, x) \in 0 .. Cardinality(S) - 1
<1>1. Before(S, x) \subseteq S /\ x \notin Before(S, x)
  BY DEF Before
<1>2. /\ IsFiniteSet(Before(S, x)) /\ Cardinality(Before(S, x)) <= Cardinality(S)
      /\ Cardinality(Before(S, x)) # Cardinality(S)
  BY <1>1, FS_Subset
<1> QED
  BY <1>2, FS_CardinalityType DEF Rank

LEMMA RankGrows ==
  ASSUME NEW S \in SUBSET Nat, IsFiniteSet(S), NEW x \in S, NEW y \in S, x < y
  PROVE  Rank(S, x) < Rank(S, y)
<1>0. x \in Nat /\ y \in Nat /\ \A z \in S : z \in Nat
  OBVIOUS
<1>1. Before(S, x) \subseteq Before(S, y) /\ x \in Before(S, y) /\ x \notin Before(S, x)
  <2>1. ASSUME NEW z \in S, z < x
        PROVE  z < y
    BY <1>0, <2>1
  <2>2. Before(S, x) \subseteq Before(S, y)
    BY <2>1 DEF Before
  <2>3. x \in Before(S, y)
    BY DEF Before
  <2>4. x \notin Before(S, x)
    BY <1>0 DEF Before
  <2> QED
    BY <2>2, <2>3, <2>4
<1>2. Before(S, y) \subseteq S
  BY DEF Before
<1>3. IsFiniteSet(Before(S, y))
  BY <1>2, FS_Subset
<1>4. /\ IsFiniteSet(Before(S, x)) /\ Cardinality(Before(S, x)) <= Cardinality(Before(S, y))
      /\ Cardinality(Before(S, x)) # Cardinality(Before(S, y))
  BY <1>1, <1>3, FS_Subset
<1> QED
  BY <1>3, <1>4, FS_CardinalityType DEF Rank

LEMMA RankInjective ==
  ASSUME NEW S \in SUBSET Nat, IsFiniteSet(S), NEW x \in S, NEW y \in S,
         Rank(S, x) = Rank(S, y)
  PROVE  x = y
<1>1. CASE x < y
  BY <1>1, RankGrows, RankType
<1>2. CASE y < x
  BY <1>2, RankGrows, RankType
<1> QED
  BY <1>1, <1>2

(* Every position of a sorted set is some member's: the ranks are as many   *)
(* as the members, and different.                                           *)
LEMMA RankSurjective ==
  ASSUME NEW S \in SUBSET Nat, IsFiniteSet(S), NEW k \in 0 .. Cardinality(S) - 1
  PROVE  \E x \in S : Rank(S, x) = k
<1> DEFINE f == [x \in S |-> Rank(S, x)]
           T == 0 .. Cardinality(S) - 1
<1>1. f \in [S -> T]
  BY RankType
<1>2. \A x, y \in S : f[x] = f[y] => x = y
  BY RankInjective
<1>3. f \in Injection(S, T)
  BY <1>1, <1>2, Fun_IsInj
<1>4. Cardinality(S) \in Nat
  BY FS_CardinalityType
<1>5. IsFiniteSet(T) /\ Cardinality(T) = Cardinality(S)
  BY <1>4, FS_Interval
<1>6. f \in Surjection(S, T)
  BY <1>3, <1>5, FS_Injection
<1>7. \A t \in T : \E x \in S : f[x] = t
  BY <1>6 DEF Surjection
<1> QED
  BY <1>7

LEMMA NthRank ==
  ASSUME NEW S \in SUBSET Nat, IsFiniteSet(S), NEW k \in 0 .. Cardinality(S) - 1
  PROVE  Nth(S, k) \in S /\ Rank(S, Nth(S, k)) = k
<1>1. \E x \in S : Rank(S, x) = k
  BY RankSurjective
<1> QED
  BY <1>1, Zenon DEF Nth, Rank

LEMMA NthOfRank ==
  ASSUME NEW S \in SUBSET Nat, IsFiniteSet(S), NEW x \in S
  PROVE  Nth(S, Rank(S, x)) = x
<1>1. Rank(S, x) \in 0 .. Cardinality(S) - 1
  BY RankType
<1>2. Nth(S, Rank(S, x)) \in S /\ Rank(S, Nth(S, Rank(S, x))) = Rank(S, x)
  BY <1>1, NthRank
<1>3. \A y \in S : Rank(S, y) = Rank(S, x) => y = x
  BY RankInjective
<1> QED
  BY <1>2, <1>3

(* A number above all of a set goes to its end.                             *)
LEMMA NthGrown ==
  ASSUME NEW S \in SUBSET Nat, IsFiniteSet(S), NEW n \in Nat, \A x \in S : x < n
  PROVE  /\ IsFiniteSet(S \cup {n}) /\ Cardinality(S \cup {n}) = Cardinality(S) + 1
         /\ \A k \in 0 .. Cardinality(S) - 1 : Nth(S \cup {n}, k) = Nth(S, k)
         /\ Nth(S \cup {n}, Cardinality(S)) = n
<1> DEFINE G == S \cup {n}
<1>0. n \notin S /\ G \in SUBSET Nat /\ \A x \in S : x \in Nat
  OBVIOUS
<1>1. /\ Cardinality(S) \in Nat
      /\ IsFiniteSet(G) /\ Cardinality(G) = Cardinality(S) + 1
  BY <1>0, FS_AddElement, FS_CardinalityType
<1>2. \A x \in S : Before(G, x) = Before(S, x)
  BY <1>0 DEF Before
<1>3. Before(G, n) = S
  <2>1. \A x \in S : x \in Before(G, n)
    BY DEF Before
  <2>2. \A x \in Before(G, n) : x \in S
    BY DEF Before
  <2> QED
    BY <2>1, <2>2
<1>4. ASSUME NEW k \in 0 .. Cardinality(S) - 1
      PROVE  Nth(G, k) = Nth(S, k)
  <2>1. Nth(S, k) \in S /\ Rank(S, Nth(S, k)) = k
    BY NthRank
  <2>2. Rank(G, Nth(S, k)) = k
    BY <1>2, <2>1 DEF Rank
  <2> QED
    BY <1>0, <1>1, <2>1, <2>2, NthOfRank
<1>5. Nth(G, Cardinality(S)) = n
  BY <1>0, <1>1, <1>3, NthOfRank DEF Rank
<1> QED
  BY <1>1, <1>4, <1>5

(* The least number of a set, which stands for an induction.                *)
LEMMA LeastNumber ==
  ASSUME NEW T \in SUBSET Nat, T # {}
  PROVE  \E n \in T : \A m \in T : n <= m
<1>1. PICK x \in T : TRUE
  OBVIOUS
<1> DEFINE S == T \cap 0 .. x
<1>2. S \in SUBSET Nat /\ x \in S /\ \A s \in S : s <= x
  BY <1>1
<1>3. IsFiniteSet(S)
  BY <1>1, <1>2, FS_BoundedSetOfNaturals
<1>4. Cardinality(S) \in Nat /\ Cardinality(S) # 0
  BY <1>2, <1>3, FS_CardinalityType, FS_EmptySet
<1>5. PICK n \in S : Rank(S, n) = 0
  BY <1>2, <1>3, <1>4, RankSurjective
<1>6. Before(S, n) = {}
  <2>1. Before(S, n) \subseteq S
    BY DEF Before
  <2> QED
    BY <1>3, <1>5, <2>1, FS_Subset, FS_EmptySet DEF Rank
<1>7. \A m \in T : n <= m
  BY <1>1, <1>5, <1>6 DEF Before
<1> QED
  BY <1>5, <1>7

LEMMA InOrderType ==
  ASSUME NEW S \in SUBSET Nat, IsFiniteSet(S)
  PROVE  /\ InOrder(S) \in Seq(S) /\ Len(InOrder(S)) = Cardinality(S)
         /\ \A k \in 1 .. Cardinality(S) : InOrder(S)[k] = Nth(S, k - 1) /\ InOrder(S)[k] \in S
<1>1. Cardinality(S) \in Nat
  BY FS_CardinalityType
<1>2. ASSUME NEW k \in 1 .. Cardinality(S)
      PROVE  Nth(S, k - 1) \in S
  BY <1>1, NthRank
<1>3. InOrder(S) \in [1 .. Cardinality(S) -> S]
  BY <1>2 DEF InOrder
<1>4. InOrder(S) \in Seq(S) /\ Len(InOrder(S)) = Cardinality(S)
  BY <1>1, <1>3
<1> QED
  BY <1>2, <1>4 DEF InOrder

(* A number above all of a set is put at the end.                           *)
LEMMA InOrderGrown ==
  ASSUME NEW S \in SUBSET Nat, IsFiniteSet(S), NEW n \in Nat, \A x \in S : x < n
  PROVE  /\ Len(InOrder(S \cup {n})) = Len(InOrder(S)) + 1
         /\ \A k \in 1 .. Len(InOrder(S)) : InOrder(S \cup {n})[k] = InOrder(S)[k]
<1>1. /\ S \cup {n} \in SUBSET Nat /\ IsFiniteSet(S \cup {n}) /\ Cardinality(S) \in Nat
      /\ Cardinality(S \cup {n}) = Cardinality(S) + 1
  BY NthGrown, FS_CardinalityType
<1>2. /\ Len(InOrder(S)) = Cardinality(S)
      /\ \A k \in 1 .. Cardinality(S) : InOrder(S)[k] = Nth(S, k - 1)
  BY InOrderType
<1>3. /\ Len(InOrder(S \cup {n})) = Cardinality(S) + 1
      /\ \A k \in 1 .. Cardinality(S) + 1 : InOrder(S \cup {n})[k] = Nth(S \cup {n}, k - 1)
  BY <1>1, InOrderType
<1>4. ASSUME NEW k \in 1 .. Cardinality(S)
      PROVE  InOrder(S \cup {n})[k] = InOrder(S)[k]
  <2>1. k - 1 \in 0 .. Cardinality(S) - 1 /\ k \in 1 .. Cardinality(S) + 1
    BY <1>1
  <2>2. Nth(S \cup {n}, k - 1) = Nth(S, k - 1)
    BY <2>1, NthGrown
  <2> QED
    BY <1>2, <1>3, <2>1, <2>2
<1> QED
  BY <1>2, <1>3, <1>4
=============================================================================
