---------------------------------- MODULE Orders ----------------------------------
(***************************************************************************)
(* Facts about sets of naturals that the proofs share.  An induction is    *)
(* stated over a set, whose members are the numbers with the property.     *)
(***************************************************************************)
EXTENDS Integers, FiniteSetsExt, FiniteSetTheorems, WellFoundedInduction, TLAPS

\* A nonempty set of naturals has a least member.
LEMMA LeastOf ==
    ASSUME NEW T \in SUBSET Nat, T # {}
    PROVE  \E x \in T : \A y \in T : x <= y
  <1> DEFINE R == OpToRel(<, Nat)
  <1>1. \A x, y \in Nat : <<x, y>> \in R <=> x < y
    BY DEF OpToRel
  <1>2. IsWellFoundedOn(R, Nat)
    BY NatLessThanWellFounded
  <1> HIDE DEF R
  <1>3. PICK x \in T : \A y \in T : ~(<<y, x>> \in R)
    BY <1>2, WFMin
  <1>4. ASSUME NEW y \in T
        PROVE  x <= y
    <2>1. x \in Nat /\ y \in Nat /\ ~(<<y, x>> \in R)
      BY <1>3
    <2>2. ~(y < x)
      BY <2>1, <1>1, Zenon
    <2> QED
      BY <2>1, <2>2
  <1> QED
    BY <1>4

\* A nonempty set of naturals with an upper bound has a greatest member.
LEMMA GreatestOf ==
    ASSUME NEW T \in SUBSET Nat, T # {}, NEW n \in Nat, \A x \in T : x <= n
    PROVE  \E x \in T : \A y \in T : y <= x
  <1> DEFINE D == {d \in Nat : \E x \in T : d = n - x}
  <1>1. \A x \in T : x \in Nat /\ n - x \in D
    OBVIOUS
  <1>2. D \in SUBSET Nat /\ D # {}
    BY <1>1
  <1>3. PICK d \in D : \A e \in D : d <= e
    BY <1>2, LeastOf
  <1>4. PICK x \in T : d = n - x
    BY <1>3
  <1>5. ASSUME NEW y \in T
        PROVE  y <= x
    <2>1. n - x <= n - y
      BY <1>1, <1>3, <1>4
    <2>2. x \in Nat /\ y \in Nat
      BY <1>1
    <2> QED
      BY <2>1, <2>2
  <1> QED
    BY <1>5

\* Max and Min of a bounded set of naturals.
LEMMA MaxIs ==
    ASSUME NEW T \in SUBSET Nat, T # {}, NEW n \in Nat, \A x \in T : x <= n
    PROVE  Max(T) \in T /\ \A x \in T : x <= Max(T)
  <1>1. \E x \in T : \A y \in T : y <= x
    BY GreatestOf
  <1>2. \A x, y \in T : y <= x <=> x >= y
    OBVIOUS
  <1>3. \E x \in T : \A y \in T : x >= y
    BY <1>1, <1>2
  <1>4. Max(T) \in T /\ \A y \in T : Max(T) >= y
    BY <1>3, Zenon DEF Max
  <1> QED
    BY <1>2, <1>4

LEMMA MinIs ==
    ASSUME NEW T \in SUBSET Nat, T # {}
    PROVE  Min(T) \in T /\ \A x \in T : Min(T) <= x
  <1>1. \E x \in T : \A y \in T : x <= y
    BY LeastOf
  <1> QED
    BY <1>1, Zenon DEF Min

\* What holds of 0, and of k + 1 when it holds of k, holds up to any n.
LEMMA UpTo ==
    ASSUME NEW n \in Nat, NEW S, 0 \in S, \A k \in 0..(n - 1) : k \in S => k + 1 \in S
    PROVE  0..n \subseteq S
  <1> DEFINE T == {k \in 0..n : k \notin S}
  <1> SUFFICES ASSUME T # {}
               PROVE  FALSE
    OBVIOUS
  <1>1. PICK x \in T : \A y \in T : x <= y
    <2>1. T \in SUBSET Nat
      OBVIOUS
    <2> QED
      BY <2>1, LeastOf
  <1>2. x # 0 /\ x - 1 \in 0..(n - 1)
    BY <1>1
  <1>3. x - 1 \in S
    BY <1>1, <1>2
  <1> QED
    BY <1>1, <1>2, <1>3

\* How many numbers there are from 1 to n.
LEMMA CountTo ==
    ASSUME NEW n \in Nat
    PROVE  IsFiniteSet(1..n) /\ Cardinality(1..n) = n
  <1>1. IsFiniteSet(1..n) /\ Cardinality(1..n) = IF 1 > n THEN 0 ELSE n - 1 + 1
    BY FS_Interval
  <1> QED
    BY <1>1

\* An increasing function from 1..n to itself is the identity.
LEMMA IncreasingIsIdentity ==
    ASSUME NEW n \in Nat, NEW q \in [1..n -> 1..n],
           \A k, l \in 1..n : k < l => q[k] < q[l]
    PROVE  \A k \in 1..n : q[k] = k
  <1>1. ASSUME NEW k \in 1..n
        PROVE  q[k] \in 1..n
    OBVIOUS
  <1>2. \A k \in 1..n : q[k] >= k
    <2> DEFINE S == {k \in 0..n : k = 0 \/ q[k] >= k}
    <2>1. ASSUME NEW k \in 0..(n - 1), k \in S
          PROVE  k + 1 \in S
      <3>1. CASE k = 0
        BY <1>1, <3>1
      <3>2. CASE k # 0
        <4>1. k \in 1..n /\ k + 1 \in 1..n /\ q[k] >= k
          BY <2>1, <3>2
        <4>2. q[k] < q[k + 1] /\ q[k] \in Nat /\ q[k + 1] \in Nat
          BY <1>1, <4>1
        <4> QED
          BY <4>1, <4>2
      <3> QED
        BY <3>1, <3>2
    <2>2. 0 \in S
      OBVIOUS
    <2>3. 0..n \subseteq S
      <3> HIDE DEF S
      <3> QED
        BY <2>1, <2>2, UpTo
    <2> QED
      BY <2>3
  <1>3. \A k \in 1..n : q[k] <= k
    <2> DEFINE S == {d \in 0..n : d = n \/ q[n - d] <= n - d}
    <2>1. ASSUME NEW d \in 0..(n - 1), d \in S
          PROVE  d + 1 \in S
      <3>1. CASE d + 1 = n
        BY <3>1
      <3>2. CASE d + 1 # n
        <4>1. n - d \in 1..n /\ n - (d + 1) \in 1..n /\ n - (d + 1) < n - d /\ q[n - d] <= n - d
          BY <2>1, <3>2
        <4>2. q[n - (d + 1)] < q[n - d] /\ q[n - d] \in Nat /\ q[n - (d + 1)] \in Nat
          BY <1>1, <4>1
        <4> QED
          BY <4>1, <4>2
      <3> QED
        BY <3>1, <3>2
    <2>2. 0 \in S
      BY <1>1
    <2>3. 0..n \subseteq S
      <3> HIDE DEF S
      <3> QED
        BY <2>1, <2>2, UpTo
    <2>4. ASSUME NEW k \in 1..n
          PROVE  q[k] <= k
      <3>1. n - k \in 0..n /\ n - k # n /\ n - (n - k) = k
        OBVIOUS
      <3>2. n - k \in S
        BY <2>3, <3>1
      <3> QED
        BY <3>1, <3>2
    <2> QED
      BY <2>4
  <1> QED
    BY <1>1, <1>2, <1>3

\* A set of the numbers up to n that has, with a number, all below it.
LEMMA InitialSegment ==
    ASSUME NEW n \in Nat, NEW R \in SUBSET (1..n), \A k \in R : \A j \in 1..k : j \in R
    PROVE  R = 1..Cardinality(R) /\ Cardinality(R) \in 0..n
  <1>1. CASE R = {}
    BY <1>1, FS_EmptySet
  <1>2. CASE R # {}
    <2>1. R \in SUBSET Nat /\ \A x \in R : x <= n
      OBVIOUS
    <2>2. PICK m \in R : \A y \in R : y <= m
      BY <1>2, <2>1, GreatestOf
    <2>3. R = 1..m /\ m \in 0..n /\ m \in Nat
      <3>1. m \in 1..n /\ m \in Nat
        OBVIOUS
      <3>2. \A j \in R : j \in 1..n /\ j <= m
        BY <2>2
      <3>3. \A j \in R : j \in 1..m
        BY <3>1, <3>2
      <3>4. \A j \in 1..m : j \in R
        OBVIOUS
      <3>5. R = 1..m
        BY <3>3, <3>4, Zenon
      <3> QED
        BY <3>1, <3>5
    <2>4. Cardinality(R) = m
      BY <2>3, CountTo
    <2> QED
      BY <2>3, <2>4
  <1> QED
    BY <1>1, <1>2

\* The lowest members of a set, as many as a limit admits.
Below(A, n) == {m \in A : m < n}

Lowest(A, limit) == {n \in A : Cardinality(Below(A, n)) < limit}

\* There are as many as the limit, unless the set has fewer.
LEMMA LowestCount ==
    ASSUME NEW A \in SUBSET Nat, IsFiniteSet(A), NEW limit \in Nat
    PROVE  /\ Cardinality(A) <= limit => Lowest(A, limit) = A
           /\ Cardinality(A) >= limit => Cardinality(Lowest(A, limit)) = limit
           /\ IsFiniteSet(Lowest(A, limit))
  <1> DEFINE size == Cardinality(A)
             rank == [n \in A |-> Cardinality(Below(A, n)) + 1]
             low == Lowest(A, limit)
  <1>1. size \in Nat
    BY FS_CardinalityType
  <1>2. ASSUME NEW n \in A
        PROVE  IsFiniteSet(Below(A, n)) /\ Cardinality(Below(A, n)) \in 0..(size - 1)
    <2>1. Below(A, n) \subseteq A \ {n}
      BY DEF Below
    <2>2. IsFiniteSet(A \ {n}) /\ Cardinality(A \ {n}) = size - 1
      BY FS_RemoveElement
    <2>3. IsFiniteSet(Below(A, n)) /\ Cardinality(Below(A, n)) <= size - 1
      BY <2>1, <2>2, FS_Subset
    <2> QED
      BY <1>1, <2>3, FS_CardinalityType
  <1> HIDE DEF size
  <1>3. ASSUME NEW n \in A, NEW m \in A, m < n
        PROVE  Cardinality(Below(A, m)) < Cardinality(Below(A, n))
    <2>1. m \in Below(A, n) /\ Below(A, m) \subseteq Below(A, n) \ {m}
      <3>1. m \in Nat /\ n \in Nat
        OBVIOUS
      <3>2. \A x \in Below(A, m) : x \in A /\ x \in Nat /\ x < m
        BY DEF Below
      <3>3. \A x \in Below(A, m) : x < n /\ x # m
        BY <1>3, <3>1, <3>2
      <3> QED
        BY <1>3, <3>2, <3>3 DEF Below
    <2>2. IsFiniteSet(Below(A, n) \ {m}) /\ Cardinality(Below(A, n) \ {m}) = Cardinality(Below(A, n)) - 1
      BY <1>2, <2>1, FS_RemoveElement
    <2>3. Cardinality(Below(A, m)) <= Cardinality(Below(A, n)) - 1
      BY <2>1, <2>2, FS_Subset
    <2> QED
      BY <1>1, <1>2, <2>3
  <1>4. rank \in [A -> 1..size] /\ \A n \in A : rank[n] = Cardinality(Below(A, n)) + 1
    BY <1>1, <1>2
  <1> HIDE DEF rank
  <1>5. ASSUME NEW n \in A, NEW m \in A, n # m
        PROVE  rank[n] # rank[m]
    <2>1. n < m \/ m < n
      BY <1>5
    <2>2. /\ n < m => Cardinality(Below(A, n)) < Cardinality(Below(A, m))
          /\ m < n => Cardinality(Below(A, m)) < Cardinality(Below(A, n))
      BY <1>3
    <2>3. Cardinality(Below(A, n)) \in Int /\ Cardinality(Below(A, m)) \in Int
      BY <1>1, <1>2
    <2> QED
      BY <1>4, <2>1, <2>2, <2>3
  <1>6. rank \in Surjection(A, 1..size)
    <2>1. rank \in Injection(A, 1..size)
      BY <1>4, <1>5 DEF Injection, IsInjective
    <2> QED
      BY <1>1, <2>1, CountTo, FS_Injection DEF size
  <1>7. low = {n \in A : rank[n] <= limit}
    <2>1. ASSUME NEW n \in A
          PROVE  Cardinality(Below(A, n)) < limit <=> rank[n] <= limit
      <3>1. rank[n] = Cardinality(Below(A, n)) + 1 /\ Cardinality(Below(A, n)) \in Int
        BY <1>1, <1>2, <1>4
      <3> QED
        BY <3>1
    <2> QED
      BY <2>1 DEF Lowest
  <1>8. ASSUME size <= limit
        PROVE  low = A
    <2>1. ASSUME NEW n \in A
          PROVE  rank[n] <= limit
      <3>1. rank[n] \in 1..size
        BY <1>4
      <3> QED
        BY <1>1, <1>8, <3>1
    <2> QED
      BY <1>7, <2>1
  <1>9. IsFiniteSet(low)
    BY <1>7, FS_Subset
  <1>10. ASSUME size >= limit
         PROVE  Cardinality(low) = limit
    <2> DEFINE f == [n \in low |-> rank[n]]
    <2>1. f \in [low -> 1..limit]
      <3>1. ASSUME NEW n \in low
            PROVE  rank[n] \in 1..limit
        <4>1. rank[n] \in 1..size /\ rank[n] <= limit
          BY <1>4, <1>7
        <4> QED
          BY <1>1, <4>1
      <3> QED
        BY <3>1
    <2>2. \A n, m \in low : n # m => f[n] # f[m]
      BY <1>5, <1>7
    <2>3. \A k \in 1..limit : \E n \in low : f[n] = k
      <3>1. ASSUME NEW k \in 1..limit
            PROVE  \E n \in low : f[n] = k
        <4>1. k \in 1..size
          BY <1>1, <1>10
        <4>2. PICK n \in A : rank[n] = k
          BY <1>6, <4>1 DEF Surjection
        <4> QED
          BY <1>7, <4>2
      <3> QED
        BY <3>1
    <2> HIDE DEF f
    <2>4. f \in Injection(low, 1..limit) /\ f \in Surjection(low, 1..limit)
      BY <2>1, <2>2, <2>3 DEF Injection, IsInjective, Surjection
    <2> QED
      BY <2>4, CountTo, FS_Injection
  <1> QED
    BY <1>8, <1>9, <1>10 DEF size

\* Of an interval above a set, what the limit on the lowest members still takes.
Further(A, e, s, limit) == {n \in e..(s - 1) : n - e < limit - Cardinality(Lowest(A, limit))}

LowestGrow(A, e, s, limit) ==
    Lowest(A \cup (e..(s - 1)), limit) = Lowest(A, limit) \cup Further(A, e, s, limit)

\* The lowest members of a set to which an interval above it is added.
LEMMA LowestExtends ==
    ASSUME NEW e \in Nat, NEW s \in Nat, e <= s, NEW A \in SUBSET (0..(e - 1)),
           NEW limit \in Nat
    PROVE  LowestGrow(A, e, s, limit)
  <1> DEFINE B == A \cup (e..(s - 1))
             size == Cardinality(A)
  <1>1. IsFiniteSet(A) /\ A \in SUBSET Nat /\ size \in Nat
    <2>1. IsFiniteSet(0..(e - 1))
      <3>1. 0 \in Int /\ e - 1 \in Int
        OBVIOUS
      <3> QED
        BY <3>1, FS_Interval
    <2>2. IsFiniteSet(A)
      BY <2>1, FS_Subset
    <2> QED
      BY <2>2, FS_CardinalityType
  <1>2. ASSUME NEW n \in A
        PROVE  n \in Lowest(B, limit) <=> n \in Lowest(A, limit)
    <2>1. Below(B, n) = Below(A, n)
      BY DEF Below
    <2> QED
      BY <2>1 DEF Lowest
  <1>3. ASSUME NEW n \in e..(s - 1)
        PROVE  n \in Lowest(B, limit) <=> n - e < limit - Cardinality(Lowest(A, limit))
    <2>1. Below(B, n) = A \cup (e..(n - 1))
      <3>1. \A x \in A : x \in Nat /\ x < e
        OBVIOUS
      <3>2. \A x \in A : x < n
        BY <3>1
      <3>3. \A x \in e..(s - 1) : x < n <=> x \in e..(n - 1)
        OBVIOUS
      <3>4. e..(n - 1) \subseteq e..(s - 1)
        OBVIOUS
      <3> QED
        BY <3>2, <3>3, <3>4 DEF Below
    <2>2. IsFiniteSet(e..(n - 1)) /\ Cardinality(e..(n - 1)) = n - e
      <3>1. e \in Int /\ n - 1 \in Int /\ n >= e
        OBVIOUS
      <3>2. /\ IsFiniteSet(e..(n - 1))
            /\ Cardinality(e..(n - 1)) = IF e > n - 1 THEN 0 ELSE n - 1 - e + 1
        BY <3>1, FS_Interval
      <3> QED
        BY <3>1, <3>2
    <2>3. A \cap (e..(n - 1)) = {}
      OBVIOUS
    <2>4. Cardinality(Below(B, n)) = size + (n - e)
      <3>1. /\ Cardinality(A \cup (e..(n - 1))) =
                  Cardinality(A) + Cardinality(e..(n - 1)) - Cardinality(A \cap (e..(n - 1)))
        BY <1>1, <2>2, FS_Union
      <3>2. Cardinality(A \cap (e..(n - 1))) = 0
        BY <2>3, FS_EmptySet
      <3>3. Cardinality(Below(B, n)) = size + (n - e) - 0
        BY <2>1, <2>2, <3>1, <3>2, Zenon
      <3> QED
        BY <1>1, <3>3
    <2>5. n \in Lowest(B, limit) <=> size + (n - e) < limit
      BY <2>4 DEF Lowest
    <2>6. CASE size <= limit
      <3>1. Lowest(A, limit) = A
        BY <1>1, <2>6, LowestCount
      <3>2. size + (n - e) < limit <=> n - e < limit - size
        BY <1>1
      <3> QED
        BY <2>5, <3>1, <3>2
    <2>7. CASE size > limit
      <3>1. Cardinality(Lowest(A, limit)) = limit
        BY <1>1, <2>7, LowestCount
      <3>2. ~(size + (n - e) < limit) /\ ~(n - e < limit - limit)
        BY <1>1, <2>7
      <3> QED
        BY <2>5, <3>1, <3>2
    <2> QED
      BY <1>1, <2>6, <2>7
  <1>4. Lowest(B, limit) \subseteq B /\ Lowest(A, limit) \subseteq A /\ A \cap (e..(s - 1)) = {}
    BY DEF Lowest
  <1> QED
    BY <1>2, <1>3, <1>4 DEF Further, LowestGrow

\* The members of a set in order, each at the place that says how many are
\* below it.
InOrder(A) ==
    [k \in 1..Cardinality(A) |-> CHOOSE n \in A : Cardinality(Below(A, n)) = k - 1]

\* A greater member has more below it.
LEMMA BelowGrows ==
    ASSUME NEW A \in SUBSET Nat, IsFiniteSet(A), NEW m \in A
    PROVE  /\ Cardinality(Below(A, m)) \in 0..(Cardinality(A) - 1)
           /\ \A n \in A : m < n => Cardinality(Below(A, m)) < Cardinality(Below(A, n))
  <1>1. \A n \in A : IsFiniteSet(Below(A, n)) /\ Cardinality(Below(A, n)) \in Nat
    <2>1. \A n \in A : Below(A, n) \subseteq A
      BY DEF Below
    <2> QED
      BY <2>1, FS_Subset, FS_CardinalityType
  <1>2. Cardinality(Below(A, m)) <= Cardinality(A) - 1
    <2>1. Below(A, m) \subseteq A \ {m}
      BY DEF Below
    <2>2. IsFiniteSet(A \ {m}) /\ Cardinality(A \ {m}) = Cardinality(A) - 1
      BY FS_RemoveElement
    <2> QED
      BY <2>1, <2>2, FS_Subset
  <1>3. ASSUME NEW n \in A, m < n
        PROVE  Cardinality(Below(A, m)) < Cardinality(Below(A, n))
    <2>1. m \in Below(A, n) /\ Below(A, m) \subseteq Below(A, n) \ {m}
      <3>1. \A x \in A : x \in Nat /\ (x < m => x < n /\ x # m)
        BY <1>3
      <3> QED
        BY <1>3, <3>1 DEF Below
    <2>2. IsFiniteSet(Below(A, n) \ {m}) /\ Cardinality(Below(A, n) \ {m}) = Cardinality(Below(A, n)) - 1
      BY <1>1, <2>1, FS_RemoveElement
    <2>3. Cardinality(Below(A, m)) <= Cardinality(Below(A, n)) - 1
      BY <2>1, <2>2, FS_Subset
    <2> QED
      BY <1>1, <2>3
  <1>4. Cardinality(A) \in Nat
    BY FS_CardinalityType
  <1> QED
    BY <1>1, <1>2, <1>3, <1>4

\* Every member has its place in the order, and the order ascends.
LEMMA InOrderAscends ==
    ASSUME NEW A \in SUBSET Nat, IsFiniteSet(A)
    PROVE  /\ Cardinality(A) \in Nat
           /\ InOrder(A) \in [1..Cardinality(A) -> A]
           /\ \A k, l \in 1..Cardinality(A) : k < l => InOrder(A)[k] < InOrder(A)[l]
           /\ \A n \in A : \E k \in 1..Cardinality(A) : InOrder(A)[k] = n
  <1> DEFINE size == Cardinality(A)
             rank(n) == Cardinality(Below(A, n))
  <1>1. size \in Nat
    BY FS_CardinalityType
  <1>2. \A n \in A : rank(n) \in 0..(size - 1)
    BY BelowGrows
  <1>3. \A m, n \in A : m < n => rank(m) < rank(n)
    BY BelowGrows
  <1>4. ASSUME NEW k \in 1..size
        PROVE  \E n \in A : rank(n) = k - 1
    <2>1. Cardinality(Lowest(A, k)) = k /\ Cardinality(Lowest(A, k - 1)) = k - 1
      <3>1. k \in Nat /\ k - 1 \in Nat /\ size >= k /\ size >= k - 1
        BY <1>1
      <3> QED
        BY <3>1, LowestCount
    <2>2. Lowest(A, k - 1) \subseteq Lowest(A, k)
      <3>1. \A n \in A : rank(n) < k - 1 => rank(n) < k
        BY <1>1, <1>2
      <3> QED
        BY <3>1 DEF Lowest
    <2>3. PICK n \in Lowest(A, k) : n \notin Lowest(A, k - 1)
      BY <2>1, <2>2
    <2>4. n \in A /\ rank(n) < k /\ ~(rank(n) < k - 1)
      BY <2>3 DEF Lowest
    <2>5. rank(n) \in Int /\ k \in Int
      BY <1>1, <1>2, <2>4
    <2> HIDE DEF rank
    <2> QED
      BY <2>4, <2>5
  <1> HIDE DEF size
  <1>5. ASSUME NEW k \in 1..size
        PROVE  InOrder(A)[k] \in A /\ rank(InOrder(A)[k]) = k - 1
    <2>1. InOrder(A)[k] = CHOOSE n \in A : rank(n) = k - 1
      BY DEF InOrder, size
    <2> HIDE DEF rank
    <2> QED
      BY <1>4, <2>1, Zenon
  <1>6. InOrder(A) \in [1..size -> A]
    BY <1>5 DEF InOrder, size
  <1>7. ASSUME NEW k \in 1..size, NEW l \in 1..size, k < l
        PROVE  InOrder(A)[k] < InOrder(A)[l]
    <2> DEFINE m == InOrder(A)[k]
               n == InOrder(A)[l]
    <2>1. m \in A /\ n \in A /\ rank(m) = k - 1 /\ rank(n) = l - 1
      BY <1>5
    <2>2. m \in Nat /\ n \in Nat /\ (n < m => rank(n) < rank(m))
      BY <1>3, <2>1
    <2> HIDE DEF m, n, rank
    <2>3. m # n /\ ~(n < m)
      BY <1>1, <1>7, <2>1, <2>2
    <2>4. m < n
      BY <2>2, <2>3
    <2> QED
      BY <2>4 DEF m, n
  <1>8. ASSUME NEW n \in A
        PROVE  \E k \in 1..size : InOrder(A)[k] = n
    <2>1. PICK k : k = rank(n) + 1
      OBVIOUS
    <2>2. k \in 1..size /\ rank(n) = k - 1
      BY <1>1, <1>2, <2>1
    <2>3. InOrder(A)[k] \in A /\ rank(InOrder(A)[k]) = rank(n)
      BY <1>5, <2>2
    <2>4. PICK m : m = InOrder(A)[k]
      OBVIOUS
    <2>5. m \in Nat /\ n \in Nat /\ rank(m) = rank(n)
      <3>1. m \in A
        BY <2>3, <2>4
      <3>2. rank(m) = rank(n)
        BY <2>3, <2>4, Zenon
      <3> QED
        BY <3>1, <3>2
    <2>6. (m < n => rank(m) < rank(n)) /\ (n < m => rank(n) < rank(m))
      BY <1>3, <2>3, <2>4
    <2>7. rank(n) \in Int
      BY <1>2
    <2> HIDE DEF rank
    <2>8. m = n
      BY <2>5, <2>6, <2>7
    <2> QED
      BY <2>2, <2>4, <2>8
  <1> QED
    BY <1>1, <1>6, <1>7, <1>8 DEF size


-----------------------------------------------------------------------------
(* Small sets, finite sets of naturals, and iteration.                       *)

LEMMA AtMostOne ==
    ASSUME NEW S, IsFiniteSet(S)
    PROVE  Cardinality(S) <= 1 <=> \A x, y \in S : x = y
  <1>1. ASSUME NEW x \in S, NEW y \in S, x # y
        PROVE  Cardinality(S) >= 2
    <2>1. IsFiniteSet({x}) /\ Cardinality({x}) = 1
      BY FS_Singleton
    <2>2. Cardinality({x} \cup {y}) = 2
      BY <1>1, <2>1, FS_AddElement
    <2>3. {x} \cup {y} \subseteq S
      OBVIOUS
    <2>4. Cardinality({x} \cup {y}) <= Cardinality(S)
      BY <2>3, FS_Subset
    <2> QED
      BY <2>2, <2>4
  <1>2. ASSUME \A x, y \in S : x = y
        PROVE  Cardinality(S) <= 1
    <2>1. CASE S = {}
      BY <2>1, FS_EmptySet
    <2>2. CASE S # {}
      <3>1. PICK x \in S : S = {x}
        BY <1>2, <2>2
      <3> QED
        BY <3>1, FS_Singleton
    <2> QED
      BY <2>1, <2>2
  <1>3. Cardinality(S) \in Nat
    BY FS_CardinalityType
  <1> QED
    BY <1>1, <1>2, <1>3

LEMMA ExactlyOne ==
    ASSUME NEW S, IsFiniteSet(S)
    PROVE  Cardinality(S) = 1 <=> \E x \in S : S = {x}
  <1>1. Cardinality(S) \in Nat /\ (Cardinality(S) = 0 <=> S = {})
    BY FS_CardinalityType, FS_EmptySet
  <1>2. ASSUME Cardinality(S) = 1
        PROVE  \E x \in S : S = {x}
    <2>1. S # {} /\ \A x, y \in S : x = y
      BY <1>1, <1>2, AtMostOne
    <2> QED
      BY <2>1
  <1>3. ASSUME NEW x \in S, S = {x}
        PROVE  Cardinality(S) = 1
    BY <1>3, FS_Singleton
  <1> QED
    BY <1>2, <1>3

\* A finite set of naturals has an upper bound.
LEMMA FiniteIsBounded ==
    ASSUME NEW S \in SUBSET Nat, IsFiniteSet(S)
    PROVE  \E b \in Nat : \A x \in S : x <= b
  <1>0. PICK n \in Nat : ExistsSurjection(1..n, S)
    BY FS_NatSurjection
  <1>1. PICK f \in [1..n -> S] : \A x \in S : \E i \in 1..n : f[i] = x
    BY <1>0 DEF ExistsSurjection, Surjection
  <1> DEFINE T == {k \in 0..n : \E b \in Nat : \A i \in 1..k : f[i] <= b}
  <1>2. 0 \in T
    BY <1>1
  <1>3. ASSUME NEW k \in 0..(n - 1), k \in T
        PROVE  k + 1 \in T
    <2>1. PICK b \in Nat : \A i \in 1..k : f[i] <= b
      BY <1>3
    <2>2. f[k + 1] \in Nat /\ k + 1 \in 0..n
      <3>1. k + 1 \in 1..n
        OBVIOUS
      <3>2. f[k + 1] \in S
        BY <3>1
      <3>3. f[k + 1] \in Nat
        BY <3>2
      <3>4. k + 1 \in 0..n
        BY <3>1
      <3> QED
        BY <3>3, <3>4
    <2>3. \A i \in 1..(k + 1) : i \in 1..k \/ i = k + 1
      OBVIOUS
    <2>4. \A i \in 1..k : f[i] \in Nat
      <3>1. \A i \in 1..k : i \in 1..n
        OBVIOUS
      <3>2. \A i \in 1..n : f[i] \in S
        OBVIOUS
      <3> QED
        BY <3>1, <3>2
    <2>5. \A i \in 1..(k + 1) : f[i] <= b + f[k + 1]
      BY <2>1, <2>2, <2>3, <2>4
    <2>6. b + f[k + 1] \in Nat
      BY <2>2
    <2> QED
      BY <2>2, <2>5, <2>6
  <1> HIDE DEF T
  <1>4. n \in T
    <2>1. 0..n \subseteq T
      BY <1>2, <1>3, UpTo
    <2> QED
      BY <2>1
  <1>5. PICK b \in Nat : \A i \in 1..n : f[i] <= b
    BY <1>4 DEF T
  <1> QED
    BY <1>1, <1>5

\* f starts with x and takes n steps of step.
Iterates(step, x, n, f) ==
    f[0] = x /\ \A k \in 1..n : f[k] = step[f[k - 1]]

\* A function from a set to itself can be iterated.
LEMMA Iterated ==
    ASSUME NEW U, NEW x \in U, NEW step \in [U -> U], NEW n \in Nat
    PROVE  \E f \in [0..n -> U] : Iterates(step, x, n, f)
  <1> DEFINE T == {m \in 0..n : \E f \in [0..m -> U] : Iterates(step, x, m, f)}
  <1>1. 0 \in T
    <2>1. [k \in 0..0 |-> x] \in [0..0 -> U] /\ Iterates(step, x, 0, [k \in 0..0 |-> x])
      BY DEF Iterates
    <2> QED
      BY <2>1
  <1>2. ASSUME NEW m \in 0..(n - 1), m \in T
        PROVE  m + 1 \in T
    <2>1. PICK f \in [0..m -> U] : Iterates(step, x, m, f)
      BY <1>2
    <2> DEFINE g == [k \in 0..(m + 1) |-> IF k \in 0..m THEN f[k] ELSE step[f[m]]]
    <2>2. m \in 0..m /\ f[m] \in U /\ m + 1 \in 0..n
      OBVIOUS
    <2>3. g \in [0..(m + 1) -> U]
      BY <2>2
    <2>4. \A k \in 0..m : g[k] = f[k]
      OBVIOUS
    <2>5. g[m + 1] = step[g[m]]
      BY <2>2
    <2> HIDE DEF g
    <2>6. ASSUME NEW k \in 1..(m + 1)
          PROVE  g[k] = step[g[k - 1]]
      <3>1. CASE k = m + 1
        BY <2>5, <3>1
      <3>2. CASE k # m + 1
        <4>1. k \in 1..m /\ k \in 0..m /\ k - 1 \in 0..m
          BY <3>2
        <4>2. f[k] = step[f[k - 1]]
          BY <2>1, <4>1 DEF Iterates
        <4> QED
          BY <2>4, <4>1, <4>2
      <3> QED
        BY <3>1, <3>2
    <2>7. g[0] = x
      BY <2>1, <2>4 DEF Iterates
    <2>8. Iterates(step, x, m + 1, g)
      BY <2>6, <2>7 DEF Iterates
    <2> QED
      BY <2>2, <2>3, <2>8
  <1> HIDE DEF T
  <1>3. n \in T
    BY <1>1, <1>2, UpTo
  <1> QED
    BY <1>3 DEF T
===================================================================================
