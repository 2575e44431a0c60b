----------------------------- MODULE NumberFacts -----------------------------
(***************************************************************************)
(* What the proofs need of finite sets of numbers, and of functions whose    *)
(* values follow from one number to the next.                                *)
(***************************************************************************)
EXTENDS Integers, FiniteSetTheorems, TLAPS

\* A set of integers that is finite and not empty has a greatest member: else every member
\* had one more above it, and counting those would put the set into a smaller one.
LEMMA GreatestExists ==
    ASSUME NEW S, S \subseteq Int, IsFiniteSet(S), S # {}
    PROVE  \E x \in S : \A y \in S : y <= x
  <1> SUFFICES ASSUME \A x \in S : \E y \in S : x < y  PROVE FALSE
    OBVIOUS
  <1> DEFINE Above(x) == {y \in S : x < y}
             n == Cardinality(S)
             count == [x \in S |-> Cardinality(Above(x))]
  <1>1. n \in Nat
    BY FS_CardinalityType
  <1>2. ASSUME NEW x \in S  PROVE IsFiniteSet(Above(x)) /\ count[x] \in 1..(n - 1)
    <2>1. Above(x) \in SUBSET S /\ x \notin Above(x) /\ Above(x) # {}
      OBVIOUS
    <2> DEFINE A == Above(x)
    <2> HIDE DEF Above
    <2>2. IsFiniteSet(A) /\ Cardinality(A) <= n /\ Cardinality(A) # n
      BY <2>1, FS_Subset
    <2>3. Cardinality(A) \in Nat /\ Cardinality(A) # 0
      BY <2>1, <2>2, FS_CardinalityType, FS_EmptySet
    <2> QED  BY <1>1, <2>2, <2>3
  <1>3. ASSUME NEW x \in S, NEW y \in S, x < y  PROVE count[x] # count[y]
    <2>1. y \in Above(x) /\ y \notin Above(y)
      BY <1>3
    <2>2. \A z \in S : y < z => x < z
      <3> SUFFICES ASSUME NEW z \in S, y < z  PROVE x < z
        OBVIOUS
      <3>1. x \in Int /\ y \in Int /\ z \in Int
        OBVIOUS
      <3> QED  BY <1>3, <3>1
    <2>a. Above(y) \in SUBSET Above(x)
      BY <2>2
    <2>3. IsFiniteSet(Above(x))
      BY <1>2
    <2> HIDE DEF Above
    <2>4. Cardinality(Above(x)) # Cardinality(Above(y))
      BY <2>1, <2>a, <2>3, FS_Subset
    <2> QED  BY <2>4
  <1>4. IsFiniteSet(1..(n - 1)) /\ Cardinality(1..(n - 1)) < n
    <2>1. n # 0
      BY FS_EmptySet
    <2>2. n - 1 \in Int /\ 1 \in Int /\ n \in Nat
      BY <1>1
    <2> HIDE DEF n
    <2>3. IsFiniteSet(1..(n - 1))
             /\ Cardinality(1..(n - 1)) = IF 1 > n - 1 THEN 0 ELSE (n - 1) - 1 + 1
      BY <2>2, FS_Interval
    <2> QED  BY <2>1, <2>2, <2>3
  <1>5. count \in [S -> 1..(n - 1)]
    BY <1>2
  <1> HIDE DEF count, n
  <1>6. PICK x, y \in S : x # y /\ count[x] = count[y]
    BY <1>4, <1>5, FS_PigeonHole DEF n
  <1> QED  BY <1>3, <1>6

-----------------------------------------------------------------------------
\* How many of a set of places are not after this one.
Rank(places, i) == Cardinality({j \in places : j <= i})

\* Each place has a rank of its own, so every rank up to their number is that of one place.
LEMMA RanksAreTaken ==
    ASSUME NEW places, IsFiniteSet(places), places \subseteq Nat
    PROVE  /\ Cardinality(places) \in Nat
           /\ \A k \in 1..Cardinality(places) : \E i \in places : Rank(places, i) = k
  <1> DEFINE n == Cardinality(places)
             rank == [i \in places |-> Rank(places, i)]
             Upto(i) == {j \in places : j <= i}
  <1>1. n \in Nat
    BY FS_CardinalityType
  <1>2. ASSUME NEW i \in places  PROVE IsFiniteSet(Upto(i)) /\ Rank(places, i) \in 1..n
    <2>1. Upto(i) \in SUBSET places /\ Upto(i) # {}
      OBVIOUS
    <2> DEFINE U == Upto(i)
    <2>2. Rank(places, i) = Cardinality(U)
      BY DEF Rank
    <2> HIDE DEF Upto, U
    <2>3. IsFiniteSet(U) /\ Cardinality(U) <= n
      BY <2>1, FS_Subset DEF U
    <2>4. Cardinality(U) \in Nat /\ Cardinality(U) # 0
      BY <2>1, <2>3, FS_CardinalityType, FS_EmptySet DEF U
    <2> QED  BY <1>1, <2>2, <2>3, <2>4 DEF U
  <1>3. ASSUME NEW i \in places, NEW j \in places, i < j  PROVE rank[i] # rank[j]
    <2>1. i \in Nat /\ j \in Nat
      OBVIOUS
    <2>2. Upto(i) \in SUBSET Upto(j)
      <3> SUFFICES ASSUME NEW k \in places, k <= i  PROVE k <= j
        OBVIOUS
      <3>1. k \in Nat
        OBVIOUS
      <3> QED  BY <1>3, <2>1, <3>1
    <2>3. j \in Upto(j) /\ j \notin Upto(i)
      BY <1>3, <2>1
    <2>4. rank[i] = Cardinality(Upto(i)) /\ rank[j] = Cardinality(Upto(j))
      BY DEF Rank
    <2>5. IsFiniteSet(Upto(j))
      BY <1>2
    <2> HIDE DEF Upto, rank
    <2>6. Upto(i) # Upto(j)
      BY <2>3
    <2>7. Cardinality(Upto(i)) # Cardinality(Upto(j))
      BY <2>2, <2>5, <2>6, FS_Subset
    <2> QED  BY <2>4, <2>7
  <1>4. rank \in Injection(places, 1..n)
    <2>1. rank \in [places -> 1..n]
      BY <1>2
    <2>2. ASSUME NEW i \in places, NEW j \in places, rank[i] = rank[j]  PROVE i = j
      <3>1. i \in Nat /\ j \in Nat
        OBVIOUS
      <3>2. ~(i < j) /\ ~(j < i)
        BY <1>3, <2>2
      <3> QED  BY <3>1, <3>2
    <2> HIDE DEF rank
    <2> QED  BY <2>1, <2>2 DEF Injection, IsInjective
  <1>5. IsFiniteSet(1..n) /\ Cardinality(1..n) = n
    <2>1. n \in Int /\ 1 \in Int
      BY <1>1
    <2> HIDE DEF n
    <2>2. IsFiniteSet(1..n) /\ Cardinality(1..n) = IF 1 > n THEN 0 ELSE n - 1 + 1
      BY <2>1, FS_Interval
    <2> QED  BY <1>1, <2>2 DEF n
  <1>6. rank \in Surjection(places, 1..n)
    <2> HIDE DEF rank
    <2> QED  BY <1>4, <1>5, FS_Injection
  <1>7. ASSUME NEW k \in 1..n  PROVE \E i \in places : Rank(places, i) = k
    <2>1. PICK i \in places : rank[i] = k
      <3> HIDE DEF rank
      <3> QED  BY <1>6 DEF Surjection
    <2> QED  BY <2>1
  <1> QED  BY <1>1, <1>7

\* What holds of 0 and of every next number up to n holds of all of them: else the numbers
\* below the first that fails have a greatest one.
LEMMA UpTo ==
    ASSUME NEW n \in Nat, NEW G \in SUBSET (0..n), 0 \in G,
           \A i \in 1..n : i - 1 \in G => i \in G
    PROVE  G = 0..n
  <1> SUFFICES ASSUME NEW k \in 0..n, k \notin G  PROVE FALSE
    OBVIOUS
  <1> DEFINE Below == {i \in G : i <= k}
  <1>1. Below \in SUBSET (0..n) /\ Below # {} /\ Below \subseteq Int
    <2>1. 0 \in Below /\ \A i \in Below : i \in 0..n
      OBVIOUS
    <2>2. \A i \in 0..n : i \in Int
      OBVIOUS
    <2> HIDE DEF Below
    <2> QED  BY <2>1, <2>2
  <1>2. IsFiniteSet(Below)
    <2>1. IsFiniteSet(0..n)
      BY FS_Interval
    <2> HIDE DEF Below
    <2> QED  BY <1>1, <2>1, FS_Subset
  <1>3. PICK g \in Below : \A i \in Below : i <= g
    <2> HIDE DEF Below
    <2> QED  BY <1>1, <1>2, GreatestExists
  <1>4. g \in Nat /\ g <= n /\ g \in G /\ g < k
    OBVIOUS
  <1>5. g + 1 \in 1..n /\ (g + 1) - 1 \in G
    BY <1>4
  <1>6. g + 1 \in G
    BY <1>5
  <1>7. g + 1 \in Below
    BY <1>4, <1>6
  <1> QED  BY <1>3, <1>4, <1>7

\* f takes its values up to n one after the other, from the one before.
Stepwise(f, n, base, step) == f[0] = base /\ \A i \in 1..n : f[i] = step[i][f[i - 1]]

\* A function that is defined by what comes before exists, up to any number, and takes its
\* values where each step leads.
LEMMA RecursionExists ==
    ASSUME NEW n \in Nat, NEW S, NEW base \in S, NEW step \in [1..n -> [S -> S]]
    PROVE  \E f \in [0..n -> S] : Stepwise(f, n, base, step)
  <1> DEFINE Is(f, k) == Stepwise(f, k, base, step)
             G == {k \in 0..n : \E f \in [0..k -> S] : Is(f, k)}
  <1>1. 0 \in G
    <2>1. [i \in 0..0 |-> base] \in [0..0 -> S] /\ Is([i \in 0..0 |-> base], 0)
      BY DEF Stepwise
    <2>2. 0 \in 0..n
      OBVIOUS
    <2> HIDE DEF Is
    <2> QED  BY <2>1, <2>2
  <1>2. ASSUME NEW k \in 1..n, k - 1 \in G  PROVE k \in G
    <2>1. PICK f \in [0..(k - 1) -> S] : Is(f, k - 1)
      BY <1>2
    <2> DEFINE g == [i \in 0..k |-> IF i = k THEN step[k][f[k - 1]] ELSE f[i]]
    <2>2. k - 1 \in 0..(k - 1) /\ f[k - 1] \in S
      OBVIOUS
    <2>3. step[k][f[k - 1]] \in S
      BY <2>2
    <2>4. \A i \in 0..k : i # k => i \in 0..(k - 1)
      OBVIOUS
    <2>5. g \in [0..k -> S]
      BY <2>3, <2>4
    <2>6. g[0] = base
      BY <2>1 DEF Stepwise
    <2>7. ASSUME NEW i \in 1..k  PROVE g[i] = step[i][g[i - 1]]
      <3>1. i - 1 \in 0..k /\ i - 1 # k /\ i \in 0..k /\ g[i - 1] = f[i - 1]
        OBVIOUS
      <3>2. CASE i = k
        BY <3>1, <3>2
      <3>3. CASE i # k
        <4>1. i \in 1..(k - 1) /\ g[i] = f[i]
          BY <3>1, <3>3
        <4> QED  BY <2>1, <3>1, <4>1 DEF Stepwise
      <3> QED  BY <3>2, <3>3
    <2> HIDE DEF g
    <2>8. Is(g, k)
      BY <2>6, <2>7 DEF Stepwise
    <2> QED  BY <2>5, <2>8
  <1>3. G = 0..n
    <2>1. G \in SUBSET (0..n) /\ \A i \in 1..n : i - 1 \in G => i \in G
      BY <1>2
    <2> HIDE DEF G
    <2> QED  BY <1>1, <2>1, UpTo
  <1> QED  BY <1>3

\* So has every function that satisfies the equation its values there.
LEMMA RecursionStays ==
    ASSUME NEW n \in Nat, NEW S, NEW f, f[0] \in S,
           \A i \in 1..n : f[i - 1] \in S => f[i] \in S
    PROVE  \A i \in 0..n : f[i] \in S
  <1> DEFINE G == {i \in 0..n : f[i] \in S}
  <1>1. G \in SUBSET (0..n) /\ 0 \in G /\ \A i \in 1..n : i - 1 \in G => i \in G
    OBVIOUS
  <1> HIDE DEF G
  <1>2. G = 0..n
    BY <1>1, UpTo
  <1> QED  BY <1>2 DEF G
=============================================================================
