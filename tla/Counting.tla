------------------------------- MODULE Counting -------------------------------
(***************************************************************************)
(* Facts about naturals and finite sets that the proofs about ranks,       *)
(* nodes and devices share: least and largest elements, division, and      *)
(* counting by a function.                                                 *)
(***************************************************************************)
EXTENDS FiniteSetTheorems, TLAPS

(* "<" is well founded on the naturals, as a set of pairs. *)
LEMMA LessIsWellFounded ==
  IsWellFoundedOn({p \in Nat \X Nat : p[1] < p[2]}, Nat)
<1>1. OpToRel(<, Nat) = {p \in Nat \X Nat : p[1] < p[2]}
  BY Zenon DEF OpToRel
<1>2. QED
  BY <1>1, NatLessThanWellFounded, Zenon

(* A nonempty set of naturals has a least element. *)
LEMMA LeastElement ==
  ASSUME NEW S \in SUBSET Nat, S # {}
  PROVE  \E m \in S : \A k \in S : m <= k
<1> DEFINE Less == {p \in Nat \X Nat : p[1] < p[2]}
<1>1. PICK m \in S : \A k \in S : <<k, m>> \notin Less
  <2>1. IsWellFoundedOn(Less, Nat)
    BY LessIsWellFounded
  <2> HIDE DEF Less
  <2>2. QED
    BY <2>1, WFMin, Zenon
<1>2. ASSUME NEW k \in S PROVE m <= k
  <2>1. k < m => <<k, m>> \in Less
    OBVIOUS
  <2>2. QED
    BY <1>1, <2>1
<1>3. QED
  BY <1>2

(* A nonempty set of naturals below a bound has a largest element. *)
LEMMA LargestElement ==
  ASSUME NEW n \in Nat, NEW S \in SUBSET (0 .. n), S # {}
  PROVE  \E m \in S : \A k \in S : k <= m
<1> DEFINE T == {n - k : k \in S}
<1>1. T \in SUBSET Nat /\ T # {}
  OBVIOUS
<1>2. PICK t \in T : \A u \in T : t <= u
  <2> HIDE DEF T
  <2>1. QED
    BY <1>1, LeastElement
<1>3. PICK m \in S : t = n - m
  BY <1>2
<1>4. ASSUME NEW k \in S PROVE k <= m
  <2>1. n - m <= n - k
    BY <1>2, <1>3
  <2>2. QED
    BY <2>1
<1>5. QED
  BY <1>4

(* Division of a product plus a remainder. *)
LEMMA DivMod ==
  ASSUME NEW k \in Nat \ {0}, NEW a \in Nat, NEW b \in 0 .. (k - 1)
  PROVE  (a * k + b) \div k = a /\ (a * k + b) % k = b
OBVIOUS

(* A set counted by a function that is one-to-one on another. *)
LEMMA SameCount ==
  ASSUME NEW S, NEW T, IsFiniteSet(S), NEW f \in Bijection(S, T)
  PROVE  IsFiniteSet(T) /\ Cardinality(T) = Cardinality(S)
BY FS_Bijection DEF ExistsBijection

(* The first m naturals. *)
LEMMA FirstNaturals ==
  ASSUME NEW m \in Nat
  PROVE  IsFiniteSet(0 .. (m - 1)) /\ Cardinality(0 .. (m - 1)) = m
BY FS_Interval

(* A strictly increasing enumeration of 0 .. n is the identity. *)
LEMMA IncreasingIsIdentity ==
  ASSUME NEW n \in Nat, NEW f \in [0 .. n -> 0 .. n],
         \A i, j \in 0 .. n : i < j => f[i] < f[j]
  PROVE  \A i \in 0 .. n : f[i] = i
<1>1. f \in Surjection(0 .. n, 0 .. n)
  <2>1. \A i, j \in 0 .. n : f[i] = f[j] => i = j
    <3>1. ASSUME NEW i \in 0 .. n, NEW j \in 0 .. n, f[i] = f[j], i # j
          PROVE  FALSE
      <4>1. i < j \/ j < i
        BY <3>1
      <4>2. f[i] < f[j] \/ f[j] < f[i]
        BY <4>1
      <4>3. QED
        BY <3>1, <4>2
    <3>2. QED
      BY <3>1
  <2>2. f \in Injection(0 .. n, 0 .. n)
    BY <2>1 DEF Injection, IsInjective
  <2>3. QED
    BY <2>2, FS_Interval, FS_Injection
<1> DEFINE moved == {i \in 0 .. n : f[i] # i}
<1>2. SUFFICES ASSUME moved # {} PROVE FALSE
  OBVIOUS
<1>3. moved \in SUBSET Nat
  OBVIOUS
<1>4. PICK m \in moved : \A k \in moved : m <= k
  <2> HIDE DEF moved
  <2>1. QED
    BY <1>2, <1>3, LeastElement
<1>5. \A k \in 0 .. n : k < m => f[k] = k
  BY <1>4
<1>6. m \in 0 .. n /\ f[m] \in 0 .. n /\ f[m] # m
  BY <1>4
<1>7. CASE f[m] < m
  <2>1. f[f[m]] = f[m]
    BY <1>5, <1>6, <1>7
  <2>2. f[f[m]] < f[m]
    BY <1>6, <1>7
  <2>3. QED
    BY <1>6, <2>1, <2>2
<1>8. CASE m < f[m]
  <2>1. PICK q \in 0 .. n : f[q] = m
    BY <1>1, <1>6 DEF Surjection
  <2>2. q < m \/ q = m \/ m < q
    BY <1>6
  <2>3. m < q => f[m] < f[q]
    BY <1>6
  <2>4. QED
    BY <1>5, <1>6, <1>8, <2>1, <2>2, <2>3
<1>9. QED
  BY <1>6, <1>7, <1>8

(* In a strict total order on a finite set, given by its pairs, the number of
   smaller elements enumerates the set from zero. *)
LEMMA RankInOrder ==
  ASSUME NEW S, IsFiniteSet(S), NEW R,
         \A x, y \in S : x # y => <<x, y>> \in R \/ <<y, x>> \in R,
         \A x \in S : <<x, x>> \notin R,
         \A x, y, z \in S : <<x, y>> \in R /\ <<y, z>> \in R => <<x, z>> \in R,
         NEW rank, rank = [x \in S |-> Cardinality({y \in S : <<y, x>> \in R})]
  PROVE  /\ rank \in Bijection(S, 0 .. (Cardinality(S) - 1))
         /\ \A x, y \in S : <<x, y>> \in R <=> rank[x] < rank[y]
<1> DEFINE smaller(x) == {y \in S : <<y, x>> \in R}
           n == Cardinality(S)
<1>1. n \in Nat
  BY FS_CardinalityType
<1>2. ASSUME NEW x \in S
      PROVE  /\ rank[x] = Cardinality(smaller(x)) /\ IsFiniteSet(smaller(x))
             /\ rank[x] \in 0 .. (n - 1) /\ rank[x] \in Nat
  <2>1. smaller(x) \in SUBSET (S \ {x}) /\ rank[x] = Cardinality(smaller(x))
    OBVIOUS
  <2>2. IsFiniteSet(S \ {x}) /\ Cardinality(S \ {x}) = n - 1
    BY FS_RemoveElement
  <2> HIDE DEF smaller, n
  <2>3. IsFiniteSet(smaller(x)) /\ Cardinality(smaller(x)) <= n - 1
    BY <2>1, <2>2, FS_Subset
  <2>4. Cardinality(smaller(x)) \in Nat
    BY <2>3, FS_CardinalityType
  <2>5. QED
    BY <1>1, <2>1, <2>3, <2>4
<1>3. ASSUME NEW x \in S, NEW y \in S, <<x, y>> \in R
      PROVE  rank[x] < rank[y]
  <2>1. smaller(x) \in SUBSET smaller(y) /\ x \in smaller(y) /\ x \notin smaller(x)
    BY <1>3
  <2>2. smaller(x) # smaller(y)
    BY <2>1
  <2>3. rank[x] = Cardinality(smaller(x)) /\ rank[y] = Cardinality(smaller(y))
        /\ IsFiniteSet(smaller(y)) /\ rank[x] \in Nat /\ rank[y] \in Nat
    BY <1>2
  <2> HIDE DEF smaller
  <2>4. Cardinality(smaller(x)) <= Cardinality(smaller(y))
        /\ Cardinality(smaller(x)) # Cardinality(smaller(y))
    BY <2>1, <2>2, <2>3, FS_Subset
  <2>5. QED
    BY <2>3, <2>4
<1> HIDE DEF smaller, n
<1>4. \A x, y \in S : <<x, y>> \in R <=> rank[x] < rank[y]
  <2> SUFFICES ASSUME NEW x \in S, NEW y \in S, rank[x] < rank[y]
               PROVE  <<x, y>> \in R
    BY <1>3
  <2>1. rank[x] \in Nat /\ rank[y] \in Nat
    BY <1>2
  <2>2. x # y
    BY <2>1
  <2>3. <<y, x>> \in R => rank[y] < rank[x]
    BY <1>3
  <2>4. QED
    BY <2>1, <2>2, <2>3
<1>5. \A x, y \in S : rank[x] = rank[y] => x = y
  <2> SUFFICES ASSUME NEW x \in S, NEW y \in S, x # y
               PROVE  rank[x] # rank[y]
    OBVIOUS
  <2>1. rank[x] \in Nat /\ rank[y] \in Nat /\ (rank[x] < rank[y] \/ rank[y] < rank[x])
    BY <1>2, <1>3
  <2>2. QED
    BY <2>1
<1>6. rank \in Injection(S, 0 .. (n - 1))
  BY <1>2, <1>5 DEF Injection, IsInjective
<1>7. IsFiniteSet(0 .. (n - 1)) /\ Cardinality(0 .. (n - 1)) = n
  BY <1>1, FirstNaturals
<1>8. rank \in Surjection(S, 0 .. (n - 1))
  BY <1>6, <1>7, FS_Injection DEF n
<1>9. QED
  BY <1>4, <1>6, <1>8 DEF Bijection, n

(* A number divided by one that is not larger. *)
LEMMA DivPositive ==
  ASSUME NEW a \in Nat, NEW b \in Nat \ {0}
  PROVE  /\ a \div b \in Nat /\ a % b \in 0 .. (b - 1)
         /\ a = (a \div b) * b + (a % b)
         /\ a >= b => a \div b >= 1
<1>1. a % b \in 0 .. (b - 1)
  OBVIOUS
<1>2. a \div b \in Nat
  OBVIOUS
<1>3. a = (a \div b) * b + (a % b)
  OBVIOUS
<1>4. a >= b => a \div b >= 1
  <2>1. CASE a \div b = 0
    BY <1>1, <1>3, <2>1
  <2>2. CASE a \div b # 0
    BY <1>2, <2>2
  <2>3. QED
    BY <2>1, <2>2
<1>5. QED
  BY <1>1, <1>2, <1>3, <1>4
=============================================================================
