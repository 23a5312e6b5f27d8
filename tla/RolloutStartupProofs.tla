------------------------- MODULE RolloutStartupProofs -------------------------
(***************************************************************************)
(* Proofs about RolloutStartup for any set of configurations: any pool and *)
(* replica sizes the gate accepts, any arrangement of the native replicas  *)
(* on the nodes and any order of their worker groups.                      *)
(***************************************************************************)
EXTENDS RolloutStartup, ClaimChecksProofs, SequenceTheorems

-----------------------------------------------------------------------------
(* Claim lists in order of appearance of their nodes *)

First(list, node) == CHOOSE j \in On(list, node) : \A k \in On(list, node) : j <= k

(* The first claim on a node is on it, and before all others on it. *)
LEMMA FirstOnNode ==
  ASSUME NEW n \in Nat, NEW list, DOMAIN list = 0 .. n, NEW node \in NodesOf(list)
  PROVE  /\ First(list, node) \in 0 .. n
         /\ list[First(list, node)].node = node
         /\ \A k \in 0 .. n : list[k].node = node => First(list, node) <= k
<1>1. On(list, node) \in SUBSET Nat /\ On(list, node) # {}
  BY DEF On, NodesOf
<1>2. \E j \in On(list, node) : \A k \in On(list, node) : j <= k
  BY <1>1, LeastElement
<1>3. First(list, node) \in On(list, node) /\ \A k \in On(list, node) : First(list, node) <= k
  BY <1>2 DEF First
<1>4. QED
  BY <1>3 DEF On

(* A list of n + 1 claims names between one node and n + 1, each of them by
   a claim. *)
LEMMA NodesFinite ==
  ASSUME NEW n \in Nat, NEW list, DOMAIN list = 0 .. n
  PROVE  /\ IsFiniteSet(NodesOf(list)) /\ Cardinality(NodesOf(list)) \in 1 .. (n + 1)
         /\ \A i \in 0 .. n : list[i].node \in NodesOf(list)
         /\ \A m \in NodesOf(list) : \E i \in 0 .. n : list[i].node = m
<1> DEFINE nodes == [i \in 0 .. n |-> list[i].node]
<1>1. nodes \in Surjection(0 .. n, NodesOf(list))
  BY DEF Surjection, NodesOf
<1> HIDE DEF nodes
<1>2. IsFiniteSet(0 .. n) /\ Cardinality(0 .. n) = n + 1
  BY FS_Interval
<1>3. /\ IsFiniteSet(NodesOf(list)) /\ Cardinality(NodesOf(list)) \in Nat
      /\ Cardinality(NodesOf(list)) <= n + 1
  BY <1>1, <1>2, FS_Surjection, FS_CardinalityType
<1>4. NodesOf(list) # {}
  <2>1. 0 \in DOMAIN list
    OBVIOUS
  <2>2. list[0].node \in NodesOf(list)
    BY <2>1 DEF NodesOf
  <2>3. QED
    BY <2>2
<1>5. Cardinality(NodesOf(list)) # 0
  BY <1>3, <1>4, FS_EmptySet
<1>6. QED
  BY <1>3, <1>5 DEF NodesOf

(* The node order of a claim is the place of its node among the nodes in order
   of their first claims. *)
LEMMA NodeOrders ==
  ASSUME NEW n \in Nat, NEW list, DOMAIN list = 0 .. n
  PROVE  /\ \A i \in 0 .. n : NodeOrder(list, i) \in 0 .. n
         /\ \A i, j \in 0 .. n :
              /\ list[i].node = list[j].node <=> NodeOrder(list, i) = NodeOrder(list, j)
              /\ NodeOrder(list, i) < NodeOrder(list, j)
                   <=> First(list, list[i].node) < First(list, list[j].node)
         /\ {NodeOrder(list, i) : i \in 0 .. n} = 0 .. (Cardinality(NodesOf(list)) - 1)
<1> DEFINE S == NodesOf(list)
           R == {p \in S \X S : First(list, p[1]) < First(list, p[2])}
           rank == [m \in S |-> Cardinality({l \in S : <<l, m>> \in R})]
<1>1. \A l, m \in S : <<l, m>> \in R <=> First(list, l) < First(list, m)
  OBVIOUS
<1>2. /\ \A m \in S : First(list, m) \in Nat
      /\ \A l, m \in S : First(list, l) = First(list, m) => l = m
  BY FirstOnNode
<1>3. /\ \A l, m \in S : l # m => <<l, m>> \in R \/ <<m, l>> \in R
      /\ \A m \in S : <<m, m>> \notin R
      /\ \A k, l, m \in S : <<k, l>> \in R /\ <<l, m>> \in R => <<k, m>> \in R
  <2> HIDE DEF R
  <2>1. \A l, m \in S : l # m => First(list, l) < First(list, m) \/ First(list, m) < First(list, l)
    BY <1>2
  <2>2. \A k, l, m \in S : First(list, k) < First(list, l) /\ First(list, l) < First(list, m)
                             => First(list, k) < First(list, m)
    BY <1>2
  <2>3. \A m \in S : ~ (First(list, m) < First(list, m))
    BY <1>2
  <2>4. QED
    BY <1>1, <2>1, <2>2, <2>3
<1>4. IsFiniteSet(S) /\ Cardinality(S) \in 1 .. (n + 1) /\ \A i \in 0 .. n : list[i].node \in S
  BY NodesFinite
<1>5. /\ rank \in Bijection(S, 0 .. (Cardinality(S) - 1))
      /\ \A l, m \in S : <<l, m>> \in R <=> rank[l] < rank[m]
  <2> HIDE DEF R, S
  <2>1. QED
    BY <1>3, <1>4, RankInOrder
<1>6. ASSUME NEW i \in 0 .. n
      PROVE  NodeOrder(list, i) = rank[list[i].node]
  <2> DEFINE m == list[i].node
             first == First(list, m)
  <2>1. m \in S /\ first \in 0 .. n
    BY <1>4, FirstOnNode
  <2>2. {list[j].node : j \in 0 .. first - 1} = {l \in S : <<l, m>> \in R}
    <3>1. ASSUME NEW j \in 0 .. first - 1
          PROVE  list[j].node \in S /\ First(list, list[j].node) < first
      <4>1. j \in 0 .. n
        BY <2>1
      <4>2. list[j].node \in S /\ First(list, list[j].node) <= j
              /\ First(list, list[j].node) \in Nat
        BY <1>4, <4>1, FirstOnNode
      <4> HIDE DEF first
      <4>3. QED
        BY <2>1, <4>2
    <3>2. ASSUME NEW l \in S, First(list, l) < first
          PROVE  First(list, l) \in 0 .. first - 1 /\ list[First(list, l)].node = l
      BY <2>1, <3>2, FirstOnNode
    <3> HIDE DEF first
    <3>3. QED
      BY <2>1, <3>1, <3>2 DEF first
  <2>3. NodeOrder(list, i) = Cardinality({list[j].node : j \in 0 .. first - 1})
    BY DEF NodeOrder, First
  <2>4. QED
    BY <2>1, <2>2, <2>3
<1> HIDE DEF R, S
<1>7. /\ rank \in [S -> 0 .. (Cardinality(S) - 1)]
      /\ \A l, m \in S : rank[l] = rank[m] => l = m
      /\ \A k \in 0 .. (Cardinality(S) - 1) : \E m \in S : rank[m] = k
  BY <1>5 DEF Bijection, Injection, Surjection, IsInjective
<1> HIDE DEF rank
<1>8. ASSUME NEW i \in 0 .. n
      PROVE  NodeOrder(list, i) \in 0 .. (Cardinality(S) - 1)
  BY <1>4, <1>6, <1>7
<1>9. ASSUME NEW i \in 0 .. n, NEW j \in 0 .. n
      PROVE  /\ list[i].node = list[j].node <=> NodeOrder(list, i) = NodeOrder(list, j)
             /\ NodeOrder(list, i) < NodeOrder(list, j)
                  <=> First(list, list[i].node) < First(list, list[j].node)
  <2> DEFINE l == list[i].node
             m == list[j].node
  <2>1. l \in S /\ m \in S /\ NodeOrder(list, i) = rank[l] /\ NodeOrder(list, j) = rank[m]
    BY <1>4, <1>6
  <2> HIDE DEF l, m
  <2>2. l = m <=> rank[l] = rank[m]
    BY <1>7, <2>1
  <2>3. rank[l] < rank[m] <=> First(list, l) < First(list, m)
    BY <1>1, <1>5, <2>1
  <2>4. QED
    BY <2>1, <2>2, <2>3 DEF l, m
<1>10. ASSUME NEW k \in 0 .. (Cardinality(S) - 1)
       PROVE  \E i \in 0 .. n : NodeOrder(list, i) = k
  <2>1. PICK m \in S : rank[m] = k
    BY <1>7
  <2>2. PICK i \in 0 .. n : list[i].node = m
    BY NodesFinite DEF S
  <2>3. QED
    BY <1>6, <2>1, <2>2
<1>11. {NodeOrder(list, i) : i \in 0 .. n} = 0 .. (Cardinality(S) - 1)
  BY <1>8, <1>10
<1>12. \A i \in 0 .. n : NodeOrder(list, i) \in 0 .. n
  BY <1>4, <1>8
<1>13. QED
  BY <1>9, <1>11, <1>12 DEF S

(* The claims of one node, counted in list order. *)
LEMMA EarlierOrders ==
  ASSUME NEW n \in Nat, NEW list, DOMAIN list = 0 .. n
  PROVE  /\ \A i \in 0 .. n : EarlierOnNode(list, i) \in 0 .. n
         /\ \A m \in NodesOf(list) :
              {EarlierOnNode(list, i) : i \in On(list, m)} = 0 .. (Cardinality(On(list, m)) - 1)
         /\ \A i, j \in 0 .. n : list[i].node = list[j].node /\ i < j
                                   => EarlierOnNode(list, i) < EarlierOnNode(list, j)
<1>1. ASSUME NEW m \in NodesOf(list)
      PROVE  /\ IsFiniteSet(On(list, m)) /\ Cardinality(On(list, m)) \in 0 .. (n + 1)
             /\ {EarlierOnNode(list, i) : i \in On(list, m)} = 0 .. (Cardinality(On(list, m)) - 1)
             /\ \A i, j \in On(list, m) : i < j => EarlierOnNode(list, i) < EarlierOnNode(list, j)
  <2> DEFINE D == 0 .. n
             S == On(list, m)
             R == {p \in S \X S : p[1] < p[2]}
             rank == [i \in S |-> Cardinality({j \in S : <<j, i>> \in R})]
  <2>1. S \in SUBSET D /\ IsFiniteSet(D) /\ Cardinality(D) = n + 1
    BY FS_Interval DEF On
  <2>2. IsFiniteSet(S) /\ Cardinality(S) \in 0 .. (n + 1)
    <3> HIDE DEF S, D
    <3>1. IsFiniteSet(S) /\ Cardinality(S) <= n + 1
      BY <2>1, FS_Subset
    <3>2. Cardinality(S) \in Nat
      BY <3>1, FS_CardinalityType
    <3>3. QED
      BY <3>1, <3>2
  <2>3. \A i, j \in S : <<i, j>> \in R <=> i < j
    OBVIOUS
  <2>4. ASSUME NEW i \in S
        PROVE  EarlierOnNode(list, i) = rank[i]
    <3>1. list[i].node = m
      BY DEF On
    <3>2. {j \in S : j < i} = {j \in S : <<j, i>> \in R}
      BY <2>3
    <3>3. EarlierOnNode(list, i) = Cardinality({j \in S : j < i})
      BY <3>1 DEF EarlierOnNode
    <3> HIDE DEF S, R
    <3>4. QED
      BY <3>2, <3>3
  <2>5. /\ rank \in Bijection(S, 0 .. (Cardinality(S) - 1))
        /\ \A i, j \in S : <<i, j>> \in R <=> rank[i] < rank[j]
    <3>1. /\ \A i, j \in S : i # j => <<i, j>> \in R \/ <<j, i>> \in R
          /\ \A i \in S : <<i, i>> \notin R
          /\ \A i, j, k \in S : <<i, j>> \in R /\ <<j, k>> \in R => <<i, k>> \in R
      <4>1. \A i \in S : i \in Nat
        BY <2>1
      <4> HIDE DEF S, R
      <4>2. QED
        BY <2>3, <4>1
    <3> HIDE DEF S, R
    <3>2. QED
      BY <2>2, <3>1, RankInOrder
  <2> HIDE DEF rank, R
  <2>6. /\ \A i \in S : rank[i] \in 0 .. (Cardinality(S) - 1)
        /\ \A k \in 0 .. (Cardinality(S) - 1) : \E i \in S : rank[i] = k
    BY <2>5 DEF Bijection, Injection, Surjection
  <2>7. {EarlierOnNode(list, i) : i \in S} = 0 .. (Cardinality(S) - 1)
    <3> HIDE DEF S
    <3>1. QED
      BY <2>4, <2>6
  <2>8. \A i, j \in S : i < j => EarlierOnNode(list, i) < EarlierOnNode(list, j)
    <3> SUFFICES ASSUME NEW i \in S, NEW j \in S, i < j
                 PROVE  EarlierOnNode(list, i) < EarlierOnNode(list, j)
      OBVIOUS
    <3>1. <<i, j>> \in R
      BY <2>3
    <3>2. rank[i] < rank[j]
      BY <2>5, <3>1
    <3> HIDE DEF S
    <3>3. QED
      BY <2>4, <3>2
  <2>9. QED
    BY <2>2, <2>7, <2>8
<1>2. ASSUME NEW i \in 0 .. n
      PROVE  list[i].node \in NodesOf(list) /\ i \in On(list, list[i].node)
  BY DEF NodesOf, On
<1>3. ASSUME NEW i \in 0 .. n
      PROVE  EarlierOnNode(list, i) \in 0 .. n
  <2> DEFINE m == list[i].node
             c == Cardinality(On(list, m))
  <2>1. EarlierOnNode(list, i) \in 0 .. (c - 1) /\ c \in 0 .. (n + 1)
    BY <1>1, <1>2
  <2> HIDE DEF c
  <2>2. QED
    BY <2>1
<1>4. ASSUME NEW i \in 0 .. n, NEW j \in 0 .. n, list[i].node = list[j].node, i < j
      PROVE  EarlierOnNode(list, i) < EarlierOnNode(list, j)
  <2>1. list[i].node \in NodesOf(list) /\ i \in On(list, list[i].node) /\ j \in On(list, list[i].node)
    BY <1>2, <1>4
  <2>2. QED
    BY <1>1, <1>4, <2>1
<1>5. QED
  BY <1>1, <1>3, <1>4

-----------------------------------------------------------------------------
(* Sorting the claims of a test request *)

(* Sorting reorders a list, nodes in order of appearance. *)
LEMMA SortedReorders ==
  ASSUME NEW n \in Nat, NEW list, DOMAIN list = 0 .. n,
         \A i \in 0 .. n : list[i].local_rank \in Nat
  PROVE  \E order :
           /\ Reordered(Sorted(list), list, order)
           /\ \A r, q \in 0 .. n : r < q =>
                NodeOrder(list, order[r]) <= NodeOrder(list, order[q])
<1> DEFINE D == 0 .. n
           R == {p \in D \X D : Before(list, p[1], p[2])}
           rank == [i \in D |-> Cardinality({j \in D : <<j, i>> \in R})]
<1>1. \A i, j \in D : <<i, j>> \in R <=> Before(list, i, j)
  OBVIOUS
<1>2. IsFiniteSet(D) /\ Cardinality(D) = n + 1 /\ D = 0 .. (Cardinality(D) - 1)
  BY FS_Interval
<1>3. \A i \in D : NodeOrder(list, i) \in Nat /\ list[i].local_rank \in Nat /\ i \in Nat
  BY NodeOrders
<1>4. /\ \A i, j \in D : i # j => Before(list, i, j) \/ Before(list, j, i)
      /\ \A i \in D : ~ Before(list, i, i)
      /\ \A i, j, k \in D : Before(list, i, j) /\ Before(list, j, k) => Before(list, i, k)
      /\ \A i, j \in D : Before(list, i, j) => NodeOrder(list, i) <= NodeOrder(list, j)
  <2>1. \A i, j \in D : i # j => Before(list, i, j) \/ Before(list, j, i)
    BY <1>3 DEF Before
  <2>2. \A i \in D : ~ Before(list, i, i)
    BY <1>3 DEF Before
  <2>3. \A i, j, k \in D : Before(list, i, j) /\ Before(list, j, k) => Before(list, i, k)
    BY <1>3 DEF Before
  <2>4. \A i, j \in D : Before(list, i, j) => NodeOrder(list, i) <= NodeOrder(list, j)
    BY <1>3 DEF Before
  <2>5. QED
    BY <2>1, <2>2, <2>3, <2>4
<1>5. /\ rank \in Bijection(D, D)
      /\ \A i, j \in D : Before(list, i, j) <=> rank[i] < rank[j]
  <2>1. /\ \A i, j \in D : i # j => <<i, j>> \in R \/ <<j, i>> \in R
        /\ \A i \in D : <<i, i>> \notin R
        /\ \A i, j, k \in D : <<i, j>> \in R /\ <<j, k>> \in R => <<i, k>> \in R
    BY <1>1, <1>4
  <2>2. /\ rank \in Bijection(D, 0 .. (Cardinality(D) - 1))
        /\ \A i, j \in D : <<i, j>> \in R <=> rank[i] < rank[j]
    <3> HIDE DEF D, R
    <3>1. QED
      BY <1>2, <2>1, RankInOrder
  <2> HIDE DEF R, rank, D
  <2>3. QED
    BY <1>1, <1>2, <2>2
<1>6. \A i \in D : Position(list, i) = rank[i]
  <2> SUFFICES ASSUME NEW i \in D PROVE Position(list, i) = rank[i]
    OBVIOUS
  <2>1. {j \in D : Before(list, j, i)} = {j \in D : <<j, i>> \in R}
    BY <1>1
  <2>2. Position(list, i) = Cardinality({j \in D : Before(list, j, i)})
    BY DEF Position
  <2> HIDE DEF R
  <2>3. QED
    BY <2>1, <2>2
<1> HIDE DEF rank, R
<1>7. /\ \A i \in D : rank[i] \in D
      /\ \A i, j \in D : rank[i] = rank[j] => i = j
      /\ \A r \in D : \E i \in D : rank[i] = r
  BY <1>5 DEF Bijection, Injection, Surjection, IsInjective
<1> DEFINE order == [r \in D |-> CHOOSE i \in D : Position(list, i) = r]
<1>8. \A r \in D : order[r] \in D /\ rank[order[r]] = r
  <2> SUFFICES ASSUME NEW r \in D PROVE order[r] \in D /\ rank[order[r]] = r
    OBVIOUS
  <2>1. \E i \in D : Position(list, i) = r
    BY <1>6, <1>7
  <2>2. order[r] \in D /\ Position(list, order[r]) = r
    BY <2>1
  <2> HIDE DEF order
  <2>3. QED
    BY <1>6, <2>2
<1>9. DOMAIN Sorted(list) = D /\ \A r \in D : Sorted(list)[r] = list[order[r]]
  BY DEF Sorted
<1>10. order \in [D -> D] /\ DOMAIN order = D
  BY <1>8
<1> HIDE DEF order
<1>11. \A r, q \in D : order[r] = order[q] => r = q
  BY <1>8
<1>12. \A i \in D : order[rank[i]] = i
  <2> SUFFICES ASSUME NEW i \in D PROVE order[rank[i]] = i
    OBVIOUS
  <2>1. rank[i] \in D
    BY <1>7
  <2>2. order[rank[i]] \in D /\ rank[order[rank[i]]] = rank[i]
    BY <1>8, <2>1
  <2>3. QED
    BY <1>7, <2>2
<1>13. order \in Bijection(D, D)
  BY <1>7, <1>10, <1>11, <1>12 DEF Bijection, Injection, Surjection, IsInjective
<1>14. \A r, q \in D : r < q => NodeOrder(list, order[r]) <= NodeOrder(list, order[q])
  BY <1>4, <1>5, <1>8
<1>15. QED
  BY <1>9, <1>13, <1>14 DEF Reordered

(* The fields of a claim of a test request. *)
Fields == {"slot", "named", "node", "device", "local_gpu_index", "node_rank", "local_rank", "rank"}
TestClaims(list, n) ==
  /\ DOMAIN list = 0 .. n
  /\ \A i \in 0 .. n : DOMAIN list[i] = Fields /\ list[i].local_rank \in Nat

(* Two claims that only differ in what reindexing assigns. *)
SamePlace(c, e) ==
  /\ c.slot = e.slot /\ c.named = e.named /\ c.node = e.node /\ c.device = e.device
  /\ c.local_gpu_index = e.local_gpu_index

Reassigned(e, r, a, b) == [e EXCEPT !.rank = r, !.node_rank = a, !.local_rank = b]

(* A reassigned claim keeps its place and has what was assigned. *)
LEMMA ReassignedClaim ==
  ASSUME NEW e, DOMAIN e = Fields, NEW r, NEW a, NEW b
  PROVE  /\ SamePlace(Reassigned(e, r, a, b), e) /\ Reassigned(e, r, a, b).rank = r
         /\ Reassigned(e, r, a, b).node_rank = a /\ Reassigned(e, r, a, b).local_rank = b
BY DEF Fields, SamePlace, Reassigned

(* Reindexing moves the claims, and assigns ranks of the list. *)
LEMMA ReindexMoves ==
  ASSUME NEW n \in Nat, NEW list, TestClaims(list, n)
  PROVE  /\ DOMAIN Reindex(list) = 0 .. n
         /\ \A r \in 0 .. n : /\ Reindex(list)[r].rank = r
                              /\ Reindex(list)[r].node_rank \in 0 .. n
                              /\ Reindex(list)[r].local_rank \in 0 .. n
         /\ \E order \in Bijection(0 .. n, 0 .. n) :
              \A r \in 0 .. n : SamePlace(Reindex(list)[r], list[order[r]])
<1> DEFINE D == 0 .. n
           ordered == Sorted(list)
           new == Reindex(list)
<1>1. PICK order : Reordered(ordered, list, order)
  BY SortedReorders DEF TestClaims
<1>2. /\ DOMAIN list = D /\ DOMAIN ordered = D /\ order \in Bijection(D, D)
      /\ \A r \in D : order[r] \in D /\ ordered[r] = list[order[r]]
      /\ \A r \in D : DOMAIN ordered[r] = Fields
  BY <1>1 DEF Reordered, Bijection, Injection, TestClaims
<1>3. /\ DOMAIN new = D
      /\ \A r \in D : new[r] = Reassigned(ordered[r], r, NodeOrder(ordered, r),
                                         EarlierOnNode(ordered, r))
  BY <1>2 DEF Reindex, Reassigned
<1> HIDE DEF ordered, new
<1>4. ASSUME NEW r \in D
      PROVE  /\ SamePlace(new[r], ordered[r]) /\ new[r].rank = r
             /\ new[r].node_rank = NodeOrder(ordered, r)
             /\ new[r].local_rank = EarlierOnNode(ordered, r)
  <2>1. DOMAIN ordered[r] = Fields
    BY <1>2
  <2>2. QED
    BY <1>3, <2>1, ReassignedClaim DEF SamePlace
<1>5. \A r \in D : NodeOrder(ordered, r) \in D /\ EarlierOnNode(ordered, r) \in D
  BY <1>2, NodeOrders, EarlierOrders
<1>6. \A r \in D : SamePlace(new[r], list[order[r]])
  BY <1>2, <1>4
<1>7. \A r \in D : new[r].rank = r /\ new[r].node_rank \in D /\ new[r].local_rank \in D
  BY <1>4, <1>5
<1> HIDE DEF D
<1>8. QED
  BY <1>2, <1>3, <1>6, <1>7 DEF new, D

(* A reindexed list passes every check of the nodes but the one that a
   selection may fail, that they have as many claims each; and it is in the
   order the replica asks for. *)
LEMMA ReindexPasses ==
  ASSUME NEW n \in Nat, NEW list, TestClaims(list, n)
  PROVE  /\ RanksContiguous(Reindex(list))
         /\ NodeRanksMatchNodes(Reindex(list))
         /\ LocalRanksContiguous(Reindex(list))
         /\ KeysSorted(Reindex(list))
<1> DEFINE D == 0 .. n
           ordered == Sorted(list)
           new == Reindex(list)
<1>1. PICK order :
        /\ Reordered(ordered, list, order)
        /\ \A r, q \in 0 .. n : r < q => NodeOrder(list, order[r]) <= NodeOrder(list, order[q])
  BY SortedReorders DEF TestClaims
<1>2. /\ DOMAIN list = D /\ DOMAIN ordered = D
      /\ \A r \in D : order[r] \in D /\ ordered[r] = list[order[r]]
      /\ \A r \in D : DOMAIN ordered[r] = Fields
  BY <1>1 DEF Reordered, Bijection, Injection, TestClaims
<1>3. /\ DOMAIN new = D
      /\ \A r \in D : new[r] = Reassigned(ordered[r], r, NodeOrder(ordered, r),
                                         EarlierOnNode(ordered, r))
  BY <1>2 DEF Reindex, Reassigned
<1> HIDE DEF ordered, new
<1>4. ASSUME NEW r \in D
      PROVE  /\ new[r].node = ordered[r].node /\ new[r].rank = r
             /\ new[r].node_rank = NodeOrder(ordered, r)
             /\ new[r].local_rank = EarlierOnNode(ordered, r)
  <2>1. DOMAIN ordered[r] = Fields
    BY <1>2
  <2>2. QED
    BY <1>3, <2>1, ReassignedClaim DEF SamePlace
<1>5. DOMAIN new = D /\ DOMAIN ordered = D
  BY <1>2, <1>3
<1>6. /\ \A i, j \in D : /\ ordered[i].node = ordered[j].node
                            <=> NodeOrder(ordered, i) = NodeOrder(ordered, j)
                         /\ NodeOrder(ordered, i) < NodeOrder(ordered, j)
                            <=> First(ordered, ordered[i].node) < First(ordered, ordered[j].node)
      /\ {NodeOrder(ordered, i) : i \in D} = 0 .. (Cardinality(NodesOf(ordered)) - 1)
  BY <1>2, NodeOrders
<1>7. /\ \A i, j \in D : list[i].node = list[j].node
                           <=> NodeOrder(list, i) = NodeOrder(list, j)
      /\ \A i \in D : NodeOrder(list, i) \in Nat
  <2>1. DOMAIN list = 0 .. n
    BY DEF TestClaims
  <2>2. \A i \in D : NodeOrder(list, i) \in 0 .. n
    BY <2>1, NodeOrders
  <2>3. \A i, j \in D : list[i].node = list[j].node
                         <=> NodeOrder(list, i) = NodeOrder(list, j)
    BY <2>1, NodeOrders, SMTT(30)
  <2>4. QED
    BY <2>2, <2>3
<1>8. /\ \A m \in NodesOf(ordered) : {EarlierOnNode(ordered, i) : i \in On(ordered, m)}
                                       = 0 .. (Cardinality(On(ordered, m)) - 1)
      /\ \A i, j \in D : ordered[i].node = ordered[j].node /\ i < j
                           => EarlierOnNode(ordered, i) < EarlierOnNode(ordered, j)
      /\ \A i \in D : EarlierOnNode(ordered, i) \in Nat
  <2>1. \A i \in D : EarlierOnNode(ordered, i) \in 0 .. n
    BY <1>2, EarlierOrders
  <2>2. \A m \in NodesOf(ordered) : {EarlierOnNode(ordered, i) : i \in On(ordered, m)}
                                       = 0 .. (Cardinality(On(ordered, m)) - 1)
    BY <1>2, EarlierOrders
  <2>3. \A i, j \in D : ordered[i].node = ordered[j].node /\ i < j
                         => EarlierOnNode(ordered, i) < EarlierOnNode(ordered, j)
    BY <1>2, EarlierOrders
  <2>4. QED
    BY <2>1, <2>2, <2>3
<1>9. \A j \in D : /\ First(ordered, ordered[j].node) \in D
                   /\ ordered[First(ordered, ordered[j].node)].node = ordered[j].node
                   /\ First(ordered, ordered[j].node) <= j
  <2> SUFFICES ASSUME NEW j \in D
               PROVE  /\ First(ordered, ordered[j].node) \in D
                      /\ ordered[First(ordered, ordered[j].node)].node = ordered[j].node
                      /\ First(ordered, ordered[j].node) <= j
    OBVIOUS
  <2>1. ordered[j].node \in NodesOf(ordered)
    BY <1>2, NodesFinite
  <2>2. DOMAIN ordered = 0 .. n
    BY <1>2
  <2> DEFINE m == ordered[j].node
  <2> HIDE DEF m
  <2>3. /\ First(ordered, m) \in 0 .. n /\ ordered[First(ordered, m)].node = m
        /\ \A k \in 0 .. n : ordered[k].node = m => First(ordered, m) <= k
    BY <2>1, <2>2, FirstOnNode DEF m
  <2>4. QED
    BY <2>3 DEF m
<1>10. \A r, q \in D : r < q => NodeOrder(list, order[r]) <= NodeOrder(list, order[q])
  BY <1>1
<1>11. Cardinality(NodesOf(ordered)) \in Nat /\ \A i \in D : i \in Nat
  BY <1>2, NodesFinite
<1> HIDE DEF D
<1>12. NodesOf(new) = NodesOf(ordered) /\ \A m : On(new, m) = On(ordered, m)
  BY <1>5, <1>4 DEF NodesOf, On
<1>13. RanksContiguous(new)
  BY <1>5, <1>4 DEF RanksContiguous
<1>14. NodeRanksMatchNodes(new)
  <2>1. NodeRanksOf(new) = 0 .. (Cardinality(NodesOf(ordered)) - 1)
    <3>1. NodeRanksOf(new) = {NodeOrder(ordered, i) : i \in D}
      BY <1>5, <1>4 DEF NodeRanksOf
    <3>2. QED
      BY <1>6, <3>1
  <2>2. Cardinality(NodeRanksOf(new)) = Cardinality(NodesOf(ordered))
    BY <1>11, <2>1, FirstNaturals
  <2>3. Contiguous(NodeRanksOf(new))
    BY <2>1, <2>2 DEF Contiguous
  <2>4. \A i, j \in D : new[i].node = new[j].node <=> new[i].node_rank = new[j].node_rank
    BY <1>4, <1>6
  <2>5. QED
    BY <1>3, <2>3, <2>4 DEF NodeRanksMatchNodes
<1>15. LocalRanksContiguous(new)
  <2>1. ASSUME NEW m \in NodesOf(new)
        PROVE  {new[i].local_rank : i \in On(new, m)} = 0 .. (Cardinality(On(new, m)) - 1)
    <3>1. \A i \in On(new, m) : i \in D
      BY <1>5 DEF On
    <3>2. {new[i].local_rank : i \in On(new, m)} = {EarlierOnNode(ordered, i) : i \in On(ordered, m)}
      BY <1>4, <1>12, <3>1
    <3>3. QED
      BY <1>8, <1>12, <3>2
  <2>2. QED
    BY <2>1 DEF LocalRanksContiguous
<1>16. KeysSorted(new)
  <2> SUFFICES ASSUME NEW i \in D, NEW j \in D, i < j
               PROVE  \/ new[i].node_rank < new[j].node_rank
                      \/ /\ new[i].node_rank = new[j].node_rank
                         /\ new[i].local_rank <= new[j].local_rank
    BY <1>3 DEF KeysSorted
  <2>1. CASE ordered[i].node = ordered[j].node
    <3>1. EarlierOnNode(ordered, i) <= EarlierOnNode(ordered, j)
      BY <1>8, <2>1
    <3>2. NodeOrder(ordered, i) = NodeOrder(ordered, j)
      BY <1>6, <2>1
    <3>3. QED
      BY <1>4, <3>1, <3>2
  <2>2. CASE ordered[i].node # ordered[j].node
    <3> DEFINE k == First(ordered, ordered[j].node)
               l == First(ordered, ordered[i].node)
    <3>1. k \in D /\ l \in D /\ ordered[k].node = ordered[j].node /\ l <= i
      BY <1>9
    <3>2. NodeOrder(ordered, i) < NodeOrder(ordered, j) <=> l < k
      BY <1>6
    <3> HIDE DEF k, l
    <3>3. ASSUME k < i
          PROVE  FALSE
      <4>1. /\ NodeOrder(list, order[k]) <= NodeOrder(list, order[i])
            /\ NodeOrder(list, order[i]) <= NodeOrder(list, order[j])
        BY <1>10, <3>1, <3>3
      <4>2. /\ order[i] \in D /\ order[j] \in D /\ order[k] \in D
            /\ list[order[k]].node = list[order[j]].node
            /\ list[order[i]].node # list[order[j]].node
        BY <1>2, <2>2, <3>1
      <4>3. NodeOrder(list, order[k]) = NodeOrder(list, order[j])
        BY <1>7, <4>2
      <4>4. NodeOrder(list, order[i]) \in Nat /\ NodeOrder(list, order[j]) \in Nat
        BY <1>7, <4>2
      <4>5. NodeOrder(list, order[i]) = NodeOrder(list, order[j])
        BY <4>1, <4>3, <4>4
      <4>6. QED
        BY <1>7, <4>2, <4>5
    <3>4. k # i
      BY <2>2, <3>1
    <3>5. l < k
      BY <1>11, <3>1, <3>3, <3>4
    <3>6. QED
      BY <1>4, <3>2, <3>5
  <2>3. QED
    BY <2>1, <2>2
<1>17. QED
  BY <1>13, <1>14, <1>15, <1>16 DEF new

-----------------------------------------------------------------------------
(* Native replicas and their snapshots *)

(* count replicas, each of "groups" placement groups of "each" bundles, no two
   of one replica on a node and none of two replicas: what an arrangement of
   the native replicas comes to. *)
Pool(reps, each, groups, count) ==
  /\ each \in Nat \ {0} /\ groups \in Nat \ {0} /\ count \in Nat \ {0}
  /\ DOMAIN reps = 0 .. (count - 1)
  /\ \A r \in 0 .. (count - 1) :
       /\ DOMAIN reps[r].group = 0 .. (groups - 1)
       /\ \A a \in 0 .. (groups - 1) :
            /\ reps[r].group[a] \in [node : Nat, first : Nat]
            /\ reps[r].group[a].first % each = 0
            /\ reps[r].order[a] \in 0 .. (groups - 1)
       /\ \A a, b \in 0 .. (groups - 1) :
            /\ reps[r].group[a].node = reps[r].group[b].node => a = b
            /\ reps[r].order[a] = reps[r].order[b] => a = b
  /\ \A q, r \in 0 .. (count - 1) : \A a, b \in 0 .. (groups - 1) :
       reps[q].group[a] = reps[r].group[b] => q = r

(* No two bundles of the pool are the same device. *)
LEMMA BundlesDistinct ==
  ASSUME NEW reps, NEW each, NEW groups, NEW count, Pool(reps, each, groups, count),
         NEW q \in 0 .. (count - 1), NEW a \in 0 .. (groups - 1), NEW i \in 0 .. (each - 1),
         NEW r \in 0 .. (count - 1), NEW b \in 0 .. (groups - 1), NEW j \in 0 .. (each - 1),
         Bundle(reps[q].group[a], i).node = Bundle(reps[r].group[b], j).node,
         Bundle(reps[q].group[a], i).device = Bundle(reps[r].group[b], j).device
  PROVE  q = r /\ a = b /\ i = j
<1> DEFINE g == reps[q].group[a]
           h == reps[r].group[b]
<1>1. /\ each \in Nat \ {0} /\ g \in [node : Nat, first : Nat] /\ h \in [node : Nat, first : Nat]
      /\ g.first % each = 0 /\ h.first % each = 0 /\ (g = h => q = r)
      /\ (q = r /\ g.node = h.node => a = b)
  BY DEF Pool
<1>2. g.node = h.node /\ g.first + i = h.first + j
  BY DEF Bundle
<1> HIDE DEF g, h
<1> DEFINE x == g.first
           y == h.first
<1>3. x \in Nat /\ y \in Nat
  BY <1>1
<1>4. x % each = 0 /\ y % each = 0 /\ x + i = y + j
  BY <1>1, <1>2
<1> HIDE DEF x, y
<1>5. x = (x \div each) * each /\ y = (y \div each) * each
      /\ x \div each \in Nat /\ y \div each \in Nat
  <2>1. x = (x \div each) * each + (x % each) /\ x \div each \in Nat
    BY <1>1, <1>3, DivPositive
  <2>2. y = (y \div each) * each + (y % each) /\ y \div each \in Nat
    BY <1>1, <1>3, DivPositive
  <2>3. QED
    BY <1>1, <1>4, <2>1, <2>2
<1>6. (x + i) % each = i /\ (y + j) % each = j
  <2>1. ((x \div each) * each + i) % each = i
    BY <1>1, <1>5, DivMod
  <2>2. ((y \div each) * each + j) % each = j
    BY <1>1, <1>5, DivMod
  <2>3. QED
    BY <1>5, <2>1, <2>2
<1>7. i = j /\ x = y
  BY <1>1, <1>3, <1>4, <1>6
<1>8. g = h
  BY <1>1, <1>2, <1>7 DEF x, y
<1>9. QED
  BY <1>1, <1>2, <1>7, <1>8

(* What the claim of worker k of replica r says, field by field. *)
ClaimOf(e, native, each, r, k) ==
  /\ DOMAIN e = Fields /\ e.local_rank \in Nat
  /\ e.named /\ e.slot = <<r, k \div each, k % each>>
  /\ e.node = Worker(native, each, k).node
  /\ e.device = Worker(native, each, k).device

(* A snapshot has one claim per worker, and worker k gets bundle k % each of
   the group the pool lists at position k \div each. *)
LEMMA SnapshotClaims ==
  ASSUME NEW reps, NEW each, NEW groups, NEW count, Pool(reps, each, groups, count),
         NEW r \in 0 .. (count - 1)
  PROVE  /\ DOMAIN Snapshot(r, reps[r], each) = 0 .. (each * groups - 1)
         /\ each * groups \in Nat \ {0}
         /\ \A k \in 0 .. (each * groups - 1) :
              /\ k \div each \in 0 .. (groups - 1) /\ k % each \in 0 .. (each - 1)
              /\ k = (k \div each) * each + (k % each)
              /\ ClaimOf(Snapshot(r, reps[r], each)[k], reps[r], each, r, k)
<1> DEFINE n == each * groups
           source == Snapshot(r, reps[r], each)
           workers == [k \in 0 .. n - 1 |-> Worker(reps[r], each, k)]
<1>1. each \in Nat \ {0} /\ groups \in Nat \ {0} /\ DOMAIN reps[r].group = 0 .. (groups - 1)
  BY DEF Pool
<1>2. n \in Nat \ {0}
  BY <1>1
<1>3. Cardinality(DOMAIN reps[r].group) = groups
  BY <1>1, FirstNaturals
<1>4. source = [k \in 0 .. n - 1 |->
        [slot |-> <<r, k \div each, k % each>>,
         named |-> TRUE,
         node |-> workers[k].node,
         device |-> workers[k].device,
         local_gpu_index |-> EarlierOnNode(workers, k),
         node_rank |-> NodeOrder(workers, k),
         local_rank |-> EarlierOnNode(workers, k),
         rank |-> k]]
  BY <1>3 DEF Snapshot
<1>5. \A k \in 0 .. n - 1 : EarlierOnNode(workers, k) \in Nat
  <2>1. n - 1 \in Nat /\ DOMAIN workers = 0 .. (n - 1)
    BY <1>2
  <2> HIDE DEF n, workers
  <2>2. \A k \in 0 .. n - 1 : EarlierOnNode(workers, k) \in 0 .. (n - 1)
    BY <2>1, EarlierOrders
  <2>3. QED
    BY <2>2
<1>6. ASSUME NEW k \in 0 .. n - 1
      PROVE  /\ k \div each \in 0 .. (groups - 1) /\ k % each \in 0 .. (each - 1)
             /\ k = (k \div each) * each + (k % each)
  <2>1. k \in Nat /\ k < each * groups
    BY <1>2
  <2>2. /\ k \div each \in Nat /\ k % each \in 0 .. (each - 1)
        /\ k = (k \div each) * each + (k % each)
    BY <1>1, <2>1, DivPositive
  <2> DEFINE d == k \div each
             m == k % each
  <2> HIDE DEF d, m
  <2>3. d \in Nat /\ m \in Nat /\ d * each + m < each * groups
    BY <2>1, <2>2 DEF d, m
  <2>4. d < groups
    <3>1. SUFFICES ASSUME d >= groups PROVE FALSE
      BY <1>1, <2>3
    <3>2. d * each >= groups * each
      BY <1>1, <2>3, <3>1
    <3>3. groups * each = each * groups /\ each * groups \in Nat /\ d * each \in Nat
      BY <1>1, <2>3
    <3>4. QED
      BY <2>3, <3>2, <3>3
  <2>5. QED
    BY <1>1, <2>2, <2>3, <2>4 DEF d
<1>7. ASSUME NEW k \in 0 .. n - 1
      PROVE  ClaimOf(source[k], reps[r], each, r, k)
  <2>1. workers[k] = Worker(reps[r], each, k) /\ EarlierOnNode(workers, k) \in Nat
    BY <1>5
  <2> HIDE DEF workers, n
  <2>2. QED
    BY <1>4, <2>1 DEF ClaimOf, Fields
<1>8. DOMAIN source = 0 .. n - 1
  <2> HIDE DEF workers, n
  <2>1. QED
    BY <1>4
<1> HIDE DEF source
<1>9. QED
  BY <1>2, <1>6, <1>7, <1>8 DEF source

(* No two workers report the same device, in whatever order their groups were
   taken. *)
LEMMA WorkersDistinct ==
  ASSUME NEW reps, NEW each, NEW groups, NEW count, Pool(reps, each, groups, count),
         NEW q \in 0 .. (count - 1), NEW k \in 0 .. (each * groups - 1),
         NEW r \in 0 .. (count - 1), NEW l \in 0 .. (each * groups - 1),
         Worker(reps[q], each, k).node = Worker(reps[r], each, l).node,
         Worker(reps[q], each, k).device = Worker(reps[r], each, l).device
  PROVE  q = r /\ k = l
<1>1. /\ k \div each \in 0 .. (groups - 1) /\ k % each \in 0 .. (each - 1)
      /\ k = (k \div each) * each + (k % each)
  BY SnapshotClaims
<1>2. /\ l \div each \in 0 .. (groups - 1) /\ l % each \in 0 .. (each - 1)
      /\ l = (l \div each) * each + (l % each)
  BY SnapshotClaims
<1> DEFINE a == k \div each
           i == k % each
           b == l \div each
           j == l % each
<1>3. /\ Bundle(reps[q].group[reps[q].order[a]], i).node
           = Bundle(reps[r].group[reps[r].order[b]], j).node
      /\ Bundle(reps[q].group[reps[q].order[a]], i).device
           = Bundle(reps[r].group[reps[r].order[b]], j).device
  BY DEF Worker
<1>4. /\ a \in 0 .. (groups - 1) /\ i \in 0 .. (each - 1) /\ k = a * each + i
      /\ b \in 0 .. (groups - 1) /\ j \in 0 .. (each - 1) /\ l = b * each + j
  BY <1>1, <1>2
<1> HIDE DEF a, b, i, j
<1> DEFINE c == reps[q].order[a]
           d == reps[r].order[b]
<1>5. /\ c \in 0 .. (groups - 1) /\ d \in 0 .. (groups - 1)
      /\ Bundle(reps[q].group[c], i).node = Bundle(reps[r].group[d], j).node
      /\ Bundle(reps[q].group[c], i).device = Bundle(reps[r].group[d], j).device
  BY <1>3, <1>4 DEF Pool
<1> HIDE DEF c, d
<1>6. q = r /\ c = d /\ i = j
  BY <1>4, <1>5, BundlesDistinct
<1>7. a = b
  BY <1>4, <1>6 DEF Pool, c, d
<1>8. QED
  BY <1>4, <1>6, <1>7

-----------------------------------------------------------------------------
(* The claims a scenario selects *)

(* list[i] is the claim of worker v[i] of replica u[i], all of them different. *)
FromWorkers(list, n, u, v, reps, each, groups, count) ==
  /\ DOMAIN list = 0 .. n
  /\ u \in [0 .. n -> 0 .. (count - 1)]
  /\ v \in [0 .. n -> 0 .. (each * groups - 1)]
  /\ \A i \in 0 .. n : list[i] = Snapshot(u[i], reps[u[i]], each)[v[i]]
  /\ \A i, j \in 0 .. n : u[i] = u[j] /\ v[i] = v[j] => i = j

(* Every selection that can be built consists of claims of different workers,
   and one that is to be spoiled has two. *)
LEMMA SelectionFromWorkers ==
  ASSUME NEW reps, NEW each, NEW groups, NEW count, Pool(reps, each, groups, count),
         NEW scenario, Buildable(scenario, reps, each)
  PROVE  \E n \in Nat : \E u, v :
           /\ FromWorkers(Selected(scenario, reps, each), n, u, v, reps, each, groups, count)
           /\ scenario \in Failing => n = 1
<1> DEFINE source == Snapshot(0, reps[0], each)
           w == each * groups
           list == Selected(scenario, reps, each)
<1>1. /\ each \in Nat \ {0} /\ groups \in Nat \ {0} /\ count \in Nat \ {0}
      /\ DOMAIN reps = 0 .. (count - 1) /\ 0 \in 0 .. (count - 1)
      /\ DOMAIN reps[0].group = 0 .. (groups - 1)
  BY DEF Pool
<1>2. w \in Nat \ {0} /\ DOMAIN source = 0 .. (w - 1)
  <2>1. /\ each * groups \in Nat \ {0}
        /\ DOMAIN Snapshot(0, reps[0], each) = 0 .. (each * groups - 1)
    <3> HIDE DEF source, w, list
    <3>1. PICK r \in 0 .. (count - 1) : r = 0
      BY <1>1
    <3>2. /\ each * groups \in Nat \ {0}
          /\ DOMAIN Snapshot(r, reps[r], each) = 0 .. (each * groups - 1)
      BY SnapshotClaims
    <3>3. QED
      BY <3>1, <3>2
  <2>2. QED
    BY <2>1
<1>3. /\ Cardinality(DOMAIN source) = w /\ Cardinality(DOMAIN reps) = count
      /\ Cardinality(DOMAIN reps[0].group) = groups
  <2>1. Cardinality(DOMAIN source) = w
    <3> HIDE DEF source, w
    <3>1. QED
      BY <1>2, FirstNaturals
  <2>2. QED
    BY <1>1, <2>1, FirstNaturals
<1>4. /\ scenario \in Scenarios
      /\ scenario \notin {"basic", "fragmented", "cross_pg"} => w >= 2
      /\ scenario = "cross_pg" => count >= 2
  BY <1>3 DEF Buildable
<1>5. list = CASE scenario = "basic" -> source
               [] scenario = "split" -> Prefix(source, w \div 2)
               [] scenario = "fragmented" -> [i \in 0 .. (w + 1) \div 2 - 1 |-> source[2 * i]]
               [] scenario = "cross_pg" -> [i \in 0 .. 1 |-> Snapshot(i, reps[i], each)[0]]
               [] OTHER -> Prefix(source, 2)
  BY <1>3 DEF Selected
<1> HIDE DEF source, w, list
(* Where all are workers of the first replica. *)
<1>6. ASSUME NEW n \in Nat, DOMAIN list = 0 .. n, NEW v \in [0 .. n -> 0 .. (w - 1)],
             \A i \in 0 .. n : list[i] = source[v[i]],
             \A i, j \in 0 .. n : v[i] = v[j] => i = j
      PROVE  \E u : FromWorkers(list, n, u, v, reps, each, groups, count)
  <2> DEFINE u == [i \in 0 .. n |-> 0]
  <2>1. /\ u \in [0 .. n -> 0 .. (count - 1)]
        /\ \A i \in 0 .. n : u[i] = 0
    BY <1>1
  <2> HIDE DEF u
  <2>2. \A i \in 0 .. n : list[i] = Snapshot(u[i], reps[u[i]], each)[v[i]]
    BY <1>6, <2>1 DEF source
  <2>3. FromWorkers(list, n, u, v, reps, each, groups, count)
    BY <1>6, <2>1, <2>2 DEF FromWorkers, w
  <2>4. QED
    BY <2>3
<1>7. CASE scenario = "basic"
  <2> DEFINE v == [i \in 0 .. w - 1 |-> i]
  <2>1. /\ w - 1 \in Nat /\ list = source /\ v \in [0 .. w - 1 -> 0 .. (w - 1)]
        /\ \A i \in 0 .. w - 1 : v[i] = i
    BY <1>2, <1>5, <1>7
  <2> HIDE DEF v
  <2>2. \E u : FromWorkers(list, w - 1, u, v, reps, each, groups, count)
    BY <1>2, <1>6, <2>1
  <2>3. QED
    BY <1>7, <2>1, <2>2 DEF Failing, list
<1>8. ASSUME NEW m \in Nat, m \in 1 .. w, list = Prefix(source, m)
      PROVE  \E u, v : FromWorkers(list, m - 1, u, v, reps, each, groups, count)
  <2> DEFINE v == [i \in 0 .. m - 1 |-> i]
  <2>1. /\ m - 1 \in Nat /\ DOMAIN list = 0 .. m - 1 /\ v \in [0 .. m - 1 -> 0 .. (w - 1)]
        /\ \A i \in 0 .. m - 1 : v[i] = i /\ list[i] = source[i]
    BY <1>2, <1>8 DEF Prefix
  <2> HIDE DEF v
  <2>2. QED
    BY <1>6, <2>1
<1>9. CASE scenario = "split"
  <2>1. w \div 2 \in 1 .. w /\ w \div 2 \in Nat /\ (w \div 2) - 1 \in Nat
    BY <1>2, <1>4, <1>9
  <2>2. list = Prefix(source, w \div 2)
    BY <1>5, <1>9
  <2>3. \E u, v : FromWorkers(list, (w \div 2) - 1, u, v, reps, each, groups, count)
    BY <1>8, <2>1, <2>2
  <2>4. QED
    BY <1>9, <2>1, <2>3 DEF Failing, list
<1>10. CASE scenario = "fragmented"
  <2> DEFINE n == ((w + 1) \div 2) - 1
             v == [i \in 0 .. n |-> 2 * i]
  <2>1. n \in Nat /\ \A i \in 0 .. n : 2 * i \in 0 .. (w - 1)
    BY <1>2
  <2>2. DOMAIN list = 0 .. n /\ \A i \in 0 .. n : list[i] = source[2 * i]
    BY <1>5, <1>10
  <2> HIDE DEF n
  <2>3. v \in [0 .. n -> 0 .. (w - 1)] /\ \A i \in 0 .. n : v[i] = 2 * i
    BY <2>1
  <2> HIDE DEF v
  <2>4. \A i, j \in 0 .. n : v[i] = v[j] => i = j
    BY <2>3
  <2>5. \E u : FromWorkers(list, n, u, v, reps, each, groups, count)
    BY <1>6, <2>1, <2>2, <2>3, <2>4
  <2>6. QED
    BY <1>10, <2>1, <2>5 DEF Failing, list
<1>11. CASE scenario = "cross_pg"
  <2> DEFINE u == [i \in 0 .. 1 |-> i]
             v == [i \in 0 .. 1 |-> 0]
  <2>1. /\ u \in [0 .. 1 -> 0 .. (count - 1)] /\ v \in [0 .. 1 -> 0 .. (w - 1)]
        /\ \A i \in 0 .. 1 : u[i] = i /\ v[i] = 0
    BY <1>1, <1>2, <1>4, <1>11
  <2>2. DOMAIN list = 0 .. 1 /\ \A i \in 0 .. 1 : list[i] = Snapshot(i, reps[i], each)[0]
    BY <1>5, <1>11
  <2> HIDE DEF u, v
  <2>3. FromWorkers(list, 1, u, v, reps, each, groups, count)
    BY <2>1, <2>2 DEF FromWorkers, w
  <2>4. QED
    BY <1>11, <2>3 DEF Failing, list
<1>12. CASE scenario \in Failing
  <2>1. 2 \in 1 .. w /\ list = Prefix(source, 2)
    BY <1>2, <1>4, <1>5, <1>12 DEF Failing
  <2>2. \E u, v : FromWorkers(list, 1, u, v, reps, each, groups, count)
    BY <1>8, <2>1
  <2>3. QED
    BY <2>2 DEF list
<1>13. QED
  BY <1>4, <1>7, <1>9, <1>10, <1>11, <1>12 DEF Scenarios

-----------------------------------------------------------------------------
(* The request of a scenario *)

(* Spoiling keeps the shape of a pair of claims, and does what it is for. *)
LEMMA SpoiledPair ==
  ASSUME NEW list, TestClaims(list, 1), NEW scenario
  PROVE  /\ TestClaims(Spoiled(scenario, list), 1)
         /\ scenario = "missing_pg" => ~ Spoiled(scenario, list)[0].named
         /\ scenario = "duplicate_device" =>
              Device(Spoiled(scenario, list)[0]) = Device(Spoiled(scenario, list)[1])
<1>1. /\ DOMAIN list = 0 .. 1 /\ DOMAIN list[0] = Fields /\ DOMAIN list[1] = Fields
      /\ list[0].local_rank \in Nat /\ list[1].local_rank \in Nat
      /\ 0 \in 0 .. 1 /\ 1 \in 0 .. 1 /\ \A i \in 0 .. 1 : i = 0 \/ i = 1
  BY DEF TestClaims
<1>2. CASE scenario = "missing_pg"
  <2> DEFINE e == [list[0] EXCEPT !.named = FALSE]
  <2>1. DOMAIN e = Fields /\ e.local_rank = list[0].local_rank /\ e.named = FALSE
    BY <1>1 DEF Fields
  <2>2. Spoiled(scenario, list) = [list EXCEPT ![0] = e]
    BY <1>2 DEF Spoiled
  <2> HIDE DEF e
  <2>3. /\ DOMAIN Spoiled(scenario, list) = 0 .. 1
        /\ Spoiled(scenario, list)[0] = e /\ Spoiled(scenario, list)[1] = list[1]
    BY <1>1, <2>2
  <2>4. QED
    BY <1>1, <1>2, <2>1, <2>3 DEF TestClaims
<1>3. CASE scenario = "duplicate_device"
  <2> DEFINE e == [list[1] EXCEPT !.node = list[0].node, !.device = list[0].device]
  <2>1. /\ DOMAIN e = Fields /\ e.local_rank = list[1].local_rank
        /\ e.node = list[0].node /\ e.device = list[0].device
    BY <1>1 DEF Fields
  <2>2. Spoiled(scenario, list) = [list EXCEPT ![1] = e]
    BY <1>1, <1>3 DEF Spoiled
  <2> HIDE DEF e
  <2>3. /\ DOMAIN Spoiled(scenario, list) = 0 .. 1
        /\ Spoiled(scenario, list)[0] = list[0] /\ Spoiled(scenario, list)[1] = e
    BY <1>1, <2>2
  <2>4. TestClaims(Spoiled(scenario, list), 1)
    BY <1>1, <2>1, <2>3 DEF TestClaims
  <2>5. Device(Spoiled(scenario, list)[0]) = Device(Spoiled(scenario, list)[1])
    BY <2>1, <2>3 DEF Device
  <2>6. QED
    BY <1>3, <2>4, <2>5
<1>4. CASE scenario \notin {"missing_pg", "duplicate_device"}
  BY <1>4 DEF Spoiled
<1>5. QED
  BY <1>2, <1>3, <1>4

(* Claims of different workers, each in another place of the list. *)
DealtFrom(claims, n, u, v, reps, each, groups, count) ==
  /\ u \in [0 .. n -> 0 .. (count - 1)]
  /\ v \in [0 .. n -> 0 .. (each * groups - 1)]
  /\ \A r \in 0 .. n : SamePlace(claims[r], Snapshot(u[r], reps[u[r]], each)[v[r]])
  /\ \A q, r \in 0 .. n : u[q] = u[r] /\ v[q] = v[r] => q = r

(* What a request is, whatever the scenario. *)
LEMMA RequestClaims ==
  ASSUME NEW reps, NEW each, NEW groups, NEW count, Pool(reps, each, groups, count),
         NEW scenario, Buildable(scenario, reps, each)
  PROVE  LET claims == Claims(scenario, reps, each)
         IN \E n \in Nat :
              /\ DOMAIN claims = 0 .. n
              /\ \A r \in 0 .. n : /\ claims[r].rank = r /\ claims[r].node_rank \in 0 .. n
                                   /\ claims[r].local_rank \in 0 .. n
              /\ RanksContiguous(claims) /\ NodeRanksMatchNodes(claims)
              /\ LocalRanksContiguous(claims) /\ KeysSorted(claims)
              /\ scenario = "missing_pg" => \E r \in 0 .. n : ~ claims[r].named
              /\ scenario = "duplicate_device" => ~ PlacesDistinct(claims)
              /\ scenario \notin {"missing_pg", "duplicate_device"} =>
                   \E u, v : DealtFrom(claims, n, u, v, reps, each, groups, count)
<1> DEFINE list == Selected(scenario, reps, each)
           spoiled == Spoiled(scenario, list)
           claims == Reindex(spoiled)
<1>1. PICK n \in Nat : \E u, v : /\ FromWorkers(list, n, u, v, reps, each, groups, count)
                                 /\ scenario \in Failing => n = 1
  BY SelectionFromWorkers
<1>2. PICK u, v : /\ FromWorkers(list, n, u, v, reps, each, groups, count)
                  /\ scenario \in Failing => n = 1
  BY <1>1
<1> HIDE DEF list
<1>3. /\ u \in [0 .. n -> 0 .. (count - 1)] /\ v \in [0 .. n -> 0 .. (each * groups - 1)]
      /\ \A i \in 0 .. n : list[i] = Snapshot(u[i], reps[u[i]], each)[v[i]]
      /\ \A i, j \in 0 .. n : u[i] = u[j] /\ v[i] = v[j] => i = j
      /\ DOMAIN list = 0 .. n
  BY <1>2 DEF FromWorkers
<1>4. TestClaims(list, n)
  <2> SUFFICES ASSUME NEW i \in 0 .. n
               PROVE  DOMAIN list[i] = Fields /\ list[i].local_rank \in Nat
    BY <1>3 DEF TestClaims
  <2>1. u[i] \in 0 .. (count - 1) /\ v[i] \in 0 .. (each * groups - 1)
    BY <1>3
  <2>2. list[i] = Snapshot(u[i], reps[u[i]], each)[v[i]]
    BY <1>3
  <2>3. ClaimOf(Snapshot(u[i], reps[u[i]], each)[v[i]], reps[u[i]], each, u[i], v[i])
    BY <2>1, SnapshotClaims, SMTT(30)
  <2>4. QED
    BY <2>2, <2>3 DEF ClaimOf
<1>5. TestClaims(spoiled, n)
  <2>1. CASE scenario \in {"missing_pg", "duplicate_device"}
    BY <1>2, <1>4, <2>1, SpoiledPair DEF Failing
  <2>2. CASE scenario \notin {"missing_pg", "duplicate_device"}
    BY <1>4, <2>2 DEF Spoiled
  <2>3. QED
    BY <2>1, <2>2
<1>6. /\ scenario = "missing_pg" => n = 1 /\ ~ spoiled[0].named
      /\ scenario = "duplicate_device" => n = 1 /\ Device(spoiled[0]) = Device(spoiled[1])
      /\ scenario \notin {"missing_pg", "duplicate_device"} => spoiled = list
  <2>1. scenario \in {"missing_pg", "duplicate_device"} => n = 1
    BY <1>2 DEF Failing
  <2>2. scenario \notin {"missing_pg", "duplicate_device"} => spoiled = list
    BY DEF Spoiled
  <2>3. QED
    BY <1>4, <2>1, <2>2, SpoiledPair
<1> HIDE DEF spoiled
<1>7. /\ DOMAIN claims = 0 .. n
      /\ \A r \in 0 .. n : /\ claims[r].rank = r /\ claims[r].node_rank \in 0 .. n
                           /\ claims[r].local_rank \in 0 .. n
  BY <1>5, ReindexMoves
<1>8. PICK order \in Bijection(0 .. n, 0 .. n) :
        \A r \in 0 .. n : SamePlace(claims[r], spoiled[order[r]])
  BY <1>5, ReindexMoves
<1>9. /\ RanksContiguous(claims) /\ NodeRanksMatchNodes(claims)
      /\ LocalRanksContiguous(claims) /\ KeysSorted(claims)
  BY <1>5, ReindexPasses
<1> HIDE DEF claims
<1>10. /\ order \in [0 .. n -> 0 .. n]
       /\ \A q, r \in 0 .. n : order[q] = order[r] => q = r
       /\ \A i \in 0 .. n : \E r \in 0 .. n : order[r] = i
  BY <1>8 DEF Bijection, Injection, Surjection, IsInjective
<1>11. ASSUME scenario = "missing_pg"
       PROVE  \E r \in 0 .. n : ~ claims[r].named
  <2>1. PICK r \in 0 .. n : order[r] = 0
    BY <1>10
  <2>2. claims[r].named = spoiled[0].named
    BY <1>8, <2>1 DEF SamePlace
  <2>3. QED
    BY <1>6, <1>11, <2>2
<1>12. ASSUME scenario = "duplicate_device"
       PROVE  ~ PlacesDistinct(claims)
  <2>1. n = 1
    BY <1>6, <1>12
  <2>2. PICK q \in 0 .. n : order[q] = 0
    BY <1>10
  <2>3. PICK r \in 0 .. n : order[r] = 1
    BY <1>10, <2>1
  <2>4. SamePlace(claims[q], spoiled[0]) /\ SamePlace(claims[r], spoiled[1]) /\ q # r
    BY <1>8, <2>2, <2>3
  <2>5. Device(claims[q]) = Device(claims[r])
    BY <1>6, <1>12, <2>4 DEF Device, SamePlace
  <2>6. QED
    BY <1>7, <2>4, <2>5 DEF PlacesDistinct
<1>13. ASSUME scenario \notin {"missing_pg", "duplicate_device"}
       PROVE  \E x, y : DealtFrom(claims, n, x, y, reps, each, groups, count)
  <2> DEFINE x == [r \in 0 .. n |-> u[order[r]]]
             y == [r \in 0 .. n |-> v[order[r]]]
  <2>1. \A r \in 0 .. n : order[r] \in 0 .. n
    BY <1>10
  <2>2. /\ x \in [0 .. n -> 0 .. (count - 1)] /\ y \in [0 .. n -> 0 .. (each * groups - 1)]
        /\ \A r \in 0 .. n : x[r] = u[order[r]] /\ y[r] = v[order[r]]
    BY <1>3, <2>1
  <2> HIDE DEF x, y
  <2>3. \A r \in 0 .. n : SamePlace(claims[r], Snapshot(x[r], reps[x[r]], each)[y[r]])
    <3> SUFFICES ASSUME NEW r \in 0 .. n
                 PROVE  SamePlace(claims[r], Snapshot(x[r], reps[x[r]], each)[y[r]])
      OBVIOUS
    <3>1. SamePlace(claims[r], list[order[r]])
      BY <1>6, <1>8, <1>13
    <3>2. list[order[r]] = Snapshot(u[order[r]], reps[u[order[r]]], each)[v[order[r]]]
      BY <1>3, <2>1
    <3>3. QED
      BY <2>2, <3>1, <3>2
  <2>4. \A q, r \in 0 .. n : x[q] = x[r] /\ y[q] = y[r] => q = r
    <3> SUFFICES ASSUME NEW q \in 0 .. n, NEW r \in 0 .. n, x[q] = x[r], y[q] = y[r]
                 PROVE  q = r
      OBVIOUS
    <3>1. /\ order[q] \in 0 .. n /\ order[r] \in 0 .. n
          /\ u[order[q]] = u[order[r]] /\ v[order[q]] = v[order[r]]
      BY <2>1, <2>2
    <3>2. order[q] = order[r]
      BY <1>3, <3>1
    <3>3. QED
      BY <1>10, <3>2
  <2>5. DealtFrom(claims, n, x, y, reps, each, groups, count)
    BY <2>2, <2>3, <2>4 DEF DealtFrom
  <2>6. QED
    BY <2>5
<1>14. claims = Claims(scenario, reps, each)
  BY DEF claims, spoiled, list, Claims
<1>15. QED
  BY <1>7, <1>9, <1>11, <1>12, <1>13, <1>14

-----------------------------------------------------------------------------
(* Configurations *)

(* Cutting the end off a path and then one key more is cutting off both. *)
LEMMA PathPrefixes ==
  ASSUME NEW S, NEW p \in Seq(S), NEW n \in 0 .. Len(p)
  PROVE  /\ Len(SubSeq(p, 1, n)) = n /\ SubSeq(p, 1, 0) = <<>> /\ SubSeq(p, 1, Len(p)) = p
         /\ n > 0 => /\ SubSeq(p, 1, n) # <<>>
                     /\ SubSeq(SubSeq(p, 1, n), 1, n - 1) = SubSeq(p, 1, n - 1)
<1>1. Len(p) \in Nat /\ \A i \in 1 .. Len(p) : p[i] \in S
  BY LenProperties, ElementOfSeq
<1>2. ASSUME NEW m \in 0 .. Len(p)
      PROVE  /\ SubSeq(p, 1, m) \in Seq(S) /\ Len(SubSeq(p, 1, m)) = m
             /\ \A i \in 1 .. m : SubSeq(p, 1, m)[i] = p[i]
  <2>1. \A i \in 1 .. m : p[i] \in S
    BY <1>1
  <2>2. QED
    BY <1>1, <2>1, SubSeqProperties
<1>3. SubSeq(p, 1, 0) = <<>>
  BY SubSeqEmpty
<1>4. SubSeq(p, 1, Len(p)) = p
  BY <1>1, <1>2, SeqEqual
<1>5. ASSUME n > 0
      PROVE  /\ SubSeq(p, 1, n) # <<>>
             /\ SubSeq(SubSeq(p, 1, n), 1, n - 1) = SubSeq(p, 1, n - 1)
  <2> DEFINE q == SubSeq(p, 1, n)
             s == SubSeq(q, 1, n - 1)
             t == SubSeq(p, 1, n - 1)
  <2>1. q \in Seq(S) /\ Len(q) = n /\ \A i \in 1 .. n : q[i] = p[i]
    BY <1>2
  <2>2. t \in Seq(S) /\ Len(t) = n - 1 /\ \A i \in 1 .. n - 1 : t[i] = p[i]
    BY <1>1, <1>2, <1>5
  <2>3. q # <<>>
    BY <1>5, <2>1, EmptySeq
  <2> HIDE DEF q, t
  <2>4. \A i \in 1 .. n - 1 : q[i] \in S
    BY <2>1, ElementOfSeq
  <2>5. s \in Seq(S) /\ Len(s) = n - 1 /\ \A i \in 1 .. n - 1 : s[i] = q[i]
    BY <1>5, <2>4, SubSeqProperties
  <2> HIDE DEF s
  <2>6. s = t
    <3>1. \A i \in 1 .. Len(s) : s[i] = t[i]
      BY <2>1, <2>2, <2>5
    <3>2. QED
      BY <2>2, <2>5, <3>1, SeqEqual
  <2>7. QED
    BY <2>3, <2>6 DEF q, s, t
<1>6. QED
  BY <1>2, <1>3, <1>4, <1>5

(* What leads to a value is a mapping. *)
LEMMA PathsClosed ==
  ASSUME NEW c \in Configs, NEW S, NEW p \in Seq(S), NEW n \in 1 .. Len(p),
         SubSeq(p, 1, n) \in DOMAIN c
  PROVE  SubSeq(p, 1, n - 1) \in DOMAIN c /\ c[SubSeq(p, 1, n - 1)] = Mapping
<1> DEFINE q == SubSeq(p, 1, n)
<1>1. n \in 0 .. Len(p) /\ n > 0
  BY LenProperties
<1>2. Len(q) = n /\ q # <<>> /\ SubSeq(q, 1, n - 1) = SubSeq(p, 1, n - 1)
  BY <1>1, PathPrefixes
<1> HIDE DEF q
<1>3. q \in DOMAIN c
  BY DEF q
<1>4. SubSeq(q, 1, Len(q) - 1) \in DOMAIN c /\ c[SubSeq(q, 1, Len(q) - 1)] = Mapping
  BY <1>2, <1>3, ConfigAssumption
<1>5. QED
  BY <1>2, <1>4

(* A default was taken, or a None found: nothing else is on the way. *)
LEMMA NativeOnlyIfAbsent ==
  ASSUME NEW c \in Configs, resolve_runtime_profile(c) = "native"
  PROVE  \A n \in 0 .. 3 :
           LET path == SubSeq(<<"multitask", "runtime", "profile">>, 1, n)
           IN path \in DOMAIN c => c[path] \in IF n = 3 THEN {PyNone} ELSE {Mapping, PyNone}
<1> DEFINE P == <<"multitask", "runtime", "profile">>
           S == {"multitask", "runtime", "profile"}
           at(n) == SubSeq(P, 1, n)
           there(n) == at(n) \in DOMAIN c
<1>1. P \in Seq(S) /\ Len(P) = 3
  OBVIOUS
<1>2. at(0) = <<>> /\ at(3) = P
  <2> HIDE DEF P, S
  <2>1. QED
    BY <1>1, PathPrefixes
<1>3. there(0) /\ c[at(0)] = Mapping
  BY <1>2, ConfigAssumption DEF resolve_runtime_profile
<1>4. Select(c, P, PyNone) = PyNone
  BY DEF resolve_runtime_profile
<1> HIDE DEF P
<1>5. \A n \in 1 .. 3 : there(n) => there(n - 1) /\ c[at(n - 1)] = Mapping
  BY <1>1, PathsClosed
<1>6. CASE P \in DOMAIN c
  <2>1. c[at(3)] = PyNone /\ there(3)
    BY <1>2, <1>4, <1>6 DEF Select
  <2>2. /\ c[at(2)] = Mapping /\ c[at(1)] = Mapping
    <3> HIDE DEF at, there
    <3>1. there(2) /\ c[at(2)] = Mapping
      BY <1>5, <2>1
    <3>2. QED
      BY <1>5, <3>1
  <2> HIDE DEF at
  <2>3. \A n \in 0 .. 3 : n = 0 \/ n = 1 \/ n = 2 \/ n = 3
    OBVIOUS
  <2>4. \A n \in 0 .. 3 : c[at(n)] \in IF n = 3 THEN {PyNone} ELSE {Mapping, PyNone}
    BY <1>3, <2>1, <2>2, <2>3
  <2>5. QED
    BY <2>4 DEF at, P
<1>7. CASE P \notin DOMAIN c
  <2> DEFINE stop == CHOOSE n \in 0 .. Len(P) - 1 : there(n) /\ ~ there(n + 1)
  <2>1. ~ there(3)
    BY <1>2, <1>7
  <2>2. \E n \in 0 .. Len(P) - 1 : there(n) /\ ~ there(n + 1)
    <3> HIDE DEF there
    <3>1. ~ there(1) \/ (there(1) /\ ~ there(2)) \/ (there(2) /\ ~ there(2 + 1))
      BY <2>1
    <3>2. there(0) /\ 0 \in 0 .. Len(P) - 1 /\ 1 \in 0 .. Len(P) - 1 /\ 2 \in 0 .. Len(P) - 1
      BY <1>1, <1>3
    <3>3. QED
      BY <3>1, <3>2
  <2>3. stop \in 0 .. Len(P) - 1 /\ there(stop) /\ ~ there(stop + 1)
    <3> HIDE DEF there
    <3>1. QED
      BY <2>2
  <2>4. c[at(stop)] \in {Mapping, PyNone}
    <3>1. Error # PyNone
      BY DEF Error, PyNone
    <3>2. Select(c, P, PyNone) = IF PyNone # Missing /\ c[at(stop)] \in {Mapping, PyNone}
                                 THEN PyNone ELSE Error
      BY <1>7 DEF Select
    <3>3. QED
      BY <1>4, <3>1, <3>2
  <2> HIDE DEF stop, at
  <2>5. \A n \in 0 .. 3 : there(n) => n # 3 /\ c[at(n)] \in {Mapping, PyNone}
    <3> HIDE DEF there
    <3>1. stop \in 0 .. 2
      BY <1>1, <2>3
    <3>2. /\ there(3) => there(2) /\ c[at(2)] = Mapping
          /\ there(2) => there(1) /\ c[at(1)] = Mapping
          /\ there(1) => c[at(0)] = Mapping
      BY <1>5
    <3>3. CASE stop = 0
      BY <1>3, <2>1, <2>3, <2>4, <3>2, <3>3
    <3>4. CASE stop = 1
      BY <1>3, <2>1, <2>3, <2>4, <3>2, <3>4
    <3>5. CASE stop = 2
      BY <1>3, <2>1, <2>3, <2>4, <3>2, <3>5
    <3>6. QED
      BY <3>1, <3>3, <3>4, <3>5
  <2>6. QED
    BY <2>5 DEF at, P
<1>8. QED
  BY <1>6, <1>7

(* The settings the gate has checked. *)
LEMMA SupportedSettings ==
  ASSUME NEW c \in Configs, Supported(c)
  PROVE  /\ Select(c, Rollout \o <<"mode">>, Missing) = PyStr("async")
         /\ \A f \in SizeFields : Size(c, f) \in Nat \ {0}
         /\ PoolGpus(c) >= ReplicaGpus(c)
<1>1. Select(c, Rollout \o <<"mode">>, Missing) = PyStr("async")
  <2>1. << Rollout \o <<"mode">>, PyStr("async") >> \in Pinned
    BY DEF Pinned
  <2> DEFINE p == << Rollout \o <<"mode">>, PyStr("async") >>
  <2>2. p[1] = Rollout \o <<"mode">> /\ p[2] = PyStr("async")
    OBVIOUS
  <2>3. Select(c, p[1], Missing) = p[2]
    BY <2>1 DEF Supported, PinnedMatch
  <2>4. QED
    BY <2>2, <2>3
<1>2. ASSUME NEW f \in SizeFields
      PROVE  Size(c, f) \in Nat \ {0}
  <2> DEFINE path == Rollout \o <<f>>
  <2>1. PositiveInt(Select(c, path, Missing))
    BY DEF Supported, SizesPositive
  <2>2. path \in DOMAIN c
    <3>1. SUFFICES ASSUME path \notin DOMAIN c PROVE FALSE
      OBVIOUS
    <3>2. Select(c, path, Missing) = Error
      BY <3>1 DEF Select
    <3>3. Error[1] # "int"
      BY DEF Error
    <3>4. QED
      BY <2>1, <3>2, <3>3 DEF PositiveInt
  <2>3. c[path][1] = "int" /\ c[path][2] > 0
    BY <2>1, <2>2 DEF Select, PositiveInt
  <2>4. c[path][2] \in Int
    BY <2>2, <2>3, ConfigAssumption
  <2>5. QED
    BY <2>3, <2>4 DEF Size
<1>3. QED
  BY <1>1, <1>2 DEF Supported, FitsOneReplica

-----------------------------------------------------------------------------
(* Any arrangement of the native replicas is a pool, of at least one. *)
GroupCount(c) == ReplicaGpus(c) \div PerNode(c)
ReplicaCount(c) == PoolGpus(c) \div ReplicaGpus(c)

(* Under a configuration the gate accepts, every arrangement of the native
   replicas is a pool of the sizes the configuration says. *)
LEMMA ArrangementIsPool ==
  ASSUME NEW c \in Configs, Supported(c), NEW reps \in Arrangements(c)
  PROVE  /\ Pool(reps, PerNode(c), GroupCount(c), ReplicaCount(c))
         /\ \A r \in DOMAIN reps : DOMAIN reps[r].order = 0 .. (GroupCount(c) - 1)
<1> DEFINE nodes == Size(c, "nnodes")
           gpus == Size(c, "n_gpus_per_node")
           size == ReplicaGpus(c)
           each == PerNode(c)
           groups == GroupCount(c)
           count == ReplicaCount(c)
<1>1. nodes \in Nat \ {0} /\ gpus \in Nat \ {0} /\ size \in Nat \ {0} /\ nodes * gpus >= size
  <2> DEFINE t == Size(c, "tensor_model_parallel_size")
             d == Size(c, "data_parallel_size")
             p == Size(c, "pipeline_model_parallel_size")
  <2>1. nodes \in Nat \ {0} /\ gpus \in Nat \ {0} /\ t \in Nat \ {0} /\ d \in Nat \ {0} /\ p \in Nat \ {0}
    BY SupportedSettings DEF SizeFields
  <2>2. nodes * gpus >= t * d * p /\ size = t * d * p
    BY SupportedSettings DEF PoolGpus, ReplicaGpus
  <2> HIDE DEF nodes, gpus, size, t, d, p
  <2>3. t * d \in Nat \ {0}
    BY <2>1
  <2>4. (t * d) * p \in Nat \ {0}
    BY <2>1, <2>3
  <2>5. QED
    BY <2>1, <2>2, <2>4
<1>2. each \in Nat \ {0} /\ each <= size /\ each <= gpus
  <2>1. each = IF size < gpus THEN size ELSE gpus
    BY DEF PerNode
  <2> HIDE DEF each, size, gpus
  <2>2. QED
    BY <1>1, <2>1
<1>3. groups \in Nat \ {0} /\ count \in Nat \ {0}
  <2>1. groups = size \div each /\ count = (nodes * gpus) \div size
    BY DEF GroupCount, ReplicaCount, PoolGpus
  <2>2. nodes * gpus \in Nat
    <3> HIDE DEF nodes, gpus
    <3>1. QED
      BY <1>1
  <2> HIDE DEF groups, count, nodes, gpus, size, each
  <2>3. size \div each \in Nat /\ size \div each >= 1
    BY <1>1, <1>2, DivPositive
  <2>4. (nodes * gpus) \div size \in Nat /\ (nodes * gpus) \div size >= 1
    BY <1>1, <2>2, DivPositive
  <2>5. QED
    BY <2>1, <2>3, <2>4
<1>4. /\ reps \in [0 .. (count - 1) -> NativeReplicas(c)]
      /\ \A q, r \in 0 .. (count - 1) : \A k \in DOMAIN reps[q].group, l \in DOMAIN reps[r].group :
           reps[q].group[k] = reps[r].group[l] => q = r
  BY DEF Arrangements, ReplicaCount
<1>5. ASSUME NEW x \in NativeReplicas(c)
      PROVE  /\ x.group \in [0 .. (groups - 1) -> Groups(c)]
             /\ x.order \in Orders(groups)
             /\ \A i, j \in 0 .. (groups - 1) : x.group[i].node = x.group[j].node => i = j
  BY DEF NativeReplicas, GroupCount
<1>6. ASSUME NEW g \in Groups(c)
      PROVE  g \in [node : Nat, first : Nat] /\ g.first % each = 0
  <2>1. g \in [node : 1 .. nodes, first : {d \in 0 .. gpus - each : d % each = 0}]
    BY DEF Groups
  <2> HIDE DEF nodes, gpus, each
  <2>2. QED
    BY <1>1, <1>2, <2>1
<1>7. ASSUME NEW f \in Orders(groups)
      PROVE  /\ f \in [0 .. (groups - 1) -> 0 .. (groups - 1)]
             /\ \A i, j \in 0 .. (groups - 1) : f[i] = f[j] => i = j
  BY DEF Orders
<1> HIDE DEF each, groups, count
<1>8. ASSUME NEW r \in 0 .. (count - 1)
      PROVE  /\ reps[r].group \in [0 .. (groups - 1) -> Groups(c)]
             /\ \A a, b \in 0 .. (groups - 1) : reps[r].group[a].node = reps[r].group[b].node => a = b
             /\ reps[r].order \in [0 .. (groups - 1) -> 0 .. (groups - 1)]
             /\ \A a, b \in 0 .. (groups - 1) : reps[r].order[a] = reps[r].order[b] => a = b
  <2>1. reps[r] \in NativeReplicas(c)
    BY <1>4
  <2>2. QED
    BY <1>5, <1>7, <2>1
<1>9. ASSUME NEW r \in 0 .. (count - 1), NEW a \in 0 .. (groups - 1)
      PROVE  /\ reps[r].group[a] \in [node : Nat, first : Nat]
             /\ reps[r].group[a].first % each = 0
             /\ reps[r].order[a] \in 0 .. (groups - 1)
  <2>1. reps[r].group[a] \in Groups(c)
    BY <1>8
  <2>2. reps[r].order[a] \in 0 .. (groups - 1)
    BY <1>8
  <2>3. QED
    BY <1>6, <2>1, <2>2
<1>10. \A q, r \in 0 .. (count - 1) : \A a, b \in 0 .. (groups - 1) :
         reps[q].group[a] = reps[r].group[b] => q = r
  <2> SUFFICES ASSUME NEW q \in 0 .. (count - 1), NEW r \in 0 .. (count - 1),
                      NEW a \in 0 .. (groups - 1), NEW b \in 0 .. (groups - 1),
                      reps[q].group[a] = reps[r].group[b]
               PROVE  q = r
    OBVIOUS
  <2>1. a \in DOMAIN reps[q].group /\ b \in DOMAIN reps[r].group
    BY <1>8
  <2>2. QED
    BY <1>4, <2>1
<1>11. DOMAIN reps = 0 .. (count - 1)
  BY <1>4
<1>12. Pool(reps, each, groups, count)
  BY <1>2, <1>3, <1>8, <1>9, <1>10, <1>11 DEF Pool
<1>13. QED
  BY <1>8, <1>11, <1>12 DEF each, groups, count

(* What the gate accepts has room for a replica. *)
LEMMA ArrangementNotEmpty ==
  ASSUME NEW c \in Configs, Supported(c), NEW reps \in Arrangements(c)
  PROVE  reps # <<>>
<1>1. DOMAIN reps = 0 .. (ReplicaCount(c) - 1) /\ ReplicaCount(c) \in Nat \ {0}
  BY ArrangementIsPool DEF Pool
<1>2. 0 \in DOMAIN reps
  BY <1>1
<1>3. 0 \notin DOMAIN <<>>
  OBVIOUS
<1>4. QED
  BY <1>2, <1>3

-----------------------------------------------------------------------------
(* The inductive invariant *)

(* The gate let the run through, and the pool was divided. *)
GateInv ==
  /\ config \in Configs
  /\ stage \in Stages
  /\ stage = "native" => resolve_runtime_profile(config) = "native"
  /\ stage \notin {"config", "native", "refused", "failed"} =>
       resolve_runtime_profile(config) = "multitask"
  /\ stage \notin {"config", "trainer", "servers", "native", "refused", "failed"} =>
       natives \in Arrangements(config)

(* A request is that of the scenario for the replicas there are. *)
Built ==
  /\ resolve_runtime_profile(config) = "multitask"
  /\ natives \in Arrangements(config)
  /\ D2Enabled(config)
  /\ Buildable(ScenarioName(config), natives, PerNode(config))
  /\ request = [claims |-> Claims(ScenarioName(config), natives, PerNode(config)),
                expired |-> ScenarioName(config) = "expired"]

RequestInv ==
  /\ request = NoRequest \/ Built
  /\ stage \in {"config", "trainer", "servers", "smoke"} => request = NoRequest
  /\ stage \in {"submit", "create", "judge"} \/ record # "none" => Built

Checked ==
  /\ Accepted
  /\ ReplicaAccepts(request.claims, Cardinality(DOMAIN request.claims))
  /\ \A i \in DOMAIN request.claims : request.claims[i].named
  /\ WorkersInPlace(request.claims)

(* A record follows its request through the checks, a runtime its record, and
   the verdict what became of both. *)
SmokeInv ==
  /\ record \in {"none", "CREATING", "RUNTIME_READY", "FAILED"}
  /\ runtime \in {"none", "up", "killed"}
  /\ verdict \in {"none", "PASS", "EXPECTED_FAILURE"}
  /\ stage \in {"config", "trainer", "servers", "smoke", "submit"} =>
       record = "none" /\ verdict = "none"
  /\ stage \in {"create", "judge"} => verdict = "none"
  /\ stage = "create" => Accepted
  /\ record = "RUNTIME_READY" => Checked
  /\ runtime = "up" \/ verdict = "PASS" => record = "RUNTIME_READY"
  /\ stage \in {"agents", "connect", "running"} =>
       /\ D2Enabled(config) => verdict # "none"
       /\ runtime = "up" => ~ D2Cleanup(config)

IInv == GateInv /\ RequestInv /\ SmokeInv

-----------------------------------------------------------------------------
(* What the layers make of a request *)

(* The claim names bundle b of group a of replica q, and reports where worker k
   of it is: on bundle b, too, but of the group its run was created in. *)
DealtAt(claim, each, q, k, a, b) ==
  /\ claim.named /\ claim.slot = <<q, a, b>> /\ k = a * each + b
  /\ At(claim.slot) = Bundle(natives[q].group[a], b)
  /\ claim.node = Worker(natives[q], each, k).node
  /\ claim.device = Worker(natives[q], each, k).device
  /\ Worker(natives[q], each, k) = Bundle(natives[q].group[natives[q].order[a]], b)

(* Where a claim of a request comes from is a place of the pool. *)
LEMMA DealtPlaces ==
  ASSUME NEW each, NEW groups, NEW count, Pool(natives, each, groups, count),
         NEW n \in Nat, NEW claims, NEW u, NEW v,
         DealtFrom(claims, n, u, v, natives, each, groups, count), NEW r \in 0 .. n
  PROVE  /\ u[r] \in 0 .. (count - 1) /\ v[r] \in 0 .. (each * groups - 1)
         /\ \E a \in 0 .. (groups - 1), b \in 0 .. (each - 1) :
              DealtAt(claims[r], each, u[r], v[r], a, b)
<1> DEFINE q == u[r]
           k == v[r]
           e == Snapshot(q, natives[q], each)[k]
           a == k \div each
           b == k % each
<1>1. q \in 0 .. (count - 1) /\ k \in 0 .. (each * groups - 1) /\ SamePlace(claims[r], e)
  BY DEF DealtFrom
<1> HIDE DEF q, k
<1>2. /\ a \in 0 .. (groups - 1) /\ b \in 0 .. (each - 1) /\ k = a * each + b
      /\ ClaimOf(e, natives[q], each, q, k)
  BY <1>1, SnapshotClaims
<1>3. /\ e.named /\ e.slot = <<q, a, b>>
      /\ e.node = Worker(natives[q], each, k).node /\ e.device = Worker(natives[q], each, k).device
  BY <1>2 DEF ClaimOf
<1>4. Worker(natives[q], each, k) = Bundle(natives[q].group[natives[q].order[a]], b)
  BY DEF Worker
<1> HIDE DEF e, a, b
<1>5. /\ claims[r].named /\ claims[r].slot = <<q, a, b>>
      /\ claims[r].node = Worker(natives[q], each, k).node
      /\ claims[r].device = Worker(natives[q], each, k).device
  BY <1>1, <1>3 DEF SamePlace
<1>6. At(claims[r].slot) = Bundle(natives[q].group[a], b)
  BY <1>5 DEF At
<1>7. DealtAt(claims[r], each, q, k, a, b)
  BY <1>2, <1>4, <1>5, <1>6 DEF DealtAt
<1>8. QED
  BY <1>1, <1>2, <1>7 DEF q, k

(* Claims of different workers are of different bundles and devices. *)
LEMMA DealtDistinct ==
  ASSUME NEW each, NEW groups, NEW count, Pool(natives, each, groups, count),
         NEW n \in Nat, NEW claims, DOMAIN claims = 0 .. n, NEW u, NEW v,
         DealtFrom(claims, n, u, v, natives, each, groups, count)
  PROVE  PlacesDistinct(claims) /\ BundlesFit(claims, HalfAndOne)
<1>1. ASSUME NEW q \in 0 .. n, NEW r \in 0 .. n, u[q] = u[r], v[q] = v[r]
      PROVE  q = r
  BY <1>1 DEF DealtFrom
<1>2. ASSUME NEW q \in 0 .. n, NEW r \in 0 .. n, claims[q].slot = claims[r].slot
      PROVE  q = r
  <2>1. PICK a, b : DealtAt(claims[q], each, u[q], v[q], a, b)
    BY DealtPlaces
  <2>2. PICK c, d : DealtAt(claims[r], each, u[r], v[r], c, d)
    BY DealtPlaces
  <2>3. <<u[q], a, b>> = <<u[r], c, d>>
    BY <1>2, <2>1, <2>2 DEF DealtAt
  <2>4. u[q] = u[r] /\ a = c /\ b = d
    BY <2>3
  <2>5. v[q] = v[r]
    BY <2>1, <2>2, <2>4 DEF DealtAt
  <2>6. QED
    BY <1>1, <2>4, <2>5
<1>3. ASSUME NEW q \in 0 .. n, NEW r \in 0 .. n, Device(claims[q]) = Device(claims[r])
      PROVE  q = r
  <2>1. /\ u[q] \in 0 .. (count - 1) /\ v[q] \in 0 .. (each * groups - 1)
        /\ \E a, b : DealtAt(claims[q], each, u[q], v[q], a, b)
    BY DealtPlaces
  <2>2. /\ u[r] \in 0 .. (count - 1) /\ v[r] \in 0 .. (each * groups - 1)
        /\ \E a, b : DealtAt(claims[r], each, u[r], v[r], a, b)
    BY DealtPlaces
  <2>3. claims[q].node = claims[r].node /\ claims[q].device = claims[r].device
    BY <1>3 DEF Device
  <2>4. /\ Worker(natives[u[q]], each, v[q]).node = Worker(natives[u[r]], each, v[r]).node
        /\ Worker(natives[u[q]], each, v[q]).device = Worker(natives[u[r]], each, v[r]).device
    BY <2>1, <2>2, <2>3 DEF DealtAt
  <2>5. u[q] = u[r] /\ v[q] = v[r]
    BY <2>1, <2>2, <2>4, WorkersDistinct, SMTT(30)
  <2>6. QED
    BY <1>1, <2>5
<1>4. PlacesDistinct(claims)
  BY <1>2, <1>3 DEF PlacesDistinct
<1>5. ASSUME NEW i \in 0 .. n
      PROVE  Cardinality({j \in 0 .. n : claims[j].slot = claims[i].slot}) = 1
  <2>1. {j \in 0 .. n : claims[j].slot = claims[i].slot} = {i}
    BY <1>2
  <2>2. QED
    BY <2>1, FS_Singleton
<1>6. BundlesFit(claims, HalfAndOne)
  <2> SUFFICES ASSUME NEW i \in 0 .. n
               PROVE  1 * Cardinality({j \in 0 .. n : claims[j].slot = claims[i].slot}) <= 2
    BY DEF BundlesFit, HalfAndOne
  <2>1. QED
    BY <1>5
<1>7. QED
  BY <1>4, <1>6

(* A worker that finds itself on the node of its claim is on its device, too:
   no two groups of a replica are on one node. *)
LEMMA NodeGivesDevice ==
  ASSUME NEW each, NEW groups, NEW count, Pool(natives, each, groups, count),
         NEW n \in Nat, NEW claims, NEW u, NEW v,
         DealtFrom(claims, n, u, v, natives, each, groups, count), NEW r \in 0 .. n,
         At(claims[r].slot).node = claims[r].node
  PROVE  At(claims[r].slot) = [node |-> claims[r].node, device |-> claims[r].device]
<1>1. PICK a \in 0 .. (groups - 1), b \in 0 .. (each - 1) :
        DealtAt(claims[r], each, u[r], v[r], a, b)
  BY DealtPlaces
<1>2. u[r] \in 0 .. (count - 1)
  BY DealtPlaces
<1> DEFINE c == natives[u[r]].order[a]
           g == natives[u[r]].group
<1>3. /\ claims[r].node = Bundle(g[c], b).node /\ claims[r].device = Bundle(g[c], b).device
      /\ At(claims[r].slot) = Bundle(g[a], b)
  BY <1>1 DEF DealtAt
<1>4. c \in 0 .. (groups - 1) /\ (g[a].node = g[c].node => a = c)
  BY <1>2 DEF Pool
<1> HIDE DEF c, g
<1>5. a = c
  BY <1>3, <1>4 DEF Bundle
<1>6. QED
  BY <1>3, <1>5 DEF Bundle

(* Where the groups were taken in the order of the pool, it does. *)
LEMMA OrderGivesPlaces ==
  ASSUME NEW each, NEW groups, NEW count, Pool(natives, each, groups, count),
         \A r \in DOMAIN natives : DOMAIN natives[r].order = 0 .. (groups - 1),
         NEW n \in Nat, NEW claims, DOMAIN claims = 0 .. n, NEW u, NEW v,
         DealtFrom(claims, n, u, v, natives, each, groups, count), GroupsInOrder
  PROVE  WorkersInPlace(claims)
<1>1. ASSUME NEW r \in 0 .. n
      PROVE  /\ At(claims[r].slot).node = claims[r].node
             /\ At(claims[r].slot).device = claims[r].device
  <2>1. PICK a \in 0 .. (groups - 1), b \in 0 .. (each - 1) :
          DealtAt(claims[r], each, u[r], v[r], a, b)
    BY DealtPlaces
  <2>2. u[r] \in 0 .. (count - 1)
    BY DealtPlaces
  <2>3. natives[u[r]].order[a] = a
    BY <2>2 DEF GroupsInOrder, Pool
  <2>4. QED
    BY <2>1, <2>3 DEF DealtAt
<1> DEFINE place == [r \in 0 .. n |-> At(claims[r].slot)]
<1>2. \A q, r \in 0 .. n : place[q] = place[r] => q = r
  <2> SUFFICES ASSUME NEW q \in 0 .. n, NEW r \in 0 .. n, place[q] = place[r]
               PROVE  q = r
    OBVIOUS
  <2>1. place[q] = At(claims[q].slot) /\ place[r] = At(claims[r].slot)
    OBVIOUS
  <2>2. Device(claims[q]) = Device(claims[r])
    BY <1>1, <2>1 DEF Device
  <2>3. PlacesDistinct(claims)
    BY DealtDistinct
  <2>4. QED
    BY <2>2, <2>3 DEF PlacesDistinct
<1>3. Cardinality({At(claims[r].slot) : r \in 0 .. n}) = Cardinality(0 .. n)
  <2> DEFINE T == {At(claims[r].slot) : r \in 0 .. n}
  <2>1. place \in Surjection(0 .. n, T)
    BY DEF Surjection
  <2>2. place \in Injection(0 .. n, T)
    BY <1>2, <2>1 DEF Surjection, Injection, IsInjective
  <2>3. IsFiniteSet(0 .. n)
    BY FS_Interval
  <2> HIDE DEF place, T
  <2>4. Cardinality(T) = Cardinality(0 .. n)
    BY <2>1, <2>2, <2>3, FS_Surjection
  <2>5. QED
    BY <2>4 DEF T
<1>4. QED
  BY <1>1, <1>3 DEF WorkersInPlace

(* Reindexed claims with as many on each node as on any other are a grid. *)
LEMMA UniformLayout ==
  ASSUME NEW n \in Nat, NEW list, list = [r \in 0 .. n |-> list[r]], ClaimList(list, n),
         \A r \in 0 .. n : list[r].rank = r,
         NodesUniform(list), KeysSorted(list)
  PROVE  /\ ByRank(list) = list /\ LayoutAccepts(list)
         /\ (n + 1) % Cardinality(NodeRanksOf(list)) = 0
<1>1. DOMAIN list = 0 .. n /\ list = [r \in DOMAIN list |-> list[r]]
  BY DEF ClaimList
<1>2. ByRank(list) = list
  BY <1>1, ByRankSorted
<1>3. RanksContiguous(list)
  BY <1>1 DEF RanksContiguous
<1> DEFINE S == NodesOf(list)
           T == NodeRanksOf(list)
<1>4. /\ \A m \in S, i \in 0 .. n : list[i].node = m => NodeIds(list)[m] = list[i].node_rank
      /\ \A m \in S : \E i \in 0 .. n : list[i].node = m
      /\ \A i \in 0 .. n : list[i].node \in S
      /\ IsFiniteSet(S)
  <2>1. ASSUME NEW m \in S, NEW i \in 0 .. n, list[i].node = m
        PROVE  NodeIds(list)[m] = list[i].node_rank
    <3>1. i \in On(list, m)
      BY <1>1, <2>1 DEF On
    <3>2. NodeLayout(list)[m].node_rank = list[i].node_rank
      BY <3>1, LayoutOfSorted
    <3>3. NodeLayout(list)[m].node_rank = NodeIds(list)[m]
      BY DEF NodeLayout
    <3>4. QED
      BY <3>2, <3>3
  <2>2. /\ IsFiniteSet(S) /\ \A i \in 0 .. n : list[i].node \in S
        /\ \A m \in S : \E i \in 0 .. n : list[i].node = m
    <3> HIDE DEF S
    <3>1. QED
      BY <1>1, NodesFinite DEF S
  <2> HIDE DEF S
  <2>3. QED
    BY <2>1, <2>2
<1>5. ASSUME NEW i \in 0 .. n, NEW j \in 0 .. n
      PROVE  list[i].node = list[j].node <=> list[i].node_rank = list[j].node_rank
  BY <1>1 DEF NodesUniform, NodeRanksMatchNodes
<1>6. /\ \A i \in 0 .. n : list[i].node_rank \in T
      /\ \A k \in T : \E i \in 0 .. n : list[i].node_rank = k
  BY <1>1 DEF NodeRanksOf
<1> DEFINE rank == [m \in S |-> NodeIds(list)[m]]
<1>7. rank \in Bijection(S, T)
  <2> HIDE DEF T
  <2>1. \A m \in S : rank[m] \in T
    <3> SUFFICES ASSUME NEW m \in S PROVE rank[m] \in T
      OBVIOUS
    <3>1. PICK i \in 0 .. n : list[i].node = m
      BY <1>4
    <3>2. QED
      BY <1>4, <1>6, <3>1
  <2>2. \A k \in T : \E m \in S : rank[m] = k
    <3> SUFFICES ASSUME NEW k \in T PROVE \E m \in S : rank[m] = k
      OBVIOUS
    <3>1. PICK i \in 0 .. n : list[i].node_rank = k
      BY <1>6
    <3>2. list[i].node \in S /\ rank[list[i].node] = k
      BY <1>4, <3>1
    <3>3. QED
      BY <3>2
  <2>3. \A l, m \in S : rank[l] = rank[m] => l = m
    <3> SUFFICES ASSUME NEW l \in S, NEW m \in S, rank[l] = rank[m]
                 PROVE  l = m
      OBVIOUS
    <3>1. PICK i \in 0 .. n : list[i].node = l
      BY <1>4
    <3>2. PICK j \in 0 .. n : list[j].node = m
      BY <1>4
    <3>3. list[i].node_rank = list[j].node_rank
      BY <1>4, <3>1, <3>2
    <3>4. QED
      BY <1>5, <3>1, <3>2, <3>3
  <2>4. QED
    BY <2>1, <2>2, <2>3 DEF Bijection, Injection, Surjection, IsInjective
<1>8. Cardinality(S) = Cardinality(T)
  <2> HIDE DEF S, T, rank
  <2>1. QED
    BY <1>4, <1>7, SameCount
<1>9. UniformNodeRanks(list)
  <2> DEFINE count(k) == Cardinality({i \in DOMAIN list : list[i].node_rank = k})
  <2>1. ASSUME NEW m \in S
        PROVE  count(NodeIds(list)[m]) = Cardinality(On(list, m))
    <3>1. PICK j \in 0 .. n : list[j].node = m
      BY <1>4
    <3>2. NodeIds(list)[m] = list[j].node_rank
      BY <1>4, <3>1
    <3>3. {i \in DOMAIN list : list[i].node_rank = list[j].node_rank} = On(list, m)
      BY <1>1, <1>5, <3>1 DEF On
    <3>4. QED
      BY <3>2, <3>3
  <2>2. \A l, m \in S : Cardinality(On(list, l)) = Cardinality(On(list, m))
    BY DEF NodesUniform, UniformNodes
  <2> HIDE DEF count
  <2>3. \A l, m \in S : count(NodeIds(list)[l]) = count(NodeIds(list)[m])
    BY <2>1, <2>2
  <2>4. QED
    BY <2>3 DEF UniformNodeRanks, count
<1>10. Contiguous(T)
  BY DEF NodesUniform, NodeRanksMatchNodes
<1>11. LayoutAccepts(list)
  BY <1>2, <1>3, <1>8, <1>9, <1>10 DEF LayoutAccepts
<1>12. (n + 1) % Cardinality(T) = 0
  <2> DEFINE nodes == Cardinality(S)
             k == (n + 1) \div nodes
  <2>1. nodes \in Nat \ {0} /\ k \in Nat \ {0} /\ n + 1 = nodes * k
    BY NodeGrid
  <2> HIDE DEF nodes, k
  <2>2. nodes * k = k * nodes + 0 /\ k \in Nat /\ 0 \in 0 .. (nodes - 1)
    BY <2>1
  <2>3. (k * nodes + 0) % nodes = 0
    BY <2>1, <2>2, DivMod
  <2>4. QED
    BY <1>8, <2>1, <2>2, <2>3 DEF nodes
<1>13. QED
  BY <1>2, <1>11, <1>12

(* What a request is, as the state has it. *)
Dealt(n) ==
  \E u, v : DealtFrom(request.claims, n, u, v, natives, PerNode(config), GroupCount(config),
                      ReplicaCount(config))
(* A request that was built has the ranks 0 .. n in order, its nodes in order,
   and its claims are of different workers of the pool, but where the scenario
   spoiled two of them. *)
LEMMA BuiltRequest ==
  ASSUME config \in Configs, Built
  PROVE  /\ Pool(natives, PerNode(config), GroupCount(config), ReplicaCount(config))
         /\ \A r \in DOMAIN natives : DOMAIN natives[r].order = 0 .. (GroupCount(config) - 1)
         /\ request.expired <=> ScenarioName(config) = "expired"
         /\ \E n \in Nat :
              /\ DOMAIN request.claims = 0 .. n
              /\ request.claims = [r \in 0 .. n |-> request.claims[r]]
              /\ \A r \in 0 .. n : /\ request.claims[r].rank = r
                                   /\ request.claims[r].node_rank \in 0 .. n
                                   /\ request.claims[r].local_rank \in 0 .. n
              /\ RanksContiguous(request.claims) /\ NodeRanksMatchNodes(request.claims)
              /\ LocalRanksContiguous(request.claims) /\ KeysSorted(request.claims)
              /\ ScenarioName(config) = "missing_pg" => \E r \in 0 .. n : ~ request.claims[r].named
              /\ ScenarioName(config) = "duplicate_device" => ~ PlacesDistinct(request.claims)
              /\ ScenarioName(config) \notin {"missing_pg", "duplicate_device"} => Dealt(n)
<1> DEFINE scenario == ScenarioName(config)
           each == PerNode(config)
           claims == Claims(scenario, natives, each)
<1>1. /\ natives \in Arrangements(config) /\ Supported(config) /\ Buildable(scenario, natives, each)
      /\ request.claims = claims
      /\ request.expired <=> scenario = "expired"
  <2>1. Supported(config)
    BY DEF Built, resolve_runtime_profile
  <2>2. QED
    BY <2>1 DEF Built
<1>2. /\ Pool(natives, each, GroupCount(config), ReplicaCount(config))
      /\ \A r \in DOMAIN natives : DOMAIN natives[r].order = 0 .. (GroupCount(config) - 1)
  BY <1>1, ArrangementIsPool
<1>3. claims = [r \in DOMAIN claims |-> claims[r]]
  <2> DEFINE list == Spoiled(scenario, Selected(scenario, natives, each))
  <2>1. claims = Reindex(list)
    BY DEF Claims
  <2> HIDE DEF list, claims
  <2>2. QED
    BY <2>1 DEF Reindex
<1> HIDE DEF scenario, each
<1>4. PICK n \in Nat :
        /\ DOMAIN claims = 0 .. n
        /\ \A r \in 0 .. n : /\ claims[r].rank = r /\ claims[r].node_rank \in 0 .. n
                             /\ claims[r].local_rank \in 0 .. n
        /\ RanksContiguous(claims) /\ NodeRanksMatchNodes(claims)
        /\ LocalRanksContiguous(claims) /\ KeysSorted(claims)
        /\ scenario = "missing_pg" => \E r \in 0 .. n : ~ claims[r].named
        /\ scenario = "duplicate_device" => ~ PlacesDistinct(claims)
        /\ scenario \notin {"missing_pg", "duplicate_device"} =>
             \E u, v : DealtFrom(claims, n, u, v, natives, each, GroupCount(config),
                                 ReplicaCount(config))
  BY <1>1, <1>2, RequestClaims
<1> HIDE DEF claims
<1>5. claims = [r \in 0 .. n |-> claims[r]]
  BY <1>3, <1>4
<1>6. ASSUME scenario \notin {"missing_pg", "duplicate_device"}
      PROVE  Dealt(n)
  <2>1. PICK u, v : DealtFrom(claims, n, u, v, natives, each, GroupCount(config),
                              ReplicaCount(config))
    BY <1>4, <1>6
  <2>2. DealtFrom(request.claims, n, u, v, natives, each, GroupCount(config), ReplicaCount(config))
    BY <1>1, <2>1
  <2>3. QED
    BY <2>2 DEF Dealt, each
<1>7. request.claims = claims
  BY <1>1
<1>8. /\ DOMAIN request.claims = 0 .. n
      /\ request.claims = [r \in 0 .. n |-> request.claims[r]]
      /\ \A r \in 0 .. n : /\ request.claims[r].rank = r
                           /\ request.claims[r].node_rank \in 0 .. n
                           /\ request.claims[r].local_rank \in 0 .. n
      /\ RanksContiguous(request.claims) /\ NodeRanksMatchNodes(request.claims)
      /\ LocalRanksContiguous(request.claims) /\ KeysSorted(request.claims)
      /\ scenario = "missing_pg" => \E r \in 0 .. n : ~ request.claims[r].named
      /\ scenario = "duplicate_device" => ~ PlacesDistinct(request.claims)
  <2>1. DOMAIN claims = 0 .. n /\ claims = [r \in 0 .. n |-> claims[r]]
    BY <1>4, <1>5
  <2>2. QED
    BY <1>4, <1>7, <2>1
<1>9. QED
  BY <1>1, <1>2, <1>6, <1>8 DEF scenario, each

(* A scenario that is to fail gets past no check of both layers. *)
LEMMA CheckedIsUnspoiled ==
  ASSUME config \in Configs, Built, Checked
  PROVE  ScenarioName(config) \notin Failing
<1>1. PICK n \in Nat :
        /\ DOMAIN request.claims = 0 .. n
        /\ ScenarioName(config) = "missing_pg" => \E r \in 0 .. n : ~ request.claims[r].named
        /\ ScenarioName(config) = "duplicate_device" => ~ PlacesDistinct(request.claims)
  BY BuiltRequest
<1>2. request.expired <=> ScenarioName(config) = "expired"
  BY BuiltRequest
<1>3. ScenarioName(config) # "missing_pg"
  BY <1>1 DEF Checked
<1>4. ScenarioName(config) # "duplicate_device"
  BY <1>1 DEF Checked, ReplicaAccepts
<1>5. ScenarioName(config) # "expired"
  BY <1>2 DEF Checked, Accepted
<1>6. QED
  BY <1>3, <1>4, <1>5 DEF Failing

(* One that has passed has its workers where its claims say. *)
LEMMA CheckedIsPlaced ==
  ASSUME config \in Configs, Built, Checked
  PROVE  \A i, j \in DOMAIN request.claims :
           LET c == request.claims[i]
           IN /\ At(c.slot) = [node |-> c.node, device |-> c.device]
              /\ At(c.slot) = At(request.claims[j].slot) => i = j
<1> DEFINE claims == request.claims
<1>1. PICK n \in Nat : /\ DOMAIN claims = 0 .. n
                       /\ ScenarioName(config) \notin {"missing_pg", "duplicate_device"} => Dealt(n)
  BY BuiltRequest
<1>2. PICK u, v : DealtFrom(claims, n, u, v, natives, PerNode(config), GroupCount(config),
                            ReplicaCount(config))
  BY <1>1, CheckedIsUnspoiled DEF Dealt, Failing
<1>3. ASSUME NEW i \in 0 .. n
      PROVE  At(claims[i].slot) = [node |-> claims[i].node, device |-> claims[i].device]
  <2>1. At(claims[i].slot).node = claims[i].node
    BY <1>1 DEF Checked, WorkersInPlace
  <2>2. Pool(natives, PerNode(config), GroupCount(config), ReplicaCount(config))
    BY BuiltRequest
  <2> HIDE DEF claims
  <2>3. QED
    BY <1>2, <2>1, <2>2, NodeGivesDevice
<1>4. ASSUME NEW i \in 0 .. n, NEW j \in 0 .. n, At(claims[i].slot) = At(claims[j].slot)
      PROVE  i = j
  <2>1. PlacesDistinct(claims)
    BY DEF Checked, ReplicaAccepts
  <2>2. [node |-> claims[i].node, device |-> claims[i].device]
          = [node |-> claims[j].node, device |-> claims[j].device]
    BY <1>3, <1>4
  <2>3. Device(claims[i]) = Device(claims[j])
    BY <2>2 DEF Device
  <2>4. QED
    BY <1>1, <2>1, <2>3 DEF PlacesDistinct
<1>5. QED
  BY <1>1, <1>3, <1>4

(* What is asked of a selection that is even is nothing it does not have. *)
LEMMA EvenIsAccepted ==
  ASSUME config \in Configs, Built, ScenarioName(config) \notin Failing,
         UniformNodes(request.claims)
  PROVE  /\ Accepted
         /\ ReplicaAccepts(ByRank(request.claims), Cardinality(DOMAIN request.claims))
         /\ GroupsInOrder => WorkersInPlace(request.claims)
<1> DEFINE claims == request.claims
<1>1. PICK n \in Nat :
        /\ DOMAIN claims = 0 .. n /\ claims = [r \in 0 .. n |-> claims[r]]
        /\ \A r \in 0 .. n : /\ claims[r].rank = r /\ claims[r].node_rank \in 0 .. n
                             /\ claims[r].local_rank \in 0 .. n
        /\ RanksContiguous(claims) /\ NodeRanksMatchNodes(claims)
        /\ LocalRanksContiguous(claims) /\ KeysSorted(claims)
        /\ ScenarioName(config) \notin {"missing_pg", "duplicate_device"} => Dealt(n)
  BY BuiltRequest
<1>2. PICK u, v : DealtFrom(claims, n, u, v, natives, PerNode(config), GroupCount(config),
                            ReplicaCount(config))
  BY <1>1 DEF Dealt, Failing
<1>3. /\ Pool(natives, PerNode(config), GroupCount(config), ReplicaCount(config))
      /\ \A r \in DOMAIN natives : DOMAIN natives[r].order = 0 .. (GroupCount(config) - 1)
      /\ ~ request.expired
  BY BuiltRequest DEF Failing
<1>4. UniformNodes(claims)
  OBVIOUS
<1>5. Accepted <=> ~ request.expired /\ ManagerAccepts(claims, HalfAndOne, Cardinality(DOMAIN claims))
  BY DEF Accepted
<1>6. NodesUniform(claims) /\ ClaimList(claims, n)
  BY <1>1, <1>4 DEF NodesUniform, ClaimList
<1> HIDE DEF claims
<1>7. PlacesDistinct(claims) /\ BundlesFit(claims, HalfAndOne)
  BY <1>1, <1>2, <1>3, DealtDistinct
<1>8. Accepted
  BY <1>1, <1>3, <1>4, <1>5, <1>7 DEF ManagerAccepts
<1>9. /\ ByRank(claims) = claims /\ LayoutAccepts(claims)
      /\ (n + 1) % Cardinality(NodeRanksOf(claims)) = 0
  BY <1>1, <1>6, UniformLayout
<1>10. Cardinality(0 .. n) = n + 1
  BY FS_Interval
<1>11. ReplicaAccepts(ByRank(claims), Cardinality(DOMAIN claims))
  BY <1>1, <1>7, <1>9, <1>10 DEF ReplicaAccepts
<1>12. GroupsInOrder => WorkersInPlace(claims)
  BY <1>1, <1>2, <1>3, OrderGivesPlaces
<1>13. QED
  BY <1>8, <1>11, <1>12 DEF claims

-----------------------------------------------------------------------------
(* The invariant is inductive *)

(* The invariant holds initially. *)
LEMMA InitIInv == Init => IInv
BY DEF Init, IInv, GateInv, RequestInv, SmokeInv, Stages

(* No step serves a run the gate refused, or loses a native replica. *)
LEMMA StepGateInv == IInv /\ [Next]_vars => GateInv'
<1> SUFFICES ASSUME IInv, [Next]_vars PROVE GateInv'
  OBVIOUS
<1> USE DEF IInv, GateInv, Stages, smokeVars
<1>1. CASE ResolveProfile
  <2>1. resolve_runtime_profile(config) \in {"multitask", "native", "refused"}
    BY DEF resolve_runtime_profile
  <2> HIDE DEF smokeVars
  <2>2. QED
    BY <1>1, <2>1 DEF ResolveProfile
<1>2. CASE CreateTrainer
  BY <1>2 DEF CreateTrainer
<1>3. CASE CreateServers
  BY <1>3 DEF CreateServers
<1>4. CASE SkipSmoke
  BY <1>4 DEF SkipSmoke
<1>5. CASE BuildRequest
  BY <1>5 DEF BuildRequest
<1>6. CASE Submit
  BY <1>6 DEF Submit
<1>7. CASE SubmitRaises
  BY <1>7 DEF SubmitRaises
<1>8. CASE RuntimeReady
  BY <1>8 DEF RuntimeReady
<1>9. CASE RuntimeFailed
  BY <1>9 DEF RuntimeFailed
<1>10. CASE Judge
  BY <1>10 DEF Judge
<1>11. CASE CreateAgentLoop
  BY <1>11 DEF CreateAgentLoop
<1>12. CASE SetupCheckpointManager
  BY <1>12 DEF SetupCheckpointManager
<1>13. CASE StartFails
  BY <1>13 DEF StartFails
<1>14. CASE UNCHANGED vars
  BY <1>14 DEF vars
<1>15. QED
  BY <1>1, <1>2, <1>3, <1>4, <1>5, <1>6, <1>7, <1>8, <1>9, <1>10, <1>11, <1>12, <1>13, <1>14 DEF Next

(* Once built, a request stays as it is, and so do the replicas. *)
LEMMA StepRequestInv == IInv /\ [Next]_vars => RequestInv'
<1> SUFFICES ASSUME IInv, [Next]_vars PROVE RequestInv'
  OBVIOUS
<1>1. ASSUME UNCHANGED <<config, natives, request>>
      PROVE  Built' <=> Built
  BY <1>1 DEF Built
<1>2. ASSUME UNCHANGED <<config, natives, request>>,
             stage' \in {"submit", "create", "judge"} \/ record' # "none"
               => stage \in {"submit", "create", "judge"} \/ record # "none",
             stage' \in {"config", "trainer", "servers", "smoke"}
               => stage \in {"config", "trainer", "servers", "smoke"}
      PROVE  RequestInv'
  BY <1>1, <1>2 DEF IInv, RequestInv
<1>3. CASE ResolveProfile
  BY <1>2, <1>3 DEF ResolveProfile, smokeVars, IInv, SmokeInv
<1>4. CASE CreateTrainer
  BY <1>2, <1>4 DEF CreateTrainer, smokeVars
<1>5. CASE CreateServers
  <2>1. /\ stage' = "smoke" /\ record' = "none" /\ request' = request /\ request = NoRequest
    BY <1>5 DEF CreateServers, smokeVars, IInv, SmokeInv, RequestInv
  <2>2. QED
    BY <2>1 DEF RequestInv, NoRequest
<1>6. CASE SkipSmoke
  BY <1>2, <1>6 DEF SkipSmoke, smokeVars
<1>7. CASE BuildRequest
  <2>1. resolve_runtime_profile(config) = "multitask" /\ natives \in Arrangements(config)
    BY <1>7 DEF BuildRequest, IInv, GateInv
  <2>2. Built'
    BY <1>7, <2>1 DEF BuildRequest, Built
  <2>3. stage' = "submit"
    BY <1>7 DEF BuildRequest
  <2>4. QED
    BY <2>2, <2>3 DEF RequestInv
<1>8. CASE Submit
  BY <1>2, <1>8 DEF Submit
<1>9. CASE SubmitRaises
  BY <1>2, <1>9 DEF SubmitRaises
<1>10. CASE RuntimeReady
  BY <1>2, <1>10 DEF RuntimeReady
<1>11. CASE RuntimeFailed
  BY <1>2, <1>11 DEF RuntimeFailed
<1>12. CASE Judge
  BY <1>2, <1>12 DEF Judge
<1>13. CASE CreateAgentLoop
  BY <1>2, <1>13 DEF CreateAgentLoop, smokeVars
<1>14. CASE SetupCheckpointManager
  BY <1>2, <1>14 DEF SetupCheckpointManager, smokeVars
<1>15. CASE StartFails
  BY <1>2, <1>15 DEF StartFails, smokeVars
<1>16. CASE UNCHANGED vars
  BY <1>2, <1>16 DEF vars
<1>17. QED
  BY <1>3, <1>4, <1>5, <1>6, <1>7, <1>8, <1>9, <1>10, <1>11, <1>12, <1>13, <1>14, <1>15, <1>16 DEF Next

(* No step gives a record to an unchecked request, or a runtime without its
   record, or a verdict that contradicts them. *)
LEMMA StepSmokeInv == IInv /\ [Next]_vars => SmokeInv'
<1> SUFFICES ASSUME IInv, [Next]_vars PROVE SmokeInv'
  OBVIOUS
<1>1. ASSUME UNCHANGED <<natives, request>>
      PROVE  (Accepted' <=> Accepted) /\ (Checked' <=> Checked)
  <2>1. Accepted' <=> Accepted
    BY <1>1 DEF Accepted
  <2>2. \A slot : At(slot)' = At(slot)
    BY <1>1 DEF At
  <2>3. WorkersInPlace(request.claims)' <=> WorkersInPlace(request.claims)
    BY <1>1, <2>2 DEF WorkersInPlace
  <2>4. QED
    BY <1>1, <2>1, <2>3 DEF Checked
<1>2. /\ stage = "create" => Built /\ Accepted
      /\ SmokeInv
  BY DEF IInv, RequestInv, SmokeInv
(* The steps that do not touch the smoke. *)
<1>3. CASE ResolveProfile \/ CreateTrainer \/ CreateAgentLoop \/ StartFails
  <2>1. UNCHANGED <<config, natives, request, record, runtime, verdict>>
    BY <1>3 DEF ResolveProfile, CreateTrainer, CreateAgentLoop, StartFails, smokeVars
  <2>2. /\ stage' \notin {"submit", "create", "judge", "agents", "running"}
        /\ stage' \in {"trainer", "servers", "smoke"} => stage \in {"config", "trainer"}
        /\ stage' = "connect" => stage = "agents"
        /\ stage' # "config"
    BY <1>3 DEF ResolveProfile, CreateTrainer, CreateAgentLoop, StartFails
  <2>3. QED
    BY <1>1, <1>2, <2>1, <2>2 DEF SmokeInv
<1>4. CASE SetupCheckpointManager
  <2>1. UNCHANGED <<config, natives, request, record, runtime, verdict>>
    BY <1>4 DEF SetupCheckpointManager, smokeVars
  <2>2. stage = "connect" /\ stage' = "running"
    BY <1>4 DEF SetupCheckpointManager
  <2>3. QED
    BY <1>1, <1>2, <2>1, <2>2 DEF SmokeInv
<1>5. CASE CreateServers
  <2>1. /\ UNCHANGED <<config, request, record, runtime, verdict>>
        /\ stage = "servers" /\ stage' = "smoke"
    BY <1>5 DEF CreateServers, smokeVars
  <2>2. record = "none" /\ verdict = "none" /\ runtime # "up"
    BY <1>2, <2>1 DEF SmokeInv
  <2>3. QED
    BY <1>2, <2>1, <2>2 DEF SmokeInv
<1>6. CASE SkipSmoke
  <2>1. /\ UNCHANGED <<config, natives, request, record, runtime, verdict>>
        /\ stage = "smoke" /\ stage' = "agents" /\ ~ D2Enabled(config)
    BY <1>6 DEF SkipSmoke, smokeVars
  <2>2. record = "none" /\ verdict = "none" /\ runtime # "up"
    BY <1>2, <2>1 DEF SmokeInv
  <2>3. QED
    BY <1>2, <2>1, <2>2 DEF SmokeInv
<1>7. CASE BuildRequest
  <2>1. /\ UNCHANGED <<config, natives, record, runtime, verdict>>
        /\ stage = "smoke" /\ stage' = "submit"
    BY <1>7 DEF BuildRequest
  <2>2. record = "none" /\ verdict = "none" /\ runtime # "up"
    BY <1>2, <2>1 DEF SmokeInv
  <2>3. QED
    BY <1>2, <2>1, <2>2 DEF SmokeInv
<1>8. CASE Submit
  <2>1. /\ UNCHANGED <<config, natives, request, runtime, verdict>> /\ Accepted
        /\ stage = "submit" /\ stage' = "create" /\ record' = "CREATING"
    BY <1>8 DEF Submit
  <2>2. verdict = "none" /\ runtime # "up"
    BY <1>2, <2>1 DEF SmokeInv
  <2>3. QED
    BY <1>1, <1>2, <2>1, <2>2 DEF SmokeInv
<1>9. CASE SubmitRaises
  <2>1. /\ UNCHANGED <<config, natives, request, record, runtime>> /\ stage = "submit"
        /\ \/ verdict' = "EXPECTED_FAILURE" /\ stage' = "agents"
           \/ verdict' = verdict /\ stage' = "failed"
    BY <1>9 DEF SubmitRaises
  <2>2. record = "none" /\ verdict = "none" /\ runtime # "up"
    BY <1>2, <2>1 DEF SmokeInv
  <2>3. QED
    BY <1>2, <2>1, <2>2 DEF SmokeInv
<1>10. CASE RuntimeReady
  <2>1. /\ UNCHANGED <<config, natives, request, verdict>>
        /\ stage = "create" /\ stage' = "judge" /\ record' = "RUNTIME_READY" /\ runtime' = "up"
    BY <1>10 DEF RuntimeReady
  <2>2. Checked
    BY <1>2, <1>10 DEF RuntimeReady, Checked
  <2>3. verdict = "none"
    BY <1>2, <2>1 DEF SmokeInv
  <2>4. QED
    BY <1>1, <1>2, <2>1, <2>2, <2>3 DEF SmokeInv
<1>11. CASE RuntimeFailed
  <2>1. /\ UNCHANGED <<config, natives, request, verdict>>
        /\ stage = "create" /\ stage' = "judge" /\ record' = "FAILED" /\ runtime' = "killed"
    BY <1>11 DEF RuntimeFailed
  <2>2. verdict = "none"
    BY <1>2, <2>1 DEF SmokeInv
  <2>3. QED
    BY <1>2, <2>1, <2>2 DEF SmokeInv
<1>12. CASE Judge
  <2>1. /\ UNCHANGED <<config, natives, request, record>> /\ stage = "judge"
    BY <1>12 DEF Judge
  <2>2. verdict = "none"
    BY <1>2, <2>1 DEF SmokeInv
  <2>3. \/ /\ verdict' = "EXPECTED_FAILURE" /\ record = "FAILED"
           /\ stage' = "agents" /\ runtime' = runtime
        \/ /\ verdict' = "PASS" /\ record = "RUNTIME_READY" /\ stage' = "agents"
           /\ runtime' = IF D2Cleanup(config) THEN "killed" ELSE runtime
        \/ stage' = "failed" /\ verdict' = verdict /\ runtime' = runtime
    BY <1>12 DEF Judge
  <2>4. QED
    BY <1>1, <1>2, <2>1, <2>2, <2>3 DEF SmokeInv
<1>13. CASE UNCHANGED vars
  BY <1>1, <1>2, <1>13 DEF vars, SmokeInv
<1>14. QED
  BY <1>3, <1>4, <1>5, <1>6, <1>7, <1>8, <1>9, <1>10, <1>11, <1>12, <1>13 DEF Next

(* The invariant holds throughout the start of a run, for every pool the gate
   accepts and every arrangement and order of the native replicas. *)
THEOREM Invariance == Spec => []IInv
<1>1. IInv /\ [Next]_vars => IInv'
  BY StepGateInv, StepRequestInv, StepSmokeInv DEF IInv
<1>2. QED
  BY InitIInv, <1>1, PTL DEF Spec

-----------------------------------------------------------------------------
(* What it gives *)

(* Every variable keeps its type: the ranks of a request, too, are naturals
   within its list. *)
THEOREM TypeCorrect == Spec => []TypeOK
<1>1. IInv => TypeOK
  <2> SUFFICES ASSUME IInv PROVE TypeOK
    OBVIOUS
  <2>1. /\ stage \in Stages /\ record \in {"none", "CREATING", "RUNTIME_READY", "FAILED"}
        /\ runtime \in {"none", "up", "killed"}
        /\ verdict \in {"none", "PASS", "EXPECTED_FAILURE"}
    BY DEF IInv, GateInv, SmokeInv
  <2>2. CASE request = NoRequest
    BY <2>1, <2>2 DEF NoRequest, TypeOK
  <2>3. CASE Built
    <3>1. PICK n \in Nat :
            /\ DOMAIN request.claims = 0 .. n
            /\ \A r \in 0 .. n : /\ request.claims[r].rank = r
                                 /\ request.claims[r].node_rank \in 0 .. n
                                 /\ request.claims[r].local_rank \in 0 .. n
      BY <2>3, BuiltRequest DEF IInv, GateInv
    <3>2. QED
      BY <2>1, <3>1 DEF TypeOK
  <2>4. QED
    BY <2>2, <2>3 DEF IInv, RequestInv
<1>2. QED
  BY Invariance, <1>1, PTL

(* A run gets the native classes only if the profile is absent or None and
   every section on the way to it is a mapping, None or absent: never because of
   a mistyped section or a scalar in its place. *)
THEOREM NativeIsMeant == Spec => []NeverSilentlyNative
<1>1. IInv => NeverSilentlyNative
  BY NativeOnlyIfAbsent DEF IInv, GateInv, NeverSilentlyNative
<1>2. QED
  BY Invariance, <1>1, PTL

(* What validate_runtime_profile accepts is enough for what relies on it: the
   servers are created in mode async, and there are replicas when the smoke and
   the run begin. *)
THEOREM GateIsEnough == Spec => []GateSuffices
<1>1. resolve_runtime_profile(config) = "multitask" => Supported(config)
  BY DEF resolve_runtime_profile
<1>2. IInv => GateSuffices
  <2> SUFFICES ASSUME IInv PROVE GateSuffices
    OBVIOUS
  <2>1. stage = "servers" => Select(config, Rollout \o <<"mode">>, Missing) = PyStr("async")
    BY <1>1, SupportedSettings DEF IInv, GateInv
  <2>2. stage \in {"smoke", "running"} => natives # <<>>
    BY <1>1, ArrangementNotEmpty DEF IInv, GateInv
  <2>3. QED
    BY <2>1, <2>2 DEF GateSuffices
<1>3. QED
  BY Invariance, <1>2, PTL

(* A scenario that is to fail never gets a RUNTIME_READY record, a
   smoke that passes has one, and a run that was to be tested starts with a
   verdict, and without the runtime if the test was to clean up. *)
THEOREM VerdictIsTrue == Spec => []VerdictTrue
<1>1. IInv => VerdictTrue
  <2> SUFFICES ASSUME IInv PROVE VerdictTrue
    OBVIOUS
  <2>1. ScenarioName(config) \in Failing => record # "RUNTIME_READY"
    BY CheckedIsUnspoiled DEF IInv, GateInv, RequestInv, SmokeInv
  <2>2. QED
    BY <2>1 DEF IInv, SmokeInv, VerdictTrue
<1>2. QED
  BY Invariance, <1>1, PTL

(* Every worker of a ready runtime is on the node and device its claim names,
   in whatever order native code took the placement groups. *)
THEOREM ReadyRuntimeIsPlaced == Spec => []ReadyIsPlaced
<1>1. IInv => ReadyIsPlaced
  BY CheckedIsPlaced DEF IInv, GateInv, RequestInv, SmokeInv, ReadyIsPlaced
<1>2. QED
  BY Invariance, <1>1, PTL

(* A scenario that should succeed is refused by the manager or the replica
   only if it selects more workers of one node than of another, or a permuted
   order of groups put a worker elsewhere. *)
THEOREM EvenSelectionIsAccepted == Spec => []RefusedOnlyIfUneven
<1>1. IInv => RefusedOnlyIfUneven
  BY EvenIsAccepted DEF IInv, GateInv, RequestInv, RefusedOnlyIfUneven
<1>2. QED
  BY Invariance, <1>1, PTL

==============================================================================
