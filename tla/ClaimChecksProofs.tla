--------------------------- MODULE ClaimChecksProofs ---------------------------
(***************************************************************************)
(* What the checks of ClaimChecks mean together, for claim lists of any    *)
(* length: a list that passes all of them is a grid of nodes and local     *)
(* ranks, in rank order.                                                   *)
(***************************************************************************)
EXTENDS ClaimChecks, Counting

(* A claim list of n + 1 claims. *)
ClaimList(list, n) ==
  /\ DOMAIN list = 0 .. n
  /\ \A i \in 0 .. n : list[i].node_rank \in Nat /\ list[i].local_rank \in Nat

(* The part of ManagerAccepts that speaks of nodes. *)
NodesUniform(list) ==
  NodeRanksMatchNodes(list) /\ UniformNodes(list) /\ LocalRanksContiguous(list)

(* One list has the claims of another in another order, the one order giving. *)
Reordered(b, a, order) ==
  /\ DOMAIN b = DOMAIN a
  /\ order \in Bijection(DOMAIN a, DOMAIN a)
  /\ \A r \in DOMAIN a : b[r] = a[order[r]]

-----------------------------------------------------------------------------
(* Sorting by rank *)

(* If the ranks of a list are its positions, ByRank reorders the list and puts
   claim r at position r. *)
LEMMA ByRankReorders ==
  ASSUME NEW n \in Nat, NEW list, DOMAIN list = 0 .. n, RanksContiguous(list)
  PROVE  /\ \E order : Reordered(ByRank(list), list, order)
         /\ \A r \in 0 .. n : ByRank(list)[r].rank = r
<1> DEFINE D == 0 .. n
           rank == [i \in D |-> list[i].rank]
<1>1. rank \in Surjection(D, D)
  <2>1. {list[i].rank : i \in D} = D
    BY DEF RanksContiguous
  <2>2. (\A i \in D : list[i].rank \in D) /\ \A r \in D : \E i \in D : list[i].rank = r
    BY <2>1
  <2> HIDE DEF D
  <2>3. rank \in [D -> D] /\ \A r \in D : \E i \in D : rank[i] = r
    BY <2>2
  <2>4. QED
    BY <2>3 DEF Surjection
<1>2. \A i, j \in D : list[i].rank = list[j].rank => i = j
  <2>1. rank \in Injection(D, D)
    <3> HIDE DEF rank
    <3>1. QED
      BY <1>1, FS_Interval, FS_Surjection
  <2>2. QED
    BY <2>1 DEF Injection, IsInjective
<1>3. \A r \in D : \E i \in D : list[i].rank = r
  BY <1>1 DEF Surjection
<1> DEFINE order == [r \in D |-> CHOOSE i \in D : list[i].rank = r]
<1>4. \A r \in D : order[r] \in D /\ list[order[r]].rank = r
  BY <1>3
<1>5. \A r \in D : ByRank(list)[r] = list[order[r]]
  <2> SUFFICES ASSUME NEW r \in D
               PROVE  ByRank(list)[r] = list[order[r]]
    OBVIOUS
  <2> DEFINE c == CHOOSE c \in {list[i] : i \in DOMAIN list} : c.rank = r
  <2>1. c \in {list[i] : i \in DOMAIN list} /\ c.rank = r
    BY <1>4
  <2>2. PICK i \in D : c = list[i]
    BY <2>1
  <2>3. i = order[r]
    <3> HIDE DEF c, order
    <3>1. QED
      BY <1>2, <1>4, <2>1, <2>2
  <2>4. ByRank(list)[r] = c
    BY DEF ByRank
  <2>5. QED
    BY <2>2, <2>3, <2>4
<1>6. order \in Bijection(D, D)
  <2>1. order \in [D -> D] /\ DOMAIN order = D
    BY <1>4
  <2>2. \A r, q \in D : order[r] = order[q] => r = q
    <3> HIDE DEF order
    <3>1. QED
      BY <1>4
  <2>3. \A i \in D : \E r \in D : order[r] = i
    <3>1. \A i \in D : list[i].rank \in D
      BY <1>1 DEF Surjection
    <3>2. ASSUME NEW i \in D
          PROVE  order[list[i].rank] = i
      <4> HIDE DEF order
      <4>1. QED
        BY <1>2, <1>4, <3>1
    <3>3. QED
      BY <3>1, <3>2
  <2> HIDE DEF order
  <2>4. QED
    BY <2>1, <2>2, <2>3 DEF Bijection, Injection, Surjection, IsInjective
<1>7. DOMAIN ByRank(list) = D
  BY DEF ByRank
<1> HIDE DEF order
<1>8. QED
  BY <1>4, <1>5, <1>6, <1>7 DEF Reordered

(* A list in rank order is its own reordering. *)
LEMMA ByRankSorted ==
  ASSUME NEW list, list = [r \in DOMAIN list |-> list[r]],
         \A r \in DOMAIN list : list[r].rank = r
  PROVE  ByRank(list) = list
<1>1. ASSUME NEW r \in DOMAIN list
      PROVE  (CHOOSE c \in {list[i] : i \in DOMAIN list} : c.rank = r) = list[r]
  OBVIOUS
<1>2. QED
  BY <1>1 DEF ByRank

(* The manager's checks of the nodes do not look at the order of the claims. *)
LEMMA ReorderedNodes ==
  ASSUME NEW a, NEW b, NEW order, IsFiniteSet(DOMAIN a), Reordered(b, a, order)
  PROVE  /\ NodesOf(b) = NodesOf(a)
         /\ NodesUniform(a) => NodesUniform(b)
<1> DEFINE D == DOMAIN a
<1>1. /\ DOMAIN b = D /\ order \in [D -> D]
      /\ \A r \in D : b[r] = a[order[r]]
      /\ \A i \in D : \E r \in D : order[r] = i
      /\ \A r, q \in D : order[r] = order[q] => r = q
  BY DEF Reordered, Bijection, Injection, Surjection, IsInjective
<1>2. NodesOf(b) = NodesOf(a) /\ NodeRanksOf(b) = NodeRanksOf(a)
  BY <1>1 DEF NodesOf, NodeRanksOf
<1>3. ASSUME NEW n
      PROVE  /\ Cardinality(On(b, n)) = Cardinality(On(a, n))
             /\ {b[i].local_rank : i \in On(b, n)} = {a[i].local_rank : i \in On(a, n)}
  <2> DEFINE f == [r \in On(b, n) |-> order[r]]
  <2>1. f \in Bijection(On(b, n), On(a, n))
    BY <1>1 DEF On, Bijection, Injection, Surjection, IsInjective
  <2>2. IsFiniteSet(On(b, n))
    BY <1>1, FS_Subset DEF On
  <2>3. Cardinality(On(b, n)) = Cardinality(On(a, n))
    <3> HIDE DEF f
    <3>1. QED
      BY <2>1, <2>2, SameCount
  <2>4. {b[i].local_rank : i \in On(b, n)} = {a[i].local_rank : i \in On(a, n)}
    BY <1>1 DEF On
  <2>5. QED
    BY <2>3, <2>4
<1>4. NodeRanksMatchNodes(a) => NodeRanksMatchNodes(b)
  BY <1>1, <1>2 DEF NodeRanksMatchNodes
<1>5. UniformNodes(a) => UniformNodes(b)
  BY <1>2, <1>3 DEF UniformNodes
<1>6. LocalRanksContiguous(a) => LocalRanksContiguous(b)
  BY <1>2, <1>3 DEF LocalRanksContiguous
<1>7. QED
  BY <1>2, <1>4, <1>5, <1>6 DEF NodesUniform

-----------------------------------------------------------------------------
(* The grid *)

(* The checks of the nodes make a grid: as many claims on every node, and
   distinct pairs of node rank and local rank. *)
LEMMA NodeGrid ==
  ASSUME NEW n \in Nat, NEW list, ClaimList(list, n), NodesUniform(list)
  PROVE  LET nodes == Cardinality(NodesOf(list))
             each == (n + 1) \div nodes
         IN  /\ nodes \in Nat \ {0} /\ each \in Nat \ {0} /\ n + 1 = nodes * each
             /\ \A node \in NodesOf(list) : Cardinality(On(list, node)) = each
             /\ \A i \in 0 .. n : /\ list[i].node_rank \in 0 .. (nodes - 1)
                                  /\ list[i].local_rank \in 0 .. (each - 1)
             /\ \A i, j \in 0 .. n : /\ list[i].node_rank = list[j].node_rank
                                     /\ list[i].local_rank = list[j].local_rank
                                     => i = j
<1> DEFINE D == 0 .. n
           nodes == Cardinality(NodesOf(list))
           k == Cardinality(On(list, list[0].node))
<1>1. /\ DOMAIN list = D /\ 0 \in D
      /\ \A i, j \in D : list[i].node = list[j].node <=> list[i].node_rank = list[j].node_rank
      /\ NodeRanksOf(list) = 0 .. (Cardinality(NodeRanksOf(list)) - 1)
  BY DEF ClaimList, NodesUniform, NodeRanksMatchNodes, Contiguous
<1>2. IsFiniteSet(NodeRanksOf(list)) /\ nodes = Cardinality(NodeRanksOf(list)) /\ nodes \in Nat
  <2> DEFINE f == [m \in NodeRanksOf(list) |-> list[CHOOSE i \in D : list[i].node_rank = m].node]
  <2>1. ASSUME NEW m \in NodeRanksOf(list)
        PROVE  \E i \in D : list[i].node_rank = m /\ f[m] = list[i].node
    <3>1. \E i \in D : list[i].node_rank = m
      BY <1>1 DEF NodeRanksOf
    <3>2. QED
      BY <3>1
  <2>2. f \in [NodeRanksOf(list) -> NodesOf(list)] /\ DOMAIN f = NodeRanksOf(list)
    <3>1. \A m \in NodeRanksOf(list) : f[m] \in NodesOf(list)
      <4> HIDE DEF f
      <4>1. QED
        BY <1>1, <2>1 DEF NodesOf
    <3>2. QED
      BY <3>1
  <2> HIDE DEF f
  <2>3. \A l, m \in NodeRanksOf(list) : f[l] = f[m] => l = m
    BY <1>1, <2>1
  <2>4. \A node \in NodesOf(list) : \E m \in NodeRanksOf(list) : f[m] = node
    <3> SUFFICES ASSUME NEW i \in D
                 PROVE  \E m \in NodeRanksOf(list) : f[m] = list[i].node
      BY <1>1 DEF NodesOf
    <3>1. list[i].node_rank \in NodeRanksOf(list)
      BY <1>1 DEF NodeRanksOf
    <3>2. f[list[i].node_rank] = list[i].node
      BY <1>1, <2>1, <3>1
    <3>3. QED
      BY <3>1, <3>2
  <2>5. f \in Bijection(NodeRanksOf(list), NodesOf(list))
    BY <2>2, <2>3, <2>4 DEF Bijection, Injection, Surjection, IsInjective
  <2>6. IsFiniteSet(NodeRanksOf(list))
    <3> DEFINE g == [i \in D |-> list[i].node_rank]
    <3>1. g \in Surjection(D, NodeRanksOf(list))
      BY <1>1 DEF Surjection, NodeRanksOf
    <3> HIDE DEF g
    <3>2. QED
      BY <3>1, FS_Interval, FS_Surjection
  <2>7. QED
    BY <2>5, <2>6, SameCount, FS_CardinalityType
<1>3. NodeRanksOf(list) = 0 .. (nodes - 1)
  BY <1>1, <1>2
<1>4. \A node \in NodesOf(list) : Cardinality(On(list, node)) = k
  BY <1>1 DEF NodesUniform, UniformNodes, NodesOf
<1>5. k \in Nat
  <2>1. IsFiniteSet(D) /\ On(list, list[0].node) \in SUBSET D
    BY <1>1, FS_Interval DEF On
  <2>2. IsFiniteSet(On(list, list[0].node))
    <3> HIDE DEF D
    <3>1. QED
      BY <2>1, FS_Subset
  <2>3. QED
    BY <2>2, FS_CardinalityType
<1>6. ASSUME NEW i \in D
      PROVE  /\ list[i].node \in NodesOf(list) /\ i \in On(list, list[i].node)
             /\ {list[j].local_rank : j \in On(list, list[i].node)} = 0 .. (k - 1)
  <2>1. list[i].node \in NodesOf(list) /\ i \in On(list, list[i].node)
    BY <1>1 DEF NodesOf, On
  <2>2. QED
    BY <1>4, <2>1 DEF NodesUniform, LocalRanksContiguous
<1>7. ASSUME NEW i \in D
      PROVE  list[i].node_rank \in 0 .. (nodes - 1) /\ list[i].local_rank \in 0 .. (k - 1)
  <2>1. list[i].node_rank \in NodeRanksOf(list)
    BY <1>1 DEF NodeRanksOf
  <2>2. QED
    BY <1>3, <1>6, <2>1
<1>8. ASSUME NEW i \in D, NEW j \in D, list[i].node_rank = list[j].node_rank,
             list[i].local_rank = list[j].local_rank
      PROVE  i = j
  <2> DEFINE here == On(list, list[i].node)
             local == [l \in here |-> list[l].local_rank]
  <2>1. i \in here /\ j \in here
    BY <1>1, <1>8 DEF On
  <2>2. local \in Surjection(here, 0 .. (k - 1))
    BY <1>6 DEF Surjection
  <2>3. IsFiniteSet(here) /\ Cardinality(here) = k
    <3>1. here \in SUBSET D /\ IsFiniteSet(D)
      BY <1>1, FS_Interval DEF On
    <3>2. IsFiniteSet(here)
      <4> HIDE DEF here, D
      <4>1. QED
        BY <3>1, FS_Subset
    <3>3. QED
      BY <1>4, <1>6, <3>2
  <2>4. Cardinality(0 .. (k - 1)) = k
    BY <1>5, FS_Interval
  <2>5. \A l, m \in here : list[l].local_rank = list[m].local_rank => l = m
    <3>1. local \in Injection(here, 0 .. (k - 1))
      <4> HIDE DEF local, here, k
      <4>1. QED
        BY <2>2, <2>3, <2>4, FS_Surjection
    <3>2. QED
      BY <3>1 DEF Injection, IsInjective
  <2>6. QED
    BY <1>8, <2>1, <2>5
<1>9. n + 1 = nodes * k
  <2> DEFINE cells == (0 .. (nodes - 1)) \X (0 .. (k - 1))
             cell == [i \in D |-> <<list[i].node_rank, list[i].local_rank>>]
  <2>1. cell \in [D -> cells] /\ DOMAIN cell = D
    BY <1>7
  <2>2. \A i, j \in D : cell[i] = cell[j] => i = j
    BY <1>8
  <2>3. ASSUME NEW a \in 0 .. (nodes - 1), NEW b \in 0 .. (k - 1)
        PROVE  \E i \in D : cell[i] = <<a, b>>
    <3>1. PICK i \in D : list[i].node_rank = a
      BY <1>1, <1>3 DEF NodeRanksOf
    <3>2. PICK j \in On(list, list[i].node) : list[j].local_rank = b
      BY <1>6
    <3>3. j \in D /\ list[j].node_rank = a
      BY <1>1, <3>1, <3>2 DEF On
    <3>4. QED
      BY <3>2, <3>3
  <2>4. \A c \in cells : \E i \in D : cell[i] = c
    <3> SUFFICES ASSUME NEW c \in cells PROVE \E i \in D : cell[i] = c
      OBVIOUS
    <3>1. PICK a \in 0 .. (nodes - 1), b \in 0 .. (k - 1) : c = <<a, b>>
      OBVIOUS
    <3> HIDE DEF cell
    <3>2. QED
      BY <2>3, <3>1
  <2>5. cell \in Bijection(D, cells)
    <3> HIDE DEF cell, cells
    <3>1. QED
      BY <2>1, <2>2, <2>4 DEF Bijection, Injection, Surjection, IsInjective
  <2>6. IsFiniteSet(D) /\ Cardinality(D) = n + 1
    BY FS_Interval
  <2>7. Cardinality(cells) = n + 1
    <3> HIDE DEF cell, cells
    <3>1. QED
      BY <2>5, <2>6, SameCount
  <2>8. /\ IsFiniteSet(0 .. (nodes - 1)) /\ Cardinality(0 .. (nodes - 1)) = nodes
        /\ IsFiniteSet(0 .. (k - 1)) /\ Cardinality(0 .. (k - 1)) = k
    <3>1. nodes \in Nat /\ k \in Nat
      BY <1>2, <1>5
    <3> HIDE DEF nodes, k
    <3>2. QED
      BY <3>1, FirstNaturals
  <2>9. Cardinality(cells) = Cardinality(0 .. (nodes - 1)) * Cardinality(0 .. (k - 1))
    <3> HIDE DEF nodes, k
    <3>1. QED
      BY <2>8, FS_Product
  <2>10. QED
    BY <2>7, <2>8, <2>9
<1>10. nodes # 0 /\ k # 0
  BY <1>7, <1>1, <1>2, <1>5
<1>11. (n + 1) \div nodes = k
  <2> HIDE DEF nodes, k
  <2>1. n + 1 = k * nodes + 0
    BY <1>2, <1>5, <1>9
  <2>2. (k * nodes + 0) \div nodes = k
    BY <1>2, <1>5, <1>10, DivMod
  <2>3. QED
    BY <2>1, <2>2
<1> HIDE DEF nodes, k
<1>12. QED
  BY <1>2, <1>4, <1>5, <1>7, <1>8, <1>9, <1>10, <1>11 DEF nodes

(* In the order the replica checks, node rank first and local rank second, the
   grid is filled row by row. *)
LEMMA SortedGrid ==
  ASSUME NEW n \in Nat, NEW list, ClaimList(list, n), NodesUniform(list), KeysSorted(list)
  PROVE  LET each == (n + 1) \div Cardinality(NodesOf(list))
         IN  \A r \in 0 .. n :
               /\ list[r].node_rank = r \div each
               /\ list[r].local_rank = r % each
               /\ (r \div each) * each \in 0 .. n
               /\ list[r].node = list[(r \div each) * each].node
<1> DEFINE D == 0 .. n
           nodes == Cardinality(NodesOf(list))
           k == (n + 1) \div nodes
<1>1. /\ nodes \in Nat \ {0} /\ k \in Nat \ {0} /\ n + 1 = nodes * k
      /\ \A i \in D : list[i].node_rank \in 0 .. (nodes - 1) /\ list[i].local_rank \in 0 .. (k - 1)
      /\ \A i, j \in D : /\ list[i].node_rank = list[j].node_rank
                         /\ list[i].local_rank = list[j].local_rank
                         => i = j
  BY NodeGrid
<1>2. /\ DOMAIN list = D
      /\ \A i, j \in D : list[i].node = list[j].node <=> list[i].node_rank = list[j].node_rank
  BY DEF ClaimList, NodesUniform, NodeRanksMatchNodes
<1> HIDE DEF k, nodes
<1> DEFINE key == [r \in D |-> list[r].node_rank * k + list[r].local_rank]
<1>3. \A r \in D : key[r] \in D
  <2> SUFFICES ASSUME NEW r \in D PROVE key[r] \in D
    OBVIOUS
  <2> DEFINE a == list[r].node_rank
             b == list[r].local_rank
  <2>1. a \in 0 .. (nodes - 1) /\ b \in 0 .. (k - 1)
    BY <1>1
  <2> HIDE DEF a, b
  <2>2. PICK p \in Nat : p = a * k
    BY <1>1, <2>1
  <2>3. p <= (nodes - 1) * k /\ (nodes - 1) * k = n + 1 - k
    BY <1>1, <2>1, <2>2
  <2>4. a * k + b \in 0 .. n
    <3>1. p \in Nat /\ p <= n + 1 - k /\ b \in Nat /\ b <= k - 1 /\ k \in Nat
      BY <1>1, <2>1, <2>3
    <3>2. p + b \in 0 .. n
      BY <3>1
    <3>3. QED
      BY <2>2, <3>2
  <2>5. QED
    BY <2>4 DEF a, b
<1>4. \A i, j \in D : i < j => key[i] < key[j]
  <2> SUFFICES ASSUME NEW i \in D, NEW j \in D, i < j PROVE key[i] < key[j]
    OBVIOUS
  <2> DEFINE a == list[i].node_rank
             b == list[i].local_rank
             c == list[j].node_rank
             d == list[j].local_rank
  <2>1. /\ a \in Nat /\ c \in Nat /\ b \in 0 .. (k - 1) /\ d \in 0 .. (k - 1)
        /\ a < c \/ (a = c /\ b < d)
    <3>1. a < c \/ (a = c /\ b <= d)
      BY <1>2 DEF KeysSorted
    <3>2. ~ (a = c /\ b = d)
      BY <1>1
    <3>3. QED
      BY <1>1, <3>1, <3>2
  <2>2. key[i] = a * k + b /\ key[j] = c * k + d
    OBVIOUS
  <2> HIDE DEF a, b, c, d, key
  <2>3. CASE a < c
    <3>1. PICK p \in Nat, q \in Nat : p = a * k /\ q = c * k
      BY <1>1, <2>1
    <3>2. p + k <= q
      <4>1. (a + 1) * k <= c * k
        BY <1>1, <2>1, <2>3
      <4>2. (a + 1) * k = a * k + k
        BY <1>1, <2>1
      <4>3. QED
        BY <3>1, <4>1, <4>2
    <3>3. key[i] = p + b /\ key[j] = q + d
      BY <2>2, <3>1
    <3>4. QED
      BY <1>1, <2>1, <3>2, <3>3
  <2>4. CASE a = c /\ b < d
    <3>1. a * k \in Nat
      BY <1>1, <2>1
    <3>2. QED
      BY <1>1, <2>1, <2>2, <2>4, <3>1
  <2>5. QED
    BY <2>1, <2>3, <2>4
<1>5. \A r \in D : key[r] = r
  <2>1. key \in [D -> D]
    BY <1>3
  <2> HIDE DEF key
  <2>2. QED
    BY <1>4, <2>1, IncreasingIsIdentity
<1>6. ASSUME NEW r \in D
      PROVE  r \div k = list[r].node_rank /\ r % k = list[r].local_rank
  <2> DEFINE a == list[r].node_rank
             b == list[r].local_rank
  <2>1. a * k + b = r
    BY <1>5
  <2>2. a \in Nat /\ b \in 0 .. (k - 1)
    BY <1>1
  <2> HIDE DEF a, b
  <2>3. (a * k + b) \div k = a /\ (a * k + b) % k = b
    BY <1>1, <2>2, DivMod
  <2>4. r \div k = a /\ r % k = b
    BY <2>1, <2>3
  <2>5. QED
    BY <2>4 DEF a, b
<1>7. ASSUME NEW r \in D
      PROVE  /\ (r \div k) * k \in D
             /\ list[r].node = list[(r \div k) * k].node
  <2> DEFINE a == list[r].node_rank
  <2>1. a \in Nat /\ list[r].local_rank \in Nat /\ r = a * k + list[r].local_rank /\ r \div k = a
    BY <1>1, <1>5, <1>6
  <2> HIDE DEF a
  <2>2. a * k \in Nat /\ a * k <= r
    BY <1>1, <2>1
  <2>3. a * k \in D
    BY <2>2
  <2>4. (a * k) \div k = a
    <3>1. (a * k + 0) \div k = a
      BY <1>1, <2>1, DivMod
    <3>2. QED
      BY <2>2, <3>1
  <2>5. list[a * k].node_rank = a
    BY <1>6, <2>3, <2>4
  <2>6. list[r].node = list[a * k].node
    BY <1>2, <2>3, <2>5 DEF a
  <2>7. QED
    BY <2>1, <2>3, <2>6
<1>8. QED
  BY <1>6, <1>7 DEF k, nodes

(* Where every claim is at the position of its rank, a layout names the node
   rank of every claim of a node and the positions of the claims on it. *)
LEMMA LayoutOfSorted ==
  ASSUME NEW n \in Nat, NEW list, ClaimList(list, n), NodesUniform(list),
         \A r \in 0 .. n : list[r].rank = r,
         NEW node \in NodesOf(list)
  PROVE  /\ \A i \in On(list, node) : NodeLayout(list)[node].node_rank = list[i].node_rank
         /\ \E i \in 0 .. n : i \in On(list, node)
         /\ NodeLayout(list)[node].ranks = On(list, node)
<1> DEFINE here == On(list, node)
<1>1. here \in SUBSET (0 .. n) /\ here # {} /\ DOMAIN list = 0 .. n
  BY DEF On, NodesOf, ClaimList
<1> DEFINE last == CHOOSE i \in here : \A j \in here : j <= i
<1>2. last \in here
  <2>1. \E i \in here : \A j \in here : j <= i
    <3> HIDE DEF here
    <3>1. QED
      BY <1>1, LargestElement
  <2>2. QED
    BY <2>1
<1>3. /\ NodeLayout(list)[node].node_rank = list[last].node_rank
      /\ NodeLayout(list)[node].ranks = {list[i].rank : i \in here}
  BY DEF NodeLayout, NodeIds
<1> HIDE DEF last
<1>4. \A i \in here : list[i].node_rank = list[last].node_rank
  <2>1. \A i \in here : i \in DOMAIN list /\ list[i].node = node
    BY DEF On
  <2>2. QED
    BY <1>2, <2>1 DEF NodesUniform, NodeRanksMatchNodes
<1>5. {list[i].rank : i \in here} = here
  <2>1. \A i \in here : list[i].rank = i
    BY <1>1
  <2> HIDE DEF here
  <2>2. QED
    BY <2>1
<1>6. QED
  BY <1>1, <1>3, <1>4, <1>5
=============================================================================
