-------------------------- MODULE ClaimContractProofs --------------------------
(***************************************************************************)
(* Proofs about ClaimContract for any number of claims, slots, nodes,      *)
(* devices and submitted ranks: what the two layers of checks establish    *)
(* together for a placed request.                                          *)
(***************************************************************************)
EXTENDS ClaimContract, ClaimChecksProofs

(* The claims the manager has accepted, each at the position of its rank. *)
FrozenClaims(list) ==
  /\ list = [r \in Ranks |-> list[r]]
  /\ \A r \in Ranks : list[r].rank = r
  /\ NodesUniform(list)

IInv ==
  /\ TypeOK
  /\ stage \in {"frozen", "placed", "failed"} => FrozenClaims(claims)
  /\ stage = "placed" => KeysSorted(claims) /\ PlacesDistinct(claims)
  /\ stage \in {"placed", "failed"} \/ layout = [n \in {} |-> {}]
  /\ DOMAIN layout # {} => layout = NodeLayout(claims)

-----------------------------------------------------------------------------
(* The claims of a request *)

(* The ranks are an interval from 0, as many as the world has. *)
LEMMA RanksFromZero ==
  /\ WorldSize - 1 \in Nat /\ Ranks = 0 .. (WorldSize - 1) /\ IsFiniteSet(Ranks)
  /\ Cardinality(Ranks) = WorldSize /\ (WorldSize - 1) + 1 = WorldSize
BY WorldSizeAssumption, FirstNaturals DEF Ranks

(* A request of the model is a claim list in the sense of ClaimChecksProofs. *)
LEMMA RequestIsClaimList ==
  ASSUME TypeOK
  PROVE  ClaimList(claims, WorldSize - 1)
BY RankListAssumption DEF TypeOK, ClaimList, Ranks

(* The fields of a claim. *)
LEMMA ClaimFields ==
  ASSUME NEW s, NEW a, NEW b, NEW r
  PROVE  /\ Claim(s, a, b, r).slot = s /\ Claim(s, a, b, r).node = NodeOf[s]
         /\ Claim(s, a, b, r).node_rank = a /\ Claim(s, a, b, r).local_rank = b
         /\ Claim(s, a, b, r).rank = r
BY DEF Claim

(* A layout of frozen claims: what is in it, node by node. *)
LEMMA LayoutEntries ==
  ASSUME TypeOK, FrozenClaims(claims)
  PROVE  /\ DOMAIN NodeLayout(claims) = NodesOf(claims)
         /\ \A n \in NodesOf(claims) :
              /\ \A i \in On(claims, n) : NodeLayout(claims)[n].node_rank = claims[i].node_rank
              /\ \E i \in Ranks : i \in On(claims, n)
              /\ NodeLayout(claims)[n].ranks = On(claims, n)
<1>1. DOMAIN NodeLayout(claims) = NodesOf(claims)
  BY DEF NodeLayout
<1>2. ASSUME NEW n \in NodesOf(claims)
      PROVE  /\ \A i \in On(claims, n) : NodeLayout(claims)[n].node_rank = claims[i].node_rank
             /\ \E i \in Ranks : i \in On(claims, n)
             /\ NodeLayout(claims)[n].ranks = On(claims, n)
  <2>1. /\ WorldSize - 1 \in Nat /\ ClaimList(claims, WorldSize - 1) /\ NodesUniform(claims)
        /\ \A r \in 0 .. (WorldSize - 1) : claims[r].rank = r
    BY RanksFromZero, RequestIsClaimList DEF FrozenClaims
  <2>2. /\ \A i \in On(claims, n) : NodeLayout(claims)[n].node_rank = claims[i].node_rank
        /\ \E i \in 0 .. (WorldSize - 1) : i \in On(claims, n)
        /\ NodeLayout(claims)[n].ranks = On(claims, n)
    BY <2>1, LayoutOfSorted
  <2>3. QED
    BY <2>2, RanksFromZero
<1>3. QED
  BY <1>1, <1>2

(* The layout of an accepted request is one of nodes, node ranks and ranks. *)
LEMMA LayoutTyped ==
  ASSUME TypeOK, FrozenClaims(claims)
  PROVE  /\ DOMAIN NodeLayout(claims) \subseteq Nodes
         /\ \A n \in DOMAIN NodeLayout(claims) :
              /\ NodeLayout(claims)[n].node_rank \in NodeRanks
              /\ NodeLayout(claims)[n].ranks \subseteq Ranks
<1>1. \A i \in Ranks : claims[i].node \in Nodes /\ claims[i].node_rank \in NodeRanks
  <2> SUFFICES ASSUME NEW i \in Ranks
               PROVE  claims[i].node \in Nodes /\ claims[i].node_rank \in NodeRanks
    OBVIOUS
  <2> DEFINE c == claims[i]
  <2>1. c = Claim(c.slot, c.node_rank, c.local_rank, c.rank) /\ c.slot \in Slots
        /\ c.node_rank \in NodeRanks
    BY DEF TypeOK
  <2> HIDE DEF c
  <2>2. c.node = NodeOf[c.slot]
    BY <2>1, ClaimFields
  <2>3. QED
    BY <2>1, <2>2, SlotAssumption DEF c
<1>2. DOMAIN claims = Ranks
  BY DEF TypeOK
<1>3. NodesOf(claims) \subseteq Nodes
  BY <1>1, <1>2 DEF NodesOf
<1>4. ASSUME NEW n \in NodesOf(claims)
      PROVE  /\ NodeLayout(claims)[n].node_rank \in NodeRanks
             /\ NodeLayout(claims)[n].ranks \subseteq Ranks
  <2>1. PICK i \in Ranks : i \in On(claims, n)
    BY LayoutEntries
  <2>2. NodeLayout(claims)[n].node_rank = claims[i].node_rank
    BY <2>1, LayoutEntries
  <2>3. On(claims, n) \subseteq Ranks
    BY <1>2 DEF On
  <2>4. QED
    BY <1>1, <2>2, <2>3, LayoutEntries
<1>5. QED
  BY <1>3, <1>4, LayoutEntries

-----------------------------------------------------------------------------
(* The invariant *)

(* The invariant holds initially. *)
LEMMA InitIInv == Init => IInv
<1> SUFFICES ASSUME Init PROVE IInv
  OBVIOUS
<1>1. PICK slot \in [Ranks -> Slots], node_rank \in [Ranks -> NodeRanks],
           local_rank \in [Ranks -> LocalRanks], rank \in RankLists :
        claims = [i \in Ranks |-> Claim(slot[i], node_rank[i], local_rank[i], rank[i])]
  BY DEF Init
<1>2. rank \in [Ranks -> Nat]
  BY RankListAssumption
<1>3. ASSUME NEW i \in Ranks
      PROVE  /\ claims[i] = Claim(slot[i], node_rank[i], local_rank[i], rank[i])
             /\ claims[i].slot = slot[i] /\ claims[i].node_rank = node_rank[i]
             /\ claims[i].local_rank = local_rank[i] /\ claims[i].rank = rank[i]
  <2>1. claims[i] = Claim(slot[i], node_rank[i], local_rank[i], rank[i])
    BY <1>1
  <2>2. QED
    BY <2>1, ClaimFields
<1>4. /\ stage = "submitted" /\ layout = [n \in {} |-> {}] /\ DOMAIN layout = {}
      /\ DOMAIN claims = Ranks
  BY <1>1 DEF Init
<1>5. TypeOK
  BY <1>2, <1>3, <1>4 DEF TypeOK
<1>6. QED
  BY <1>4, <1>5 DEF IInv

(* Freezing puts every claim at the position of its rank and keeps what the
   manager has checked. *)
LEMMA FreezeStep ==
  ASSUME IInv, Freeze
  PROVE  IInv'
<1>1. /\ DOMAIN claims = 0 .. (WorldSize - 1) /\ RanksContiguous(claims) /\ NodesUniform(claims)
      /\ layout' = [n \in {} |-> {}] /\ claims' = ByRank(claims) /\ stage' = "frozen"
  BY DEF IInv, TypeOK, Freeze, ManagerAccepts, NodesUniform, Ranks
<1>2. PICK order : Reordered(ByRank(claims), claims, order)
  BY <1>1, RanksFromZero, ByRankReorders
<1>3. \A r \in Ranks : claims'[r].rank = r
  BY <1>1, RanksFromZero, ByRankReorders
<1>4. DOMAIN claims' = Ranks /\ \A r \in Ranks : \E i \in Ranks : claims'[r] = claims[i]
  BY <1>1, <1>2, RanksFromZero DEF Reordered, Bijection, Injection
<1>5. NodesUniform(claims')
  BY <1>1, <1>2, RanksFromZero, ReorderedNodes
<1>6. claims' = [r \in Ranks |-> claims'[r]]
  BY <1>1, RanksFromZero DEF ByRank
<1>7. FrozenClaims(claims')
  BY <1>3, <1>5, <1>6 DEF FrozenClaims
<1>8. DOMAIN layout' = {}
  BY <1>1
<1>9. TypeOK'
  BY <1>1, <1>4, <1>8 DEF IInv, TypeOK
<1>10. QED
  BY <1>1, <1>7, <1>8, <1>9 DEF IInv

(* The layout the replica keeps is that of the claims the manager froze. *)
LEMMA PlaceStep ==
  ASSUME IInv, Place
  PROVE  IInv'
<1>1. /\ FrozenClaims(claims) /\ layout' = NodeLayout(claims) /\ claims' = claims
      /\ stage' = "placed" /\ KeysSorted(ByRank(claims)) /\ PlacesDistinct(claims) /\ TypeOK
  BY DEF IInv, Place, ReplicaAccepts, LayoutAccepts
<1>2. ByRank(claims) = claims
  BY <1>1, ByRankSorted DEF FrozenClaims, TypeOK
<1>3. TypeOK'
  BY <1>1, LayoutTyped DEF TypeOK
<1>4. QED
  BY <1>1, <1>2, <1>3 DEF IInv, FrozenClaims

(* A replica that fails keeps what the manager froze. *)
LEMMA FailStep ==
  ASSUME IInv, Fail
  PROVE  IInv'
<1>1. /\ FrozenClaims(claims) /\ claims' = claims /\ stage' = "failed" /\ TypeOK
      /\ layout' = NodeLayout(claims) \/ layout' = layout
      /\ layout = [n \in {} |-> {}]
  BY DEF IInv, Fail
<1>2. TypeOK'
  BY <1>1, LayoutTyped DEF TypeOK
<1>3. DOMAIN layout' # {} => layout' = NodeLayout(claims)
  BY <1>1
<1>4. QED
  BY <1>1, <1>2, <1>3 DEF IInv, FrozenClaims

(* The invariant is inductive. *)
LEMMA StepIInv == IInv /\ [Next]_vars => IInv'
<1> SUFFICES ASSUME IInv, [Next]_vars PROVE IInv'
  OBVIOUS
<1>1. CASE Refuse
  BY <1>1 DEF Refuse, IInv, TypeOK
<1>2. CASE UNCHANGED vars
  BY <1>2 DEF vars, IInv, TypeOK, FrozenClaims
<1>3. QED
  BY <1>1, <1>2, FreezeStep, PlaceStep, FailStep DEF Next

(* Frozen claims are in rank order and keep what the manager checked, and a
   placed request passed the replica's checks in that order. *)
THEOREM Invariance == Spec => []IInv
BY InitIInv, StepIInv, PTL DEF Spec

-----------------------------------------------------------------------------
(* Every variable keeps its type; a layout speaks of known nodes and of ranks of
   the request. *)
THEOREM TypeCorrect == Spec => []TypeOK
<1>1. IInv => TypeOK
  BY DEF IInv
<1>2. QED
  BY <1>1, Invariance, PTL

(* In a placed request claim r is local rank r % L of node rank r \div L, and
   the L claims of a server are on one node. *)
THEOREM PlacedIsGrid == Spec => []RankGrid
<1>1. ASSUME IInv
      PROVE  RankGrid
  <2> SUFFICES ASSUME stage = "placed", NEW r \in Ranks
               PROVE  /\ claims[r].node_rank = r \div PerNode
                      /\ claims[r].local_rank = r % PerNode
                      /\ claims[r].node = claims[(r \div PerNode) * PerNode].node
    BY DEF RankGrid
  <2>1. ClaimList(claims, WorldSize - 1) /\ NodesUniform(claims) /\ KeysSorted(claims)
    BY <1>1, RequestIsClaimList DEF IInv, FrozenClaims
  <2>2. PerNode = ((WorldSize - 1) + 1) \div Cardinality(NodesOf(claims))
    BY RanksFromZero DEF PerNode, NNodes
  <2>3. QED
    BY <2>1, <2>2, RanksFromZero, SortedGrid
<1>2. QED
  BY <1>1, Invariance, PTL

(* The layout a replica keeps, also a failed one, gives each rank to the node of
   its claim and as many ranks to every node. *)
THEOREM LayoutIsExact == Spec => []LayoutExact
<1>1. ASSUME IInv, DOMAIN layout # {}
      PROVE  /\ \A r \in Ranks :
                  /\ layout[claims[r].node].node_rank = claims[r].node_rank
                  /\ {n \in DOMAIN layout : r \in layout[n].ranks} = {claims[r].node}
             /\ \A n \in DOMAIN layout : Cardinality(layout[n].ranks) = PerNode
  <2>1. /\ layout = NodeLayout(claims) /\ FrozenClaims(claims) /\ TypeOK
        /\ DOMAIN claims = Ranks /\ DOMAIN layout = NodesOf(claims)
    BY <1>1, LayoutEntries DEF IInv, TypeOK
  <2>2. ASSUME NEW r \in Ranks
        PROVE  claims[r].node \in NodesOf(claims) /\ r \in On(claims, claims[r].node)
    BY <2>1 DEF NodesOf, On
  <2>3. \A n \in DOMAIN layout : layout[n].ranks = On(claims, n)
    BY <2>1, LayoutEntries
  <2>4. ASSUME NEW r \in Ranks
        PROVE  /\ layout[claims[r].node].node_rank = claims[r].node_rank
               /\ {n \in DOMAIN layout : r \in layout[n].ranks} = {claims[r].node}
    <3>1. layout[claims[r].node].node_rank = claims[r].node_rank
      BY <2>1, <2>2, LayoutEntries
    <3>2. \A n \in DOMAIN layout : r \in layout[n].ranks <=> n = claims[r].node
      BY <2>1, <2>2, <2>3 DEF On
    <3>3. QED
      BY <2>1, <2>2, <3>1, <3>2
  <2>5. ASSUME NEW n \in DOMAIN layout
        PROVE  Cardinality(layout[n].ranks) = PerNode
    <3>1. ClaimList(claims, WorldSize - 1) /\ NodesUniform(claims)
      BY <2>1, RequestIsClaimList DEF FrozenClaims
    <3>2. PerNode = ((WorldSize - 1) + 1) \div Cardinality(NodesOf(claims))
      BY RanksFromZero DEF PerNode, NNodes
    <3>3. Cardinality(On(claims, n)) = PerNode
      BY <2>1, <3>1, <3>2, RanksFromZero, NodeGrid
    <3>4. QED
      BY <2>3, <3>3
  <2>6. QED
    BY <2>4, <2>5
<1>2. IInv => LayoutExact
  BY <1>1 DEF LayoutExact
<1>3. QED
  BY <1>2, Invariance, PTL

=============================================================================
