----------------------------- MODULE ClaimChecks -----------------------------
(***************************************************************************)
(* The checks a claim list goes through, as operators on a list indexed    *)
(* from 0: the manager's (_validate_create_spec) and the replica's         *)
(* (_validate_claim_layout and validate_placement).  No single function    *)
(* requires what the engine start relies on, that claim r sits at local    *)
(* rank r % L of node r \div L: each of the two layers checks a part.      *)
(*                                                                         *)
(* A claim has the fields slot (its placement group bundle), node, device, *)
(* node_rank, local_rank and rank.                                         *)
(***************************************************************************)
EXTENDS Integers, FiniteSets

Device(c) == <<c.node, c.device>>

(* Claims of a list on a node, and the nodes of a list. *)
On(list, node) == {i \in DOMAIN list : list[i].node = node}
NodesOf(list) == {list[i].node : i \in DOMAIN list}
NodeRanksOf(list) == {list[i].node_rank : i \in DOMAIN list}
Contiguous(values) == values = 0 .. (Cardinality(values) - 1)

-----------------------------------------------------------------------------
(* The manager: _validate_create_spec *)

RanksContiguous(list) == {list[i].rank : i \in DOMAIN list} = DOMAIN list

(* needs holds, for each resource of a bundle (share of its device, CPUs), what
   every claim asks for and what the bundle has. *)
BundlesFit(list, needs) ==
  \A need \in needs, i \in DOMAIN list :
    need[1] * Cardinality({j \in DOMAIN list : list[j].slot = list[i].slot}) <= need[2]

(* MUTANT: the loop that looks for a node with two node ranks is missing. *)
NodeRanksUniqueOnly(list) ==
  Contiguous(NodeRanksOf(list))

(* One node rank per node and one node per node rank. *)
NodeRanksMatchNodes(list) ==
  /\ Contiguous(NodeRanksOf(list))
  /\ \A i, j \in DOMAIN list :
       list[i].node = list[j].node <=> list[i].node_rank = list[j].node_rank

UniformNodes(list) ==
  \A m, n \in NodesOf(list) : Cardinality(On(list, m)) = Cardinality(On(list, n))

LocalRanksContiguous(list) ==
  \A n \in NodesOf(list) :
    {list[i].local_rank : i \in On(list, n)} = 0 .. (Cardinality(On(list, n)) - 1)

(* size is the TP * DP * PP of the request. *)
ManagerAccepts(list, needs, size) ==
  /\ RanksContiguous(list)
  /\ BundlesFit(list, needs)
  /\ NodeRanksMatchNodes(list)
  /\ UniformNodes(list)
  /\ LocalRanksContiguous(list)
  /\ size = Cardinality(DOMAIN list)

(* The frozen claims, in rank order. *)
ByRank(list) ==
  [r \in DOMAIN list |-> CHOOSE c \in {list[i] : i \in DOMAIN list} : c.rank = r]

-----------------------------------------------------------------------------
(* The replica: _validate_claim_layout and validate_placement *)

(* MUTANT: claims need not be in node order. *)
KeysAnyOrder(list) == TRUE

KeysSorted(list) ==
  \A i, j \in DOMAIN list : i < j =>
    \/ list[i].node_rank < list[j].node_rank
    \/ list[i].node_rank = list[j].node_rank /\ list[i].local_rank <= list[j].local_rank

(* The dictionary node_id -> node_rank: the last claim of a node wins. *)
NodeIds(list) ==
  [n \in NodesOf(list) |->
     list[CHOOSE i \in On(list, n) : \A j \in On(list, n) : j <= i].node_rank]

(* Claims per node rank, of the node ranks that are in the dictionary. *)
UniformNodeRanks(list) ==
  LET count(k) == Cardinality({i \in DOMAIN list : list[i].node_rank = k})
  IN \A m, n \in NodesOf(list) : count(NodeIds(list)[m]) = count(NodeIds(list)[n])

LayoutAccepts(list) ==
  /\ RanksContiguous(list)
  /\ KeysSorted(ByRank(list))
  /\ Contiguous(NodeRanksOf(list))
  /\ Cardinality(NodesOf(list)) = Cardinality(NodeRanksOf(list))
  /\ UniformNodeRanks(ByRank(list))

(* MUTANT: ranks counted from one. *)
NodeLayoutFromOne(list) ==
  [n \in NodesOf(list) |->
     [node_rank |-> NodeIds(list)[n], ranks |-> {list[i].rank + 1 : i \in On(list, n)}]]

NodeLayout(list) ==
  [n \in NodesOf(list) |->
     [node_rank |-> NodeIds(list)[n], ranks |-> {list[i].rank : i \in On(list, n)}]]

(* One engine must not count a device or a bundle twice. *)
PlacesDistinct(list) ==
  \A i, j \in DOMAIN list :
    list[i].slot = list[j].slot \/ Device(list[i]) = Device(list[j]) => i = j

ReplicaAccepts(list, size) ==
  /\ LayoutAccepts(list)
  /\ size = Cardinality(DOMAIN list)
  /\ size % Cardinality(NodeRanksOf(list)) = 0
  /\ PlacesDistinct(list)
=============================================================================
