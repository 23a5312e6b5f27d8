---------------------------- MODULE ClaimContract ----------------------------
(***************************************************************************)
(* The path of one create request through its checks: the manager freezes  *)
(* the claims (_validate_create_spec), the replica rebuilds the layout and *)
(* checks the placement (init_from_lease up to its first await).  The      *)
(* checks are those of ClaimChecks.  A claim names a slot, which stands    *)
(* for a placement group bundle and the device and node the claim says it  *)
(* is on.                                                                  *)
(***************************************************************************)
EXTENDS ClaimChecks

CONSTANTS
  WorldSize,     \* world_size of the request, and number of its claims
  Slots,         \* bundles a claim may name
  Nodes,
  NodeOf,        \* [Slots -> Nodes]: node_id in a claim on a slot
  DeviceOf,      \* gpu_uuid in a claim on a slot; two bundles may name one device
  RankLists,     \* rank fields of the claims, in list order
  NodeRanks,     \* node_rank values a claim may carry
  LocalRanks,    \* local_rank values a claim may carry
  GpuShares,     \* gpu_fraction of every claim, in parts of FullShare
  FullShare,     \* one device
  CpuRequest,    \* cpu_request of every claim
  MaxColocate,   \* max_colocate_count, the CPUs of a bundle
  EngineSizes    \* TP * DP * PP of the request

Ranks == 0 .. (WorldSize - 1)

ASSUME WorldSizeAssumption == WorldSize \in Nat \ {0}
ASSUME SlotAssumption == \A s \in Slots : NodeOf[s] \in Nodes
ASSUME RankListAssumption ==
  /\ RankLists \subseteq [Ranks -> Nat]
  /\ NodeRanks \subseteq Nat
  /\ LocalRanks \subseteq Nat
ASSUME ShareAssumption == GpuShares \subseteq 1 .. FullShare /\ CpuRequest \in 1 .. MaxColocate

VARIABLES
  claims,     \* the claim list; sorted by rank once the manager has frozen it
  share,      \* gpu_fraction
  engine,     \* parallelism product
  stage,      \* how far the request has come
  layout      \* node_layout of the replica: [node -> node_rank and ranks]

vars == <<claims, share, engine, stage, layout>>

Claim(slot, node_rank, local_rank, rank) ==
  [slot |-> slot, node |-> NodeOf[slot], device |-> DeviceOf[slot],
   node_rank |-> node_rank, local_rank |-> local_rank, rank |-> rank]

Needs == {<<share, FullShare>>, <<CpuRequest, MaxColocate>>}

-----------------------------------------------------------------------------
Init ==
  /\ \E slot \in [Ranks -> Slots], node_rank \in [Ranks -> NodeRanks],
        local_rank \in [Ranks -> LocalRanks], rank \in RankLists :
       claims = [i \in Ranks |-> Claim(slot[i], node_rank[i], local_rank[i], rank[i])]
  /\ share \in GpuShares
  /\ engine \in EngineSizes
  /\ stage = "submitted"
  /\ layout = [n \in {} |-> {}]

Freeze ==
  /\ stage = "submitted"
  /\ ManagerAccepts(claims, Needs, engine)
  /\ claims' = ByRank(claims)
  /\ stage' = "frozen"
  /\ UNCHANGED <<share, engine, layout>>

(* The manager raises: on these checks, or on one this module leaves out (a
   missing string, an expired lease). *)
Refuse ==
  /\ stage = "submitted"
  /\ stage' = "refused"
  /\ UNCHANGED <<claims, share, engine, layout>>

Place ==
  /\ stage = "frozen"
  /\ ReplicaAccepts(claims, engine)
  /\ layout' = NodeLayout(claims)
  /\ stage' = "placed"
  /\ UNCHANGED <<claims, share, engine>>

(* init_from_lease raises: on these checks, or because the lease expired or a
   placement group is not visible.  The layout is kept as soon as it is built,
   before the placement checks. *)
Fail ==
  /\ stage = "frozen"
  /\ layout' = IF LayoutAccepts(claims) THEN NodeLayout(claims) ELSE layout
  /\ stage' = "failed"
  /\ UNCHANGED <<claims, share, engine>>

Next == Freeze \/ Refuse \/ Place \/ Fail

Spec == Init /\ [][Next]_vars

-----------------------------------------------------------------------------
NNodes == Cardinality(NodesOf(claims))
PerNode == WorldSize \div NNodes               \* gpus_per_replica_node

(* Types; a layout only speaks of ranks of the request. *)
TypeOK ==
  /\ DOMAIN claims = Ranks
  /\ \A i \in Ranks :
       LET c == claims[i]
       IN /\ c = Claim(c.slot, c.node_rank, c.local_rank, c.rank)
          /\ c.slot \in Slots /\ c.node_rank \in NodeRanks
          /\ c.local_rank \in LocalRanks /\ c.rank \in Nat
  /\ stage \in {"submitted", "refused", "frozen", "placed", "failed"}
  /\ DOMAIN layout \subseteq Nodes
  /\ \A n \in DOMAIN layout : layout[n].node_rank \in NodeRanks /\ layout[n].ranks \subseteq Ranks

(* What launch_servers and validate_runtime count on: claim r of a placed
   request is local rank r % L of node r \div L, and the L claims that server i
   takes are on one node, where no other server is. *)
RankGrid ==
  stage = "placed" =>
    \A r \in Ranks :
      /\ claims[r].node_rank = r \div PerNode
      /\ claims[r].local_rank = r % PerNode
      /\ claims[r].node = claims[(r \div PerNode) * PerNode].node

(* The layout a replica keeps names the node rank every claim of a node has,
   and deals the ranks out evenly: each rank to one node, as many to each. *)
LayoutExact ==
  DOMAIN layout # {} =>
    /\ \A r \in Ranks :
         /\ layout[claims[r].node].node_rank = claims[r].node_rank
         /\ {n \in DOMAIN layout : r \in layout[n].ranks} = {claims[r].node}
    /\ \A n \in DOMAIN layout : Cardinality(layout[n].ranks) = PerNode
=============================================================================
