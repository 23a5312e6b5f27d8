----------------------------- MODULE D2Scenarios -----------------------------
(***************************************************************************)
(* How the D2 smoke builds a create request: claims read back from the     *)
(* workers of the initialized native replicas (_snapshot_native_claims), a *)
(* selection per scenario (_build_d2_test_spec) and new ranks for the      *)
(* borrower (_reindex_test_claims).  Lists are indexed from 0.             *)
(*                                                                         *)
(* A native replica is a record: group[k] is placement group k of its      *)
(* pool, [node, first] when it holds the devices first, first + 1, ... of  *)
(* a node, one per bundle; order[j] is the group its j-th run of workers   *)
(* was created in.                                                         *)
(***************************************************************************)
EXTENDS ClaimChecks

Bundle(group, b) == [node |-> group.node, device |-> group.first + b]

(* Worker k reports its node and its accelerator; each group has perNode of them. *)
Worker(native, perNode, k) ==
  Bundle(native.group[native.order[k \div perNode]], k % perNode)

(* Position of a node by first appearance, and items of the same node before i. *)
NodeOrder(list, i) ==
  LET first == CHOOSE j \in On(list, list[i].node) :
                 \A k \in On(list, list[i].node) : j <= k
  IN Cardinality({list[j].node : j \in 0 .. first - 1})
EarlierOnNode(list, i) == Cardinality({j \in On(list, list[i].node) : j < i})

(* The claim of rank k joins what worker k reports and the group the pool lists
   at position k \div perNode.  The field named tells whether the name it gives
   finds a placement group; rank is the donor's until the claims are reindexed. *)
Snapshot(replica, native, perNode) ==
  LET n == perNode * Cardinality(DOMAIN native.group)
      workers == [k \in 0 .. n - 1 |-> Worker(native, perNode, k)]
  IN [k \in 0 .. n - 1 |->
        [slot |-> <<replica, k \div perNode, k % perNode>>,
         named |-> TRUE,
         node |-> workers[k].node,
         device |-> workers[k].device,
         local_gpu_index |-> EarlierOnNode(workers, k),
         node_rank |-> NodeOrder(workers, k),
         local_rank |-> EarlierOnNode(workers, k),
         rank |-> k]]

-----------------------------------------------------------------------------
Failing == {"missing_pg", "duplicate_device", "expired"}
Scenarios == {"basic", "split", "fragmented", "cross_pg"} \cup Failing

(* What a scenario needs: workers of the first replica, and replicas. *)
Buildable(scenario, natives, perNode) ==
  /\ DOMAIN natives # {}
  /\ scenario \in Scenarios
  /\ LET workers == perNode * Cardinality(DOMAIN natives[0].group)
     IN CASE scenario = "basic" -> TRUE
          [] scenario = "fragmented" -> workers >= 3
          [] scenario = "cross_pg" -> Cardinality(DOMAIN natives) >= 2
          [] OTHER -> workers >= 2

Prefix(list, n) == [i \in 0 .. n - 1 |-> list[i]]

Selected(scenario, natives, perNode) ==
  LET source == Snapshot(0, natives[0], perNode)
      n == Cardinality(DOMAIN source)
  IN CASE scenario = "basic" -> source
       [] scenario = "split" -> Prefix(source, n \div 2)
       [] scenario = "fragmented" -> [i \in 0 .. (n + 1) \div 2 - 1 |-> source[2 * i]]
       [] scenario = "cross_pg" -> [i \in 0 .. 1 |-> Snapshot(i, natives[i], perNode)[0]]
       [] OTHER -> Prefix(source, 2)

(* MUTANT: the second claim keeps its node. *)
SpoiledDeviceOnly(scenario, list) ==
  CASE scenario = "missing_pg" -> [list EXCEPT ![0].named = FALSE]
    [] scenario = "duplicate_device" -> [list EXCEPT ![1].device = list[0].device]
    [] OTHER -> list

Spoiled(scenario, list) ==
  CASE scenario = "missing_pg" -> [list EXCEPT ![0].named = FALSE]
    [] scenario = "duplicate_device" ->
         [list EXCEPT ![1].node = list[0].node, ![1].device = list[0].device]
    [] OTHER -> list

(* Claims sorted by node, in order of appearance, then by the donor's local
   rank; Python's sort is stable. *)
Before(list, i, j) ==
  LET m == NodeOrder(list, i)
      n == NodeOrder(list, j)
  IN \/ m < n
     \/ m = n /\ list[i].local_rank < list[j].local_rank
     \/ m = n /\ list[i].local_rank = list[j].local_rank /\ i < j
Position(list, i) == Cardinality({j \in DOMAIN list : Before(list, j, i)})

Sorted(list) ==
  [r \in DOMAIN list |-> list[CHOOSE i \in DOMAIN list : Position(list, i) = r]]

(* MUTANT: the claims keep the donor's node rank. *)
ReindexKeepingNodeRanks(list) ==
  LET ordered == Sorted(list)
  IN [r \in DOMAIN list |->
        [ordered[r] EXCEPT !.rank = r, !.local_rank = EarlierOnNode(ordered, r)]]

(* MUTANT: the ranks start at one. *)
ReindexFromOne(list) ==
  LET ordered == Sorted(list)
  IN [r \in DOMAIN list |->
        [ordered[r] EXCEPT !.rank = r + 1, !.node_rank = NodeOrder(ordered, r),
                           !.local_rank = EarlierOnNode(ordered, r)]]

Reindex(list) ==
  LET ordered == Sorted(list)
  IN [r \in DOMAIN list |->
        [ordered[r] EXCEPT !.rank = r, !.node_rank = NodeOrder(ordered, r),
                           !.local_rank = EarlierOnNode(ordered, r)]]

Claims(scenario, natives, perNode) ==
  Reindex(Spoiled(scenario, Selected(scenario, natives, perNode)))
=============================================================================
