--------------------------- MODULE RolloutStartup ----------------------------
(***************************************************************************)
(* The start of one extended run, from its configuration to the checkpoint *)
(* manager: the profile selects the actor classes, the TaskRunner creates  *)
(* the trainer and the rollouter, the rollouter creates the server manager *)
(* (native replicas and load balancer), runs the opt-in D2 smoke and       *)
(* creates the agent loop, the trainer connects the checkpoint manager.    *)
(* The order of the steps is the native TaskRunner's.  A step that raises  *)
(* ends the run; what follows its failure is in GroupSchedule.             *)
(***************************************************************************)
EXTENDS RuntimeProfile, D2Scenarios

CONSTANT Configs     \* configurations a run may be started with

(* They are the trees RuntimeProfile speaks of: what a path leads through is
   there and a mapping, and a value that is tagged "int" holds an integer. *)
ASSUME ConfigAssumption ==
  \A c \in Configs :
    /\ <<>> \in DOMAIN c
    /\ \A p \in DOMAIN c :
         /\ p # <<>> => /\ SubSeq(p, 1, Len(p) - 1) \in DOMAIN c
                        /\ c[SubSeq(p, 1, Len(p) - 1)] = Mapping
         /\ c[p][1] = "int" => c[p][2] \in Int

NoRequest == [claims |-> <<>>, expired |-> FALSE]
Stages == {"config", "trainer", "servers", "smoke", "submit", "create", "judge",
           "agents", "connect", "running", "native", "refused", "failed"}

VARIABLES
  config,
  stage,       \* the step that comes next, or how the start ended
  natives,     \* rollout_replicas of the manager, by replica rank
  request,     \* the D2 create request
  record,      \* state of its record in borrowed_operations
  runtime,     \* its actors
  verdict      \* status the smoke returns

vars == <<config, stage, natives, request, record, runtime, verdict>>
smokeVars == <<request, record, runtime, verdict>>

-----------------------------------------------------------------------------
(* Native replicas: as many as the pool has devices for, each on one placement
   group per node, of one bundle per device.  The pool is nnodes nodes of
   n_gpus_per_node devices.  The native worker group may take the groups of a
   replica in another order than the pool lists them. *)

PerNode(c) ==            \* gpus_per_replica_node
  IF ReplicaGpus(c) < Size(c, "n_gpus_per_node") THEN ReplicaGpus(c)
  ELSE Size(c, "n_gpus_per_node")

Groups(c) ==
  [node : 1 .. Size(c, "nnodes"),
   first : {d \in 0 .. Size(c, "n_gpus_per_node") - PerNode(c) : d % PerNode(c) = 0}]

Orders(n) == {f \in [0 .. n - 1 -> 0 .. n - 1] : \A i, j \in 0 .. n - 1 : f[i] = f[j] => i = j}

NativeReplicas(c) ==
  LET n == ReplicaGpus(c) \div PerNode(c)
  IN {r \in [group : [0 .. n - 1 -> Groups(c)], order : Orders(n)] :
        \A i, j \in 0 .. n - 1 : r.group[i].node = r.group[j].node => i = j}

Arrangements(c) ==
  IF ReplicaGpus(c) % PerNode(c) # 0 THEN {}
  ELSE LET ranks == 0 .. PoolGpus(c) \div ReplicaGpus(c) - 1
       IN {a \in [ranks -> NativeReplicas(c)] :
             \A i, j \in ranks : \A k \in DOMAIN a[i].group, l \in DOMAIN a[j].group :
               a[i].group[k] = a[j].group[l] => i = j}

(* Where a bundle is. *)
At(slot) == Bundle(natives[slot[1]].group[slot[2]], slot[3])

-----------------------------------------------------------------------------
(* _validate_workers of the borrowed replica, on the places its workers have *)

(* MUTANT: the node of a worker is not compared. *)
WorkersOnSomeNode(claims) ==
  /\ \A i \in DOMAIN claims :
       At(claims[i].slot).device \in {claims[i].device, claims[i].local_gpu_index}
  /\ Cardinality({At(claims[i].slot) : i \in DOMAIN claims}) = Cardinality(DOMAIN claims)

(* A worker may report the accelerator of its claim or the claim's local index. *)
WorkersInPlace(claims) ==
  /\ \A i \in DOMAIN claims :
       /\ At(claims[i].slot).node = claims[i].node
       /\ At(claims[i].slot).device \in {claims[i].device, claims[i].local_gpu_index}
  /\ Cardinality({At(claims[i].slot) : i \in DOMAIN claims}) = Cardinality(DOMAIN claims)

-----------------------------------------------------------------------------
Init ==
  /\ config \in Configs
  /\ stage = "config"
  /\ natives = <<>>
  /\ request = NoRequest
  /\ record = "none"
  /\ runtime = "none"
  /\ verdict = "none"

ResolveProfile ==
  /\ stage = "config"
  /\ stage' = CASE resolve_runtime_profile(config) = "multitask" -> "trainer"
                [] resolve_runtime_profile(config) = "native" -> "native"
                [] OTHER -> "refused"
  /\ UNCHANGED <<config, natives, smokeVars>>

CreateTrainer ==
  /\ stage = "trainer"
  /\ stage' = "servers"
  /\ UNCHANGED <<config, natives, smokeVars>>

(* _create_rollouter, up to the manager: its native replicas, then the load
   balancer with their servers. *)
CreateServers ==
  /\ stage = "servers"
  /\ Select(config, Rollout \o <<"mode">>, Missing) = PyStr("async")
  /\ ColocateCountOK(config)
  /\ natives' \in Arrangements(config)
  /\ stage' = "smoke"
  /\ UNCHANGED <<config, smokeVars>>

SkipSmoke ==
  /\ stage = "smoke"
  /\ D2SectionReadable(config)
  /\ ~D2Enabled(config)
  /\ stage' = "agents"
  /\ UNCHANGED <<config, natives, smokeVars>>

BuildRequest ==
  /\ stage = "smoke"
  /\ D2SectionReadable(config)
  /\ D2Enabled(config)
  /\ Buildable(ScenarioName(config), natives, PerNode(config))
  /\ request' = [claims |-> Claims(ScenarioName(config), natives, PerNode(config)),
                 expired |-> ScenarioName(config) = "expired"]
  /\ stage' = "submit"
  /\ UNCHANGED <<config, natives, record, runtime, verdict>>

(* Each claim asks for half a device, and for one CPU of the two that
   max_colocate_count allows a bundle. *)
HalfAndOne == {<<1, 2>>}
Accepted ==
  /\ ~request.expired
  /\ ManagerAccepts(request.claims, HalfAndOne, Cardinality(DOMAIN request.claims))

Submit ==
  /\ stage = "submit"
  /\ Accepted
  /\ record' = "CREATING"
  /\ stage' = "create"
  /\ UNCHANGED <<config, natives, request, runtime, verdict>>

(* create_borrowed_replica raises before it has a record. *)
SubmitRaises ==
  /\ stage = "submit"
  /\ ~Accepted
  /\ IF ScenarioName(config) \in Failing
     THEN verdict' = "EXPECTED_FAILURE" /\ stage' = "agents"
     ELSE verdict' = verdict /\ stage' = "failed"
  /\ UNCHANGED <<config, natives, request, record, runtime>>

RuntimeReady ==
  /\ stage = "create"
  /\ ReplicaAccepts(request.claims, Cardinality(DOMAIN request.claims))
  /\ \A i \in DOMAIN request.claims : request.claims[i].named
  /\ WorkersInPlace(request.claims)
  /\ record' = "RUNTIME_READY"
  /\ runtime' = "up"
  /\ stage' = "judge"
  /\ UNCHANGED <<config, natives, request, verdict>>

(* A check above fails, or the creation does; what was created is killed. *)
RuntimeFailed ==
  /\ stage = "create"
  /\ record' = "FAILED"
  /\ runtime' = "killed"
  /\ stage' = "judge"
  /\ UNCHANGED <<config, natives, request, verdict>>

(* run_d2_runtime_smoke, from the receipt on. *)
Judge ==
  /\ stage = "judge"
  /\ CASE ScenarioName(config) \in Failing /\ record = "FAILED" ->
            verdict' = "EXPECTED_FAILURE" /\ stage' = "agents" /\ UNCHANGED runtime
       [] ScenarioName(config) \notin Failing /\ record = "RUNTIME_READY" ->
            /\ verdict' = "PASS"
            /\ stage' = "agents"
            /\ runtime' = IF D2Cleanup(config) THEN "killed" ELSE runtime
       [] OTHER -> stage' = "failed" /\ UNCHANGED <<verdict, runtime>>
  /\ UNCHANGED <<config, natives, request, record>>

CreateAgentLoop ==
  /\ stage = "agents"
  /\ stage' = "connect"
  /\ UNCHANGED <<config, natives, smokeVars>>

(* MultiTaskFullyAsyncTrainer._setup_checkpoint_manager *)
SetupCheckpointManager ==
  /\ stage = "connect"
  /\ stage' = "running"
  /\ UNCHANGED <<config, natives, smokeVars>>

(* A step raises: one of the conditions above does not hold, or native code
   does (no devices, a worker lost, a placement group without a name). *)
StartFails ==
  /\ stage \in {"trainer", "servers", "smoke", "agents", "connect"}
  /\ stage' = "failed"
  /\ UNCHANGED <<config, natives, smokeVars>>

Next ==
  \/ ResolveProfile \/ CreateTrainer \/ CreateServers
  \/ SkipSmoke \/ BuildRequest \/ Submit \/ SubmitRaises
  \/ RuntimeReady \/ RuntimeFailed \/ Judge
  \/ CreateAgentLoop \/ SetupCheckpointManager \/ StartFails

Spec == Init /\ [][Next]_vars

-----------------------------------------------------------------------------
(* Types; the claims of a request are ranked from zero. *)
TypeOK ==
  /\ stage \in Stages
  /\ \A i \in DOMAIN request.claims :
       LET c == request.claims[i]
       IN {c.rank, c.node_rank, c.local_rank} \subseteq DOMAIN request.claims
  /\ record \in {"none", "CREATING", "RUNTIME_READY", "FAILED"}
  /\ runtime \in {"none", "up", "killed"}
  /\ verdict \in {"none", "PASS", "EXPECTED_FAILURE"}

(* A run falls back to the native classes only when nothing but an absent or
   empty setting is on the way to the profile: a mistyped section stops the run
   (resolve_runtime_profile). *)
NeverSilentlyNative ==
  stage = "native" =>
    \A n \in 0 .. 3 :
      LET path == SubSeq(<<"multitask", "runtime", "profile">>, 1, n)
      IN path \in DOMAIN config => config[path] \in IF n = 3 THEN {PyNone} ELSE {Mapping, PyNone}

(* What the gate accepts is enough for the rollouter: its assertion on the mode
   holds, and a manager that starts has a replica to serve with. *)
GateSuffices ==
  /\ stage = "servers" => Select(config, Rollout \o <<"mode">>, Missing) = PyStr("async")
  /\ stage \in {"smoke", "running"} => natives # <<>>

(* A scenario that is to fail never gets a runtime, whatever the replicas it was
   built from; the smoke's verdict says what became of the record; and training
   only starts beside a borrowed runtime when the smoke was told to leave it. *)
VerdictTrue ==
  /\ ScenarioName(config) \in Failing => record # "RUNTIME_READY"
  /\ verdict = "PASS" => record = "RUNTIME_READY"
  /\ stage = "running" =>
       /\ D2Enabled(config) => verdict # "none"
       /\ runtime = "up" => ~D2Cleanup(config)

(* The claims a scenario builds for an unspoiled placement are what the manager
   and the replica ask for, unless its selection takes more workers of one node
   than of another (_reindex_test_claims); and where the worker groups took the
   placement groups in the pool's order, the borrowed workers are where the
   claims say. *)
GroupsInOrder == \A r \in DOMAIN natives : \A k \in DOMAIN natives[r].order : natives[r].order[k] = k
RefusedOnlyIfUneven ==
  stage = "submit" /\ ScenarioName(config) \notin Failing /\ UniformNodes(request.claims) =>
    /\ Accepted
    /\ ReplicaAccepts(ByRank(request.claims), Cardinality(DOMAIN request.claims))
    /\ GroupsInOrder => WorkersInPlace(request.claims)

(* The workers of a ready runtime are on the node and the device of their
   claims, one device each, even when the snapshot joined a worker with another
   worker's placement group. *)
ReadyIsPlaced ==
  record = "RUNTIME_READY" =>
    \A i, j \in DOMAIN request.claims :
      LET c == request.claims[i]
      IN /\ At(c.slot) = [node |-> c.node, device |-> c.device]
         /\ At(c.slot) = At(request.claims[j].slot) => i = j

=============================================================================
