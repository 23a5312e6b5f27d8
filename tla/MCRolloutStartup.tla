-------------------------- MODULE MCRolloutStartup ---------------------------
(* Supported configurations of small pools with every smoke scenario, and one
   of them with every setting replaced by every other value or removed. *)
EXTENDS RolloutStartup, TLC

Interior == {<<>>, <<"multitask">>, <<"multitask", "runtime">>, <<"actor_rollout_ref">>,
             Rollout, Rollout \o <<"checkpoint_engine">>, Rollout \o <<"disaggregation">>,
             <<"async_training">>, <<"data">>, <<"rollout">>}

(* A supported configuration of n nodes of g devices with replicas of t * d. *)
Supports(n, g, t, d) ==
  [p \in Interior |-> Mapping]
  @@ [p \in {pin[1] : pin \in Pinned} |-> (CHOOSE pin \in Pinned : pin[1] = p)[2]]
  @@ (<<"multitask", "runtime", "profile">> :> PROFILE_ID)
  @@ (Rollout \o <<"checkpoint_engine", "backend">> :> PyStr("nccl"))
  @@ (Rollout \o <<"nnodes">> :> PyInt(n)) @@ (<<"rollout", "nnodes">> :> PyInt(n))
  @@ (Rollout \o <<"n_gpus_per_node">> :> PyInt(g))
  @@ (<<"rollout", "n_gpus_per_node">> :> PyInt(g))
  @@ (Rollout \o <<"tensor_model_parallel_size">> :> PyInt(t))
  @@ (Rollout \o <<"data_parallel_size">> :> PyInt(d))
  @@ (Rollout \o <<"pipeline_model_parallel_size">> :> PyInt(1))

Smoke(c, scenario, cleanup) ==
  c @@ (D2Section :> Mapping) @@ (D2Section \o <<"enabled">> :> PyBool(TRUE))
  @@ (D2Section \o <<"scenario">> :> PyStr(scenario))
  @@ (D2Section \o <<"cleanup_after_test">> :> PyBool(cleanup))

Pools == {<<1, 4, 4, 1>>, <<1, 4, 2, 1>>, <<1, 3, 3, 1>>, <<2, 2, 2, 2>>, <<2, 2, 2, 1>>,
          <<2, 3, 3, 2>>, <<3, 2, 3, 2>>, <<4, 1, 2, 2>>, <<4, 1, 2, 1>>, <<2, 2, 1, 1>>,
          <<2, 3, 4, 1>>}

(* Settings and what may stand in their place; a value takes the place of a
   section with all that is below it. *)
Paths == DOMAIN Supports(1, 2, 2, 1) \cup
  {<<"multitask", "rollout_deployment">>, <<"multitask", "runtime", "rollouter">>, D2Section,
   Rollout \o <<"disaggregation", "enabled">>, Rollout \o <<"max_colocate_count">>}
Values == {PyNone, PyBool(FALSE), PyBool(TRUE), PyInt(0), PyInt(1), PyInt(4), PyStr(""), PyStr("naive")}

Below(path) == {p \in Paths : Len(p) > Len(path) /\ SubSeq(p, 1, Len(path)) = path}
Without(c, path) ==
  [p \in DOMAIN c \ (Below(path) \cup {path}) |-> c[p]]
Edited(c) ==
  {Without(c, path) : path \in Paths \ {<<>>}}
  \cup {(path :> value) @@ Without(c, path) : path \in Paths, value \in Values}

MCConfigs ==
  {Smoke(Supports(p[1], p[2], p[3], p[4]), s, b) :
     p \in Pools, s \in Scenarios \cup {"other"}, b \in BOOLEAN}
  \cup Edited(Supports(1, 2, 2, 1))
=============================================================================
