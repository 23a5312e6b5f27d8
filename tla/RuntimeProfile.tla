--------------------------- MODULE RuntimeProfile ----------------------------
(***************************************************************************)
(* The configuration gate (runtime_profile.py) and the two settings the    *)
(* rollout side reads on its own.  A configuration is a prefix-closed tree *)
(* given as a function from paths to values: a path is a tuple of keys,    *)
(* <<>> is the root, an interior node has the value Mapping.  Values carry     *)
(* their Python type, because the gate compares types as well as values.   *)
(***************************************************************************)
EXTENDS Integers, Sequences

Mapping == <<"map">>
PyNone == <<"null">>
PyBool(b) == <<"bool", b>>
PyInt(n) == <<"int", n>>
PyStr(s) == <<"str", s>>

Missing == <<"missing">>       \* no default given
Error == <<"error">>           \* ProfileConfigurationError

PROFILE_ID == PyStr("experimental_fully_async_standalone")
Rollout == <<"actor_rollout_ref", "rollout">>

(* MUTANT: the default stands for whatever cannot be followed. *)
SelectOrDefault(config, path, default) ==
  IF path \in DOMAIN config THEN config[path]
  ELSE IF default = Missing THEN Error ELSE default

(* A default (always None where there is one) stands for a missing key or
   parent, never for a parent that is there and is not a mapping. *)
Select(config, path, default) ==
  IF path \in DOMAIN config THEN config[path]
  ELSE LET stop == CHOOSE n \in 0 .. Len(path) - 1 :      \* last key that is there
                     /\ SubSeq(path, 1, n) \in DOMAIN config
                     /\ SubSeq(path, 1, n + 1) \notin DOMAIN config
       IN IF default # Missing /\ config[SubSeq(path, 1, stop)] \in {Mapping, PyNone}
          THEN default
          ELSE Error

Keys(config, path) ==
  {p[Len(p)] : p \in {q \in DOMAIN config : Len(q) = Len(path) + 1
                                            /\ SubSeq(q, 1, Len(path)) = path}}

-----------------------------------------------------------------------------
(* validate_runtime_profile, one operator per group of checks *)

Pinned ==
  {<< <<"actor_rollout_ref", "hybrid_engine">>, PyBool(FALSE) >>,
   << <<"async_training", "use_trainer_do_validate">>, PyBool(FALSE) >>,
   << <<"async_training", "use_dynamic_resource_scheduling">>, PyBool(FALSE) >>,
   << Rollout \o <<"mode">>, PyStr("async") >>,
   << Rollout \o <<"name">>, PyStr("vllm") >>,
   << Rollout \o <<"calculate_log_probs">>, PyBool(TRUE) >>,
   << <<"data", "train_batch_size">>, PyInt(0) >>,
   << <<"data", "gen_batch_size">>, PyInt(1) >>}

PinnedMatch(config) == \A p \in Pinned : Select(config, p[1], Missing) = p[2]

NotDisaggregated(config) ==
  LET path == Rollout \o <<"disaggregation">>
  IN \/ Select(config, path, PyNone) = PyNone
     \/ /\ Select(config, path, PyNone) = Mapping
        /\ LET enabled == path \o <<"enabled">>
           IN enabled \in DOMAIN config => config[enabled] = PyBool(FALSE)

(* PyStr("") stands for every blank string. *)
BackendNamed(config) ==
  LET backend == Select(config, Rollout \o <<"checkpoint_engine", "backend">>, Missing)
  IN backend[1] = "str" /\ backend \notin {PyStr(""), PyStr("naive")}

PositiveInt(value) == value[1] = "int" /\ value[2] > 0

SizeFields == {"nnodes", "n_gpus_per_node", "tensor_model_parallel_size",
               "data_parallel_size", "pipeline_model_parallel_size"}
Size(config, field) == config[Rollout \o <<field>>][2]

SizesPositive(config) ==
  \A f \in SizeFields : PositiveInt(Select(config, Rollout \o <<f>>, Missing))

PoolMapped(config) ==
  \A f \in {"nnodes", "n_gpus_per_node"} :
    Select(config, <<"rollout", f>>, Missing) = PyInt(Size(config, f))

ReplicaGpus(config) ==
  Size(config, "tensor_model_parallel_size") * Size(config, "data_parallel_size")
  * Size(config, "pipeline_model_parallel_size")
PoolGpus(config) == Size(config, "nnodes") * Size(config, "n_gpus_per_node")

(* MUTANT: the last check is missing. *)
FitsAnyway(config) == TRUE

FitsOneReplica(config) == PoolGpus(config) >= ReplicaGpus(config)

Supported(config) ==
  /\ Keys(config, <<"multitask", "runtime">>) = {"profile"}
  /\ Select(config, <<"multitask", "rollout_deployment">>, PyNone) = PyNone
  /\ PinnedMatch(config)
  /\ NotDisaggregated(config)
  /\ BackendNamed(config)
  /\ SizesPositive(config)
  /\ PoolMapped(config)
  /\ FitsOneReplica(config)

(* The actor classes a run uses: resolve_runtime_profile returns the extended
   root class or None, or the configuration is refused. *)
resolve_runtime_profile(config) ==
  LET profile == Select(config, <<"multitask", "runtime", "profile">>, PyNone)
  IN IF config[<<>>] # Mapping THEN "refused"
     ELSE IF profile = PyNone THEN "native"
     ELSE IF profile = PROFILE_ID /\ Supported(config) THEN "multitask"
     ELSE "refused"

-----------------------------------------------------------------------------
(* Settings read after the gate *)

(* Python's bool() of a value, PyStr("") and PyInt(0) being the falsy ones. *)
Truthy(value) == value \notin {PyNone, PyBool(FALSE), PyInt(0), PyStr("")}

Get(config, path, default) == IF path \in DOMAIN config THEN config[path] ELSE default

(* MultiTaskLLMServerManager._read_max_colocate_count raises otherwise. *)
ColocateCountOK(config) ==
  LET value == Get(config, Rollout \o <<"max_colocate_count">>, PyNone)
  IN value = PyNone \/ PositiveInt(value)

(* MultiTaskFullyAsyncRollouter._maybe_run_d2_runtime_smoke: a section that is
   there and not a mapping has no get. *)
D2Section == <<"multitask", "d2_runtime_test">>
D2SectionReadable(config) == Get(config, D2Section, Mapping) = Mapping
D2Enabled(config) == Truthy(Get(config, D2Section \o <<"enabled">>, PyBool(FALSE)))
ScenarioName(config) ==                    \* str() of anything else names no scenario
  LET value == Get(config, D2Section \o <<"scenario">>, PyStr("split"))
  IN IF value[1] = "str" THEN value[2] ELSE "other"
D2Cleanup(config) == Truthy(Get(config, D2Section \o <<"cleanup_after_test">>, PyBool(TRUE)))
=============================================================================
