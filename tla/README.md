# A TLA+ model of multi_task_scheduler (verl_expansion)

`src/multi_task_scheduler` lets several RL training tasks on one Ray cluster
share rollout resources: a task can *borrow* bundles of other tasks' placement
groups and build a vLLM replica on them. This directory holds a specification of
that code, the instances TLC checks, and theorems checked by TLAPS. In this text
LSM is `integration/verl/experimental_fully_async/llm_server_manager.py`, REP is
`rollout/replica.py`, GS is `scheduler/group_scheduler.py`, DISC is
`scheduler/discovery.py`, RP is `integration/verl/runtime_profile.py`, and TR, RO
and TN are `task_runner.py`, `rollouter.py` and `trainer.py` in
`integration/verl/experimental_fully_async/`.

## 1. Inventory

| Component | State | Operations | Interaction | What makes it correct |
| --- | --- | --- | --- | --- |
| Borrowed-runtime manager (LSM) | `borrowed_operations` (lease → record), `next_replica_rank`, `retired_replica_ranks`, one `asyncio.Lock` | `create_borrowed_replica`, `reclaim_replica`, `retire_replica_rank` | called by many coroutines of one actor; awaits the replica outside the lock | ranks never reused, one runtime per lease, retries agree, records permanent |
| Claim contract (LSM 109-268, REP 61-151) | none (a request and a layout) | `_validate_create_spec`, `_validate_claim_layout`, `validate_placement` | the manager freezes, the replica checks again | what is accepted is a regular grid of ranks on distinct devices |
| Borrowed replica runtime (REP) | `runtime_state`, `workers`, `servers`, `cleanup_result` | `init_from_lease` and its parts | creates and kills Ray actors on bundles of others | no actor is forgotten; ready means complete, each actor having answered, and under lease; creation ends |
| Group scheduler (GS), discovery (DISC), attachment (TR 42-55) | `task_runners` of a named detached actor | `attach_task`, `detach_task`, discovery by name | remote calls with timeouts from many TaskRunners | a running task is in the map, an ended one leaves it, nobody hangs |
| D2 scenarios (LSM 438-635, RO 47-70) | none of their own | claim snapshots of native replicas, reindexing, one create call, cleanup | opt-in hook of the rollouter, between load balancer and agent loop | a scenario that should fail never becomes ready, the others are refused only for a reason; a ready runtime is where its claims say |
| Runtime profile (RP) | none | validation of a configuration, selection of the root class | first step of a run | never native classes by accident; what is accepted is enough to start |
| TaskRunner component creation (TR 57-98, RO 28-45, TN 30-37) | the actors and replicas created so far | trainer, rollouter, manager, hook, agent loop, checkpoint manager, in the native order | remote calls of one TaskRunner | an accepted configuration gets through; a step that raises ends the run |
| Load balancer, HTTP server, checkpoint engine subclasses, `ray_actor.py` | that of the native verl classes | construction, inherited methods | - | - |
| Shell scripts | - | start training and tests | - | - |

What is hard: create calls are suspended for minutes inside `init_from_lease`
while other calls retry, reclaim and retire the same lease and rank; exceptions,
the timeout of `wait_for` and cancellations arrive at any await; two replicas can
block one another on bundles; a lease can expire while its runtime starts; a
scheduler call that timed out is executed later; the scheduler or a TaskRunner
can die at any time; a request built from what native workers report relies on an
order of placement groups that native code chooses. `PROJECT.json` lists these hazards with their lines and the
properties that cover them.

## 2. Modules

| Module | Models | Used by |
| --- | --- | --- |
| `LeaseLedger` | abstract: a lease is granted at most one fresh rank and settled at most once | refined by `BorrowManager` |
| `BorrowManager` | the manager's table and its callers | `MCBorrowManager`, `BorrowManagerProofs`, `BorrowSystem` |
| `BorrowManagerProofs` | theorems about `BorrowManager` | |
| `ReplicaRuntime` | `init_from_lease` of several replicas over Ray | `MCReplicaRuntime`, `ReplicaRuntimeProofs`, `BorrowSystem` |
| `ReplicaRuntimeProofs` | theorems about `ReplicaRuntime` | |
| `BorrowSystem` | the manager and the replicas it builds, composed by `INSTANCE` | `MCBorrowSystem`, `BorrowSystemProofs` |
| `BorrowSystemProofs` | theorems about `BorrowSystem` | |
| `ClaimChecks` | the checks of a claim list, as operators | `ClaimContract`, `D2Scenarios` |
| `ClaimChecksProofs` | lemmas about these operators | `ClaimContractProofs`, `RolloutStartupProofs` |
| `ClaimContract` | one request through both layers of checks | `MCClaimContract`, `ClaimContractProofs` |
| `ClaimContractProofs` | theorems about `ClaimContract` | |
| `RuntimeProfile` | the configuration gate and the settings of hook and manager, as operators | `RolloutStartup` |
| `D2Scenarios` | how a D2 scenario turns native replicas into a request, as operators | `RolloutStartup` |
| `RolloutStartup` | the start of one run, from configuration to checkpoint manager | `MCRolloutStartup`, `RolloutStartupProofs` |
| `RolloutStartupProofs` | theorems about `RolloutStartup` | |
| `GroupSchedule` | scheduler, discovery, TaskRunners | `MCGroupSchedule`, `GroupScheduleProofs` |
| `GroupScheduleProofs` | theorems about `GroupSchedule` | |
| `Counting` | lemmas about least elements, division, counting and rank in an order | `BorrowManagerProofs`, `ClaimChecksProofs` |

### BorrowManager

The manager lives in one event loop, and no section under
`replica_operation_lock` contains an await, so validation plus section is one
atomic action. `borrowed_operations` maps a known lease to operation id, frozen
contract, rank and state; a *contract* stands for everything of the request that
`_same_request` compares. `running` holds the leases whose create call is
suspended in `init_from_lease`; `expired` the contracts whose `expires_at` has
passed; `told` is a history variable with every receipt given. The operation id
of a retry appears nowhere: the code neither compares it nor stores it, and the
receipt names that of the first call (D1_develop.md:116).

| Action | Code |
| --- | --- |
| `CreateNew` | LSM 345-378: new lease, unused operation id, rank allocated, record CREATING |
| `CreateRetry` | LSM 349-353: same request, stored or in-progress receipt |
| `RuntimeReady`, `RuntimeFailed` | LSM 403-436: the call resumes and stores its outcome |
| `CreateCancelled` | LSM 402: `CancelledError` passes `except Exception`, nothing is stored |
| `Reclaim`, `Retire` | LSM 637-674 |
| `Expire` | the wall clock (environment) |

A call that raises without changing the table is a stuttering step. Receipts of
`reclaim_replica` carry another error text than those of a retry; the text is
left out.

### ReplicaRuntime

A replica is a coroutine: what it does between two awaits is one action, and
`at` names the await it is suspended in: the port, the answers of all workers
(REP 224), the two rounds of questions of `launch_servers` (to the workers, then
to the engines), the answers of all servers (REP 253), the address of server 0
(REP 261). An await ends well when each actor it asks (`Asked`) has answered.
What the code then knows is that the actor lived when it was asked, not that it
lives now: `Answered` accepts an actor that has died since, and refuses one that
was dead already when the question was put (`askedDead`). So a ready replica may
have dead workers and servers, as in the code, where only the lease is looked at
again after the last answer (REP 310). `handles` is `workers` and `servers`,
`cleanup` is `cleanup_result`, `port` the remote task that looks up the master
port. Any failure goes through `Fail`, the except clause with
`_cleanup_runtime`, which has no await. `Fail` takes the set of actors created in
the same step, so that a loop that stops at claim *n* leaves a prefix.
`launch_servers` is inherited from verl; it is modelled by how REP uses it (one
server per node, recorded as created) and marked external, like Ray: a pending
actor starts when its bundle has room, may die, and holds its share after a kill
request until Ray has reaped it. Kill requests may raise, at most
`MaxKillErrors` per cleanup.

### BorrowSystem

Instances of both modules; replicas are named by their leases, and a lease has
expired for its replica when the contract in its record has. The step in which
`init_from_lease` ends is the step in which the record gets its outcome
(`Outcome`), because neither the cleanup nor the free lock suspends. A create
call runs from the lock to its first await without giving way, so other
coroutines wait for `Idle`; the clock and Ray do not. `kept` is what a record
lists of handles. After a cancellation the record stays CREATING and the replica
is cleaned up. Any create call may be that of a D2 smoke that cleans up after its
test (`SmokeCleansUp`, LSM 627-632): nothing suspends between the receipt and
`_cleanup_runtime`, so the record becomes RUNTIME_READY and the runtime is killed
in one step; later retries are told RUNTIME_READY all the same.

### ClaimChecks and ClaimContract

`ClaimChecks` holds the conditions of the two layers. In `ClaimContract` a request
is a function from list positions to claims; a claim names a slot (a
bundle, with the node and device the claim says it is on), a node rank, a local
rank and a rank. `Freeze` is the manager's acceptance (claims sorted by rank),
`Place` the replica's (layout kept). `Refuse` and `Fail` are always possible: a
missing string, an expired lease or an invisible placement group are not
modelled further. The guards are split as in the code, since the interest is in
what the two layers together imply: the manager does not check the order of
node ranks and the replica does not check local ranks. The replica alone would also
accept a node with two node ranks, since REP 94 compares only the numbers of
distinct ids and ranks; the manager has refused such claims before.

### RuntimeProfile

A configuration is a function from paths to typed values, closed under prefixes.
`Select` is `_select`: the path is there, or the last key that is there decides
between default and error. The types matter because the code compares
`type(value)` as well as the value (`True` is not `1`). The other operators are
the groups of checks of `validate_runtime_profile` and the settings that are read
later on their own: `max_colocate_count` (LSM 61-75) and the
`multitask.d2_runtime_test` section (RO 55-65). `ConfigAssumption` of
`RolloutStartup` says of its set of configurations that each is such a tree: what
a path leads through is there and a mapping, and an integer value is an integer.

### D2Scenarios

`Snapshot` joins the places the native workers report with the placement groups
in the order the pool lists them (LSM 489-492); `Selected`, `Spoiled` and
`Reindex` are the three steps of `_build_d2_test_spec`. Node identifiers are
numbers, devices are numbered per node, names of groups are reduced to whether
they are found.

### RolloutStartup

One action per step of the start; a step that raises leads to `failed` (what the
TaskRunner does then is in `GroupSchedule`). `natives` is `rollout_replicas`:
their number and shape follow from the pool sizes, their arrangement on nodes and
devices is arbitrary, and `order` lets the native worker group take the placement
groups of a replica in any order, since the code itself only says that it is the
pool's (comment in LSM 493-495). A bundle is always the same device. The
placement groups of one replica are on different nodes, because a node gives the
pool `n_gpus_per_node` devices. `request` goes through the manager's and the
replica's checks of `ClaimChecks`, then the workers are compared with their claims
(`WorkersInPlace`, REP 211-239). Creation itself is one step that may always fail;
its inside is `ReplicaRuntime`. The order trainer, rollouter, checkpoint manager
is that of the native TaskRunner (docs/architecture.md).

### GroupSchedule

One action per step of `run()` between two `ray.get` calls. A call goes to the
mailbox of its caller; Ray keeps the calls of one caller in order and the actor
executes one at a time. A timeout moves the TaskRunner on and leaves the call in
the mailbox. A dead instance answers with errors and its name is free; the next
discovery creates an instance with an empty map. A TaskRunner process that ends
or crashes may lose calls it has sent; `lost` remembers whether a detach was among
them. `attach_task` cannot meet a different handle under its key, because the key
is the actor id of the handle; that error path is therefore not an action.

## 3. Runs

| Run | Instance | Shows |
| --- | --- | --- |
| `manager_table` | 2 leases, 2 attempts, 2 contracts of 2 tasks, native ranks {0, 2}, requests {1, 2, 4}, symmetry | types, `RanksDistinct`, `OperationsDistinct`, `CursorAhead`, `AnswersAgree`, `RecordsPermanent`, and refinement of `LeaseLedger` |
| `replica_runtime` | 2 replicas of 2 workers on 2 nodes, opposite bundle order, one share per bundle, one kill error per cleanup | `NoOrphans`, `HandlesComplete`, `ReadyIsComplete`, `OutcomeFinal` |
| `replica_ends` | the same with the 2 workers of a replica on one node, hence one server, under fairness | `CreationEnds`, `FailureReleases` |
| `system` | 2 leases of one contract, one worker and one server each on one bundle, one kill error per cleanup, symmetry | `RecordMatchesRuntime`, `ReadyIsKept`, `ReadyUnderLease`, with smokes that clean up behind their record |
| `claim_contract` | all lists of 4 claims over 2 nodes and 5 bundles, two of them on one device; ranks as listed, exchanged and used twice | `RankGrid`, `LayoutExact` |
| `group_schedule` | 3 TaskRunners, 2 scheduler instances | `AttachedWhileRunning`, `EntriesAccounted`, `LeavesTheMap`, `NeverStuck` |
| `rollout_startup` | 11 pools of 1 to 4 nodes, with every arrangement of native replicas and order of placement groups, every scenario and an unknown one, with and without cleanup; one configuration with each of its settings removed or replaced by each of 8 values | `NeverSilentlyNative`, `GateSuffices`, `VerdictTrue`, `RefusedOnlyIfUneven`, `ReadyIsPlaced` |

What `rollout_startup` shows of the scenarios: a permuted order of placement
groups never leads to a misplaced runtime, because the node of a worker is
compared; `RefusedOnlyIfUneven` needs its condition, since `fragmented` on two
nodes of three devices and `split` on three nodes of two select more workers of
one node than of another, and the manager refuses them: the "uniform node/local
ranks" of LSM 525 are those of replicas on one node, which docs/D2_develop.md:222-223
has in mind.

Five further runs each refute one statement of the repository's own text:

| Run | The text | The code |
| --- | --- | --- |
| `creating_is_running` | LSM 313 "borrowed runtime creation is still running" | after a cancelled call the record says CREATING for ever, the replica being gone |
| `ranks_increase` | LSM 289 "monotonically increasing", D1_develop.md:9 | a requested rank below the cursor is granted |
| `retired_have_ended` | LSM 661, D1_develop.md:66 | the state of the record is not looked at when its rank is retired |
| `failure_keeps_handles` | develop_step.md:95, REP 278 | the record of a failed creation lists no handles and no actor names |
| `dead_worker_fails` | verl能力扩展最新版.md:1054: `validate_runtime` reads the health of the new actors and makes sure that every rank has its worker | it asks the servers only and repeats what the workers said before the engines started (REP 264); a worker that dies meanwhile goes unnoticed |

### Bounds

Two leases are what the pairwise invariants of the table speak of, and the two
attempts and contracts make every combination of same or different request
possible; ranks 0 and 2 being native and 1, 2, 4 requested lets a request hit a
native rank, a free rank below the cursor and one above it. Two replicas and two
bundles are the smallest mutual blocking; two workers on two nodes let creation
fail in the middle of both loops, and let one server die while the other has yet
to answer. Blocking is about workers, so one server per replica is enough for
`replica_ends`. In `system` one worker and one server per
replica suffice, since partial creation is the subject of `replica_runtime`; two
leases contend for the bundle and their calls overlap. Four claims are the
smallest grid with more than one row and column. Two scheduler instances let a
task outlive the instance it knows; three tasks let one discover each instance
and one crash. `MaxInstances` and `MaxKillErrors` are bounds of the instances,
not of the code. The pools of `rollout_startup` have one and several replicas, of
one and several placement groups, with one, two, three and four devices per node,
an odd number of nodes and of devices, a remainder that fits no replica, and a
replica size that no node arrangement fits (2 nodes of 3 devices, 4 per replica:
the gate accepts it and native creation fails). One setting at a time is wrong:
the gate is a conjunction.

Deadlock is not checked: a table whose leases are all settled and expired, a
replica that is ready or failed, a decided request, a run that has started or was
refused, and TaskRunners that have all ended are final states of the real system.

### Fairness

`ReplicaRuntime`: weak fairness of `TimedOut` (asyncio fires the timer of
`wait_for`, which is bounded by `creation_timeout_s` and the lease) and of
`ActorReaped` (Ray carries out an accepted kill request). Nothing is assumed of
actors starting, answering or of bundles getting room, so `CreationEnds` holds
because of the timeout alone. `GroupSchedule`: weak fairness of the TaskRunner's
return from each `ray.get` (answer or timeout) and of a live scheduler executing
the next call in a mailbox. The native run method need not end.

## 4. Proofs

Every invariant and every safety action property of the passing runs is a theorem
here, for all values of the constants that satisfy the named assumptions.

`BorrowManagerProofs` proves, for every finite set of leases, all contracts,
attempts and owners, every set of requested ranks, every finite set of native
ranks and every start rank:

| Theorem | States |
| --- | --- |
| `Invariance` | `Spec => []IInv` |
| `TypeCorrect`, `RanksAreDistinct`, `OperationsAreDistinct`, `CursorStaysAhead`, `Idempotency` | the five invariants of `manager_table` |
| `RecordsArePermanent` | the action property `RecordsPermanent` |
| `Refinement` | the manager implements `LeaseLedger` |

Assumptions are those named in `BorrowManager`: the owner function, ranks are
naturals, native ranks and leases are finite sets (so that the search for a free
rank ends).

Argument. The allocator's search is a `CHOOSE` of the first free rank in an
interval as long as the set of used ranks; `FirstFreeIsFree` shows by a counting
argument and a least-element lemma that it exists, `UsedRanksFinite` that the set
is finite, `AllocationIsFresh` that the result is an unused natural number below
the new cursor. `IInv` adds three facts to the invariants: `RunningCreating` (a
call in `init_from_lease` finds its record CREATING; without it the write of an
outcome could overwrite one), `ToldTrue` (each receipt given still agrees with its
record; it carries `AnswersAgree`, which speaks of receipts only) and
`RetiredOwned`. `NextIInv` has one step per action; actions that only give a
receipt share `ReceiptStep`, and those that leave the table alone
`TableUnchangedStep`. `LedgerStep` maps `CreateNew` to `Grant`, `Finish` to
`Settle`, and every other step to stuttering.

`ReplicaRuntimeProofs` proves, for every set of replicas, every world size that is
a multiple of the workers per node, all bundles, slots and numbers of failing kill
requests:

| Theorem | States |
| --- | --- |
| `Invariance` | `Spec => []IInv` |
| `TypeCorrect`, `NothingForgotten`, `NothingOrphaned` | the invariants `TypeOK`, `HandlesComplete`, `NoOrphans` |
| `OutcomeIsFinal`, `ReadyMeansComplete` | the action properties `OutcomeFinal`, `ReadyIsComplete` |

Assumptions: `SizeAssumption` (sizes are positive and nodes are full, which
`ClaimContract` checks the code to enforce) and `BundleAssumption` of
`ReplicaRuntime`.

Argument. `HandlesComplete` speaks of what exists and what is held, and says
nothing of how far a replica is, so it does not show that a ready replica is
complete; nor does `NoOrphans` survive a step by itself, for nothing in it says
that what was asked to die is all there is. `IInv` adds `Progress`: the await in
which a replica is suspended determines what it holds (`HeldAt`), the port task
runs only at the port, no cleanup happens while it is being built, and the cleanup of a failed
replica, or of a ready one that the smoke cleaned up, covers its handles. A step of `init_from_lease` ends in one of
two ways, so two lemmas carry the proof: `CleanUpStep` (with whatever was created
on the way, all of a batch or its first part, `FirstActors`) and `AdvanceStep`.
`ReplicaStep` has one step per action and hands each to one of them.
`OwnActors` (an actor belongs to one replica) is why a step of one replica
disturbs no other; `ReadyByHealth` shows that no step but the last answer makes a
replica ready. `Progress` says what a replica holds and not whether it came up;
`Heard` adds that the actors whose answers earlier awaits waited for (`HeardAt`)
have started and were never asked to die, which the last step, with only server 0
asked, cannot see for itself. `ReadyMeansComplete` needs both.

`BorrowSystemProofs` proves, from the assumptions of both parts (`TableAssumption`,
`RuntimeAssumption`):

| Theorem | States |
| --- | --- |
| `Invariance` | `Spec => []IInv` |
| `TableRefinement` | the composition implements `BorrowManager`: `Spec => Manager!Spec` |
| `TypeCorrect`, `RecordsAreTrue`, `ReadyIsReachable` | the invariants `TypeOK`, `RecordMatchesRuntime`, `ReadyIsKept` |
| `PartsHold` | `AnswersAgree`, `RanksDistinct`, `HandlesComplete`, `NoOrphans` in the composition |
| `OutcomesArePermanent` | `OutcomeFinal` and `RecordsPermanent` in the composition |
| `ReadyIsUnderLease` | the action property `ReadyUnderLease` |

Argument. The two proof modules above are instantiated with the system's
variables (`ManagerProofs`, `RuntimeProofs`, the latter with the expired leases
computed from the table), so no step of either part is proved again: `SameTable`
and `SameSteps` say that both ways of reaching a definition give the same formula,
`TableNext` and `RuntimeStep` carry the lemmas over. What is left is what relates
the parts: a record's state and its replica's, that a lease without a record has
not touched its replica, and that the record of a ready replica keeps all its
handles (`ReadyKept`). `ReadyIsKept` speaks of receipts and not of records; it
follows because a receipt given agrees with its record (`ToldTrue`), the record
with its replica, and the replica with the await it is in (`Progress`). `TableStep`
covers the calls in which no replica takes part, `CallStep` the steps of a replica
with what its create call makes of them, the cleanup of the smoke included.
`ReplicaOrNone` says that a step leaves all replicas alone or is that of one
running call, which carries the two action properties; `ReadyUnderLease` takes the
place of `ReadyIsComplete`, whose "no cleanup" does not hold of a smoke. Its clause
about the contract is guarded in both parts (`RuntimeReady` of the table stands for
a create call whose replica has just looked at the lease); what the composition
adds is that both speak of the same lease and change in one step.

`GroupScheduleProofs` proves, for any set of TaskRunners and, from
`InstanceAssumption`, any positive number of scheduler instances:

| Theorem | States |
| --- | --- |
| `Invariance` | `Spec => []IInv` |
| `TypeCorrect`, `RunningIsAttached`, `EntriesAreAccounted` | the invariants `TypeOK`, `AttachedWhileRunning`, `EntriesAccounted` |

Argument. A mailbox is in principle an unbounded sequence. `IInv` says that it is
always one of five (`Segments`): the TaskRunner goes on after a timeout, but what
is left outstanding is a segment of its three calls in the order in which it makes
them, because an error or timeout of `runtime_kind` or `attach_task` ends or
detaches it. `Progress` adds what each place in `run()` knows: an `ok` answer means
an empty mailbox and, if the instance still lives, an entry in its map; what has
been entered and not detached is followed by its detach or was `lost`. That is
what `EntriesAccounted` alone does not carry: the step that executes
`attach_task` needs to know that the detach is *behind* it. A crash and the end of
a process share `DropStep`, since both cut off the end of a mailbox.

`ClaimContractProofs` proves, for any number of claims, slots, nodes, devices and
submitted ranks:

| Theorem | States |
| --- | --- |
| `Invariance` | `Spec => []IInv` |
| `TypeCorrect`, `PlacedIsGrid`, `LayoutIsExact` | the invariants `TypeOK`, `RankGrid`, `LayoutExact` |

Assumptions: `WorldSizeAssumption`, `SlotAssumption`, `RankListAssumption`
(submitted ranks, node ranks and local ranks are naturals; nothing else is said of
them).

Argument. The manager's checks are about sets and counts of what is submitted,
`RankGrid` is about the rank of every single claim. `IInv` keeps what a frozen
request has (rank *r* at position *r*, nodes uniform) and what a placed one has
passed besides (keys sorted, places distinct). The step from there to the grid is
`SortedGrid`: claims ordered by node rank and then local rank, `L` per node, are a
strictly increasing enumeration of their keys, and the keys are exactly the grid.

`RolloutStartupProofs` proves, for any set of configuration trees
(`ConfigAssumption`), hence any sizes the gate accepts, every arrangement of native
replicas on nodes and devices, every order in which their worker groups take the
placement groups, and every scenario:

| Theorem | States |
| --- | --- |
| `Invariance` | `Spec => []IInv` |
| `TypeCorrect` | the invariant `TypeOK` |
| `NativeIsMeant`, `GateIsEnough` | `NeverSilentlyNative`, `GateSuffices` |
| `VerdictIsTrue`, `EvenSelectionIsAccepted` | `VerdictTrue`, `RefusedOnlyIfUneven` |
| `ReadyRuntimeIsPlaced` | `ReadyIsPlaced` |

Argument. `IInv` is `GateInv` (a run that is served passed the gate, and its
replicas are an arrangement of the pool), `RequestInv` (a request is what its
scenario makes of these replicas, `Built`) and `SmokeInv` (a record needs a request
that passed the checks, `Checked`; a runtime its record; the verdict both). Its
steps are short; the work is in what `Built` implies:

- *Configurations*: `PathsClosed` and `NativeOnlyIfAbsent` go from "`Select`
  returned its default" to "the key that is missing was missed in a mapping";
  `SupportedSettings` collects what the gate has checked.
- *Pools*: `ArrangementIsPool`, `BundlesDistinct` and `WorkersDistinct` show that
  no two workers report one device, in whatever order their groups were taken;
  `SelectionFromWorkers`, for every scenario, that its claims are those of
  different workers.
- *Reindexing*: `SortedReorders` and `ReindexPasses` show that a reindexed list
  passes each check but the one that all nodes have as many claims, so that
  `EvenIsAccepted` needs only that condition.
- *Placement*: `NodeGivesDevice` is the reason why a permuted order is always
  caught: a worker found on the node of its claim runs on its device as well.
  Hence `CheckedIsPlaced`.
- *Failing scenarios*: `SpoiledPair` and `CheckedIsUnspoiled` show that what is
  spoiled in two claims survives sorting and reindexing and stops the request.

Sorting without induction. The model's sorts and node orders are defined by
counting what comes before, and `Counting` has the facts this needs: in a strict
total order on a finite set, the number of smaller elements is a one-to-one map
onto `0 .. n - 1` (`RankInOrder`, by taking the least element whose number is
missing), and a strictly increasing map of `0 .. n` into itself is the identity
(`IncreasingIsIdentity`). Both come from least elements of sets of naturals and
theorems about the cardinality of finite sets; no induction over lists occurs.

Proving changed the model twice. `TypeOK` of `ClaimContract` gave submitted
ranks the type of granted ones, which is true of the instance's lists only: a
request may list any natural number until the manager refuses it. And
`RolloutStartup` relied on the shape of configurations without saying so, which is
now `ConfigAssumption`.

Only model-checked: liveness, which the prover cannot reason about under fairness:
`CreationEnds`, `FailureReleases`, `LeavesTheMap` and `NeverStuck`. The properties
of the five runs that refute a text of the repository are false and have no theorem.

## 5. Plan

Done: `BorrowManager`, `ReplicaRuntime`, `BorrowSystem`, `ClaimChecks`,
`ClaimContract`, `RuntimeProfile`, `D2Scenarios`, `RolloutStartup` and
`GroupSchedule`, each checked by TLC, with the proofs above. Next: the
grid of `RankGrid` and the layout of `LayoutExact` for the requests that the
scenarios of `RolloutStartup` build, from `SortedGrid` and `LayoutOfSorted`.

## 6. Not modelled

Native verl and vLLM code other than as used here; weight synchronisation, request
routing and generation, which this repository inherits unchanged, and with them
which replicas the load balancer and the checkpoint manager have (the borrowed
ones are never published by this code); the content of errors and metadata and the formats of strings and
numbers; changes of the native replica set at run time, which no code here makes;
the hybrid worker group, which the profile excludes; two placement groups of one
replica on one node, where the local index that REP 229-231 accepts beside the
accelerator id could name a device of the other group; logging; the shell scripts;
`schedule()`, `get_task_runners()`, `destroy()` and `reclaim()` of the replica,
which change no state.
