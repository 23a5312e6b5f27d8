---------------------------- MODULE ReplicaRuntime ----------------------------
(***************************************************************************)
(* MultiTaskvLLMReplica.init_from_lease: several borrowed replicas build   *)
(* their runtimes at once on donor bundles they do not own.                *)
(*                                                                         *)
(* Each replica is a coroutine of one event loop, so what it does between  *)
(* two awaits is one step.  "at" names the await it is suspended in; an    *)
(* exception, a timeout of wait_for and a cancellation all arrive there.   *)
(* Ray is the environment: an actor is pending until its bundle has room,  *)
(* runs, may die by itself, and after a kill request holds its share of    *)
(* the bundle until Ray has reaped it.                                     *)
(***************************************************************************)
EXTENDS Integers, FiniteSets

CONSTANTS
  Replicas,       \* borrowed replicas under construction
  WorldSize,      \* claims, and checkpoint-engine workers, per replica
  PerNode,        \* gpus_per_replica_node: workers per node
  Bundles,        \* donor placement-group bundles
  BundleOf,       \* [Replicas -> [Ranks -> Bundles]]: the bundle of each claim
  Slots,          \* borrowed workers a bundle has room for
  MaxKillErrors   \* bound: kill requests of one cleanup that raise

Ranks == 0 .. (WorldSize - 1)
NodeRanks == 0 .. ((WorldSize \div PerNode) - 1)

ASSUME SizeAssumption ==
  /\ WorldSize \in Nat \ {0}
  /\ PerNode \in Nat \ {0}
  /\ WorldSize % PerNode = 0
ASSUME BundleAssumption ==
  /\ BundleOf \in [Replicas -> [Ranks -> Bundles]]
  /\ Slots \in Nat \ {0}
  /\ MaxKillErrors \in Nat

VARIABLES
  at,         \* where each init_from_lease is
  port,       \* the remote task that looks up the master port
  actor,      \* Ray's state of every actor
  handles,    \* self.workers and self.servers of each replica
  cleanup,    \* cleanup_result of each replica
  askedDead,  \* replicas whose await asks an actor that was already dead
  expired     \* replicas whose lease has expired

vars == <<at, port, actor, handles, cleanup, askedDead, expired>>

-----------------------------------------------------------------------------
Worker(r, k) == <<r, "ce", k>>
Server(r, i) == <<r, "http", i>>
WorkersOf(r) == {Worker(r, k) : k \in Ranks}
ServersOf(r) == {Server(r, i) : i \in NodeRanks}
ActorsOf(r) == WorkersOf(r) \cup ServersOf(r)
Actors == UNION {ActorsOf(r) : r \in Replicas}

Awaits == {"port", "workers", "launch", "engine", "servers", "address"}
Started == {"alive", "dead"}
ActorStates == {"none", "pending", "alive", "killed", "dead"}
NoCleanup == [requested |-> {}, errors |-> {}]

Awaiting(r) == at[r] \in Awaits

(* The actors whose answers an await waits for; launch_servers asks the workers
   before it starts the engines. *)
Asked(r, await) ==
  CASE await \in {"workers", "launch"} -> WorkersOf(r)
    [] await \in {"engine", "servers"} -> ServersOf(r)
    [] await = "address" -> {Server(r, 0)}
    [] OTHER -> {}

(* MUTANT: the questions are put and the answers are not awaited. *)
AskedOnly(r) == r \notin askedDead

(* All of them have answered.  An actor that is dead by now may have answered
   before it died, if it was not dead when it was asked. *)
Answered(r) ==
  /\ r \notin askedDead
  /\ \A a \in Asked(r, at[r]) : actor[a] \in Started

(* Actors are created in order, so a failed creation leaves a prefix. *)
FirstWorkers(r, n) == {Worker(r, k) : k \in 0 .. (n - 1)}
FirstServers(r, n) == {Server(r, i) : i \in 0 .. (n - 1)}

(* Bundle shares taken: a killed worker keeps its share until it is reaped. *)
Holding(b) ==
  {w \in UNION {WorkersOf(r) : r \in Replicas} :
     BundleOf[w[1]][w[3]] = b /\ actor[w] \in {"alive", "killed"}}

(* A kill request cancels a pending actor and starts the end of a live one. *)
AfterKill(s) == IF s = "pending" THEN "dead" ELSE IF s = "alive" THEN "killed" ELSE s

(* MUTANTS of the cleanup *)
RecordedAfterLoop(r, created) == handles[r]
TargetsEveryWorker(held) == held \cup {a \in Actors : a[2] = "ce"}
TargetsServersOnly(held) == {a \in held : a[2] = "http"}

(* Every handle is recorded the moment its actor exists. *)
Recorded(r, created) == handles[r] \cup created

(* The handles _cleanup_runtime walks over: servers and workers. *)
Targets(held) == held

-----------------------------------------------------------------------------
Init ==
  /\ at = [r \in Replicas |-> "constructed"]
  /\ port = [r \in Replicas |-> "none"]
  /\ actor = [a \in Actors |-> "none"]
  /\ handles = [r \in Replicas |-> {}]
  /\ cleanup = [r \in Replicas |-> NoCleanup]
  /\ askedDead = {}
  /\ expired = {}

(* _cleanup_runtime with the actors "created" of this step: a kill request for
   each recorded handle, of which those in "errors" raise and are noted; the
   replica is left in "state". *)
CleanUp(r, created, state) ==
  LET held == Recorded(r, created)
      now(a) == IF a \in created THEN "pending" ELSE actor[a]
  IN \E errors \in SUBSET Targets(held) :
       /\ Cardinality(errors) <= MaxKillErrors
       /\ actor' = [a \in Actors |->
                      IF a \in Targets(held) \ errors THEN AfterKill(now(a)) ELSE now(a)]
       /\ handles' = [handles EXCEPT ![r] = held]
       /\ cleanup' = [cleanup EXCEPT ![r] =
                        [requested |-> Targets(held) \ errors, errors |-> errors]]
       /\ at' = [at EXCEPT ![r] = state]
       /\ askedDead' = askedDead \ {r}
       /\ UNCHANGED expired

(* The except clause of init_from_lease. *)
Fail(r, created) == CleanUp(r, created, "failed")

(* The next await of r, with the actors "created" on the way to it. *)
Advance(r, created, await) ==
  /\ actor' = [a \in Actors |-> IF a \in created THEN "pending" ELSE actor[a]]
  /\ handles' = [handles EXCEPT ![r] = Recorded(r, created)]
  /\ at' = [at EXCEPT ![r] = await]
  /\ askedDead' = IF \E a \in Asked(r, await) : actor[a] = "dead"
                  THEN askedDead \cup {r} ELSE askedDead \ {r}
  /\ UNCHANGED <<cleanup, expired>>

(* init_from_lease up to the first await: the claims and the lease are valid
   and the placement groups exist ... *)
Start(r) ==
  /\ at[r] = "constructed"
  /\ r \notin expired
  /\ port' = [port EXCEPT ![r] = "running"]
  /\ Advance(r, {}, "port")

(* ... or they are not, and nothing has been created. *)
Reject(r) ==
  /\ at[r] = "constructed"
  /\ Fail(r, {})
  /\ UNCHANGED port

(* The port arrived; the loop creates the workers without an await.  It either
   creates them all or stops at claim n with an exception. *)
CreateWorkers(r) ==
  /\ at[r] = "port"
  /\ port' = [port EXCEPT ![r] = "done"]
  /\ \/ Advance(r, WorkersOf(r), "workers")
     \/ \E n \in 0 .. WorldSize : Fail(r, FirstWorkers(r, n))

(* _validate_workers: every worker has answered from its claimed device. *)
WorkersValid(r) ==
  /\ at[r] = "workers"
  /\ Answered(r)
  /\ Advance(r, {}, "launch")
  /\ UNCHANGED port

(* The inherited launch_servers: one server actor per node, then the engines. *)
LaunchServers(r) ==
  /\ at[r] = "launch"
  /\ \/ Answered(r) /\ Advance(r, ServersOf(r), "engine")
     \/ \E n \in 0 .. Cardinality(NodeRanks) : Fail(r, FirstServers(r, n))
  /\ UNCHANGED port

EngineUp(r) ==
  /\ at[r] = "engine"
  /\ Answered(r)
  /\ Advance(r, {}, "servers")
  /\ UNCHANGED port

(* validate_runtime: every server has answered from its node ... *)
ServersValid(r) ==
  /\ at[r] = "servers"
  /\ Answered(r)
  /\ Advance(r, {}, "address")
  /\ UNCHANGED port

(* MUTANT: the lease is not looked at again after the wait. *)
HealthyUnchecked(r) ==
  /\ at[r] = "address"
  /\ Answered(r)
  /\ Advance(r, {}, "ready")
  /\ UNCHANGED port

(* ... and then server 0 alone its address.  The lease is looked at once more
   before the replica becomes RUNTIME_READY; the actors are not. *)
Healthy(r) ==
  /\ at[r] = "address"
  /\ Answered(r)
  /\ IF r \in expired THEN Fail(r, {}) ELSE Advance(r, {}, "ready")
  /\ UNCHANGED port

(* The D2 smoke, when it is the caller, goes on without an await: it cleans the
   ready replica up and leaves its state as it is. *)
HealthyThenCleaned(r) ==
  /\ at[r] = "address"
  /\ Answered(r)
  /\ r \notin expired
  /\ CleanUp(r, {}, "ready")
  /\ UNCHANGED port

(* An await raises: a Ray error, a dead actor, a worker on the wrong device, a
   server on the wrong node. *)
StepFails(r) ==
  /\ Awaiting(r)
  /\ port' = [port EXCEPT ![r] = "done"]
  /\ Fail(r, {})

(* CancelledError: the port task is cancelled too when r waits for it. *)
Interrupted(r) ==
  /\ port' = [port EXCEPT ![r] = IF @ = "running" THEN "cancelled" ELSE @]
  /\ Fail(r, {})

(* MUTANTS: wait_for around the server start only; a cancellation that also
   reaches a replica which is already ready. *)
TimedOutServersOnly(r) == at[r] \in {"launch", "engine", "servers", "address"} /\ Interrupted(r)
CancelledWhenReady(r) == at[r] \in Awaits \cup {"ready"} /\ Interrupted(r)

(* wait_for: creation_timeout_s or the rest of the lease has run out. *)
TimedOut(r) == Awaiting(r) /\ Interrupted(r)

(* The create call that awaits init_from_lease is cancelled. *)
Cancelled(r) == Awaiting(r) /\ Interrupted(r)

-----------------------------------------------------------------------------
(* Ray and the clock *)

(* A pending actor starts: a server anywhere on its node, a worker only when
   its bundle has room. *)
ActorStarts(a) ==
  /\ actor[a] = "pending"
  /\ a[2] = "ce" => Cardinality(Holding(BundleOf[a[1]][a[3]])) < Slots
  /\ actor' = [actor EXCEPT ![a] = "alive"]
  /\ UNCHANGED <<at, port, handles, cleanup, askedDead, expired>>

ActorDies(a) ==
  /\ actor[a] = "alive"
  /\ actor' = [actor EXCEPT ![a] = "dead"]
  /\ UNCHANGED <<at, port, handles, cleanup, askedDead, expired>>

ActorReaped(a) ==
  /\ actor[a] = "killed"
  /\ actor' = [actor EXCEPT ![a] = "dead"]
  /\ UNCHANGED <<at, port, handles, cleanup, askedDead, expired>>

LeaseExpires(r) ==
  /\ r \notin expired
  /\ expired' = expired \cup {r}
  /\ UNCHANGED <<at, port, actor, handles, cleanup, askedDead>>

InitFromLease(r) ==
  \/ Start(r) \/ Reject(r)
  \/ CreateWorkers(r) \/ WorkersValid(r)
  \/ LaunchServers(r) \/ EngineUp(r) \/ ServersValid(r) \/ Healthy(r)
  \/ StepFails(r) \/ TimedOut(r) \/ Cancelled(r)

Next ==
  \/ \E r \in Replicas : InitFromLease(r) \/ LeaseExpires(r)
  \/ \E a \in Actors : ActorStarts(a) \/ ActorDies(a) \/ ActorReaped(a)

(* The timer of wait_for fires in the end, and Ray goes on reaping what it was
   told to kill.  Nothing else is promised: not room in a bundle, not an answer. *)
Fairness ==
  /\ \A r \in Replicas : WF_vars(TimedOut(r))
  /\ WF_vars(\E a \in Actors : ActorReaped(a))

Spec == Init /\ [][Next]_vars
FairSpec == Spec /\ Fairness

-----------------------------------------------------------------------------
(* Every variable holds a value of its type; a replica holds only its own
   actors' handles. *)
TypeOK ==
  /\ at \in [Replicas -> Awaits \cup {"constructed", "ready", "failed"}]
  /\ port \in [Replicas -> {"none", "running", "done", "cancelled"}]
  /\ actor \in [Actors -> ActorStates]
  /\ \A r \in Replicas :
       /\ handles[r] \subseteq ActorsOf(r)
       /\ cleanup[r].requested \cup cleanup[r].errors \subseteq handles[r]
  /\ askedDead \cup expired \subseteq Replicas

(* A failed replica leaves nothing behind that nobody was told about: every
   actor it ever created has been asked to die or is named by a kill error,
   and its port task is not running, wherever the failure struck. *)
NoOrphans ==
  \A r \in Replicas : at[r] = "failed" =>
    /\ port[r] # "running"
    /\ \A a \in ActorsOf(r) :
         actor[a] # "none" => a \in cleanup[r].requested \cup cleanup[r].errors

(* A replica that is not failed has not lost a handle either: what exists is
   what it holds, so a cleanup at any moment reaches everything. *)
HandlesComplete ==
  \A r \in Replicas : {a \in ActorsOf(r) : actor[a] # "none"} = handles[r]

(* A replica becomes ready only while its lease is valid, when it holds every
   worker and every server, each of which got its room and came up and was never
   asked to die, and it was never cleaned up.  That they still run is not said:
   an actor may die after its answer. *)
ReadyIsComplete ==
  [][\A r \in Replicas : at[r] # "ready" /\ at'[r] = "ready" =>
       /\ r \notin expired
       /\ handles'[r] = ActorsOf(r)
       /\ \A a \in ActorsOf(r) : actor[a] \in Started
       /\ cleanup'[r] = NoCleanup]_vars

(* Ready and failed are final: no late timeout, cancellation or answer changes
   either, and no cleanup ever touches a ready replica. *)
OutcomeFinal ==
  [][\A r \in Replicas : at[r] \in {"ready", "failed"} =>
       at'[r] = at[r] /\ handles'[r] = handles[r] /\ cleanup'[r] = cleanup[r]]_vars

(* A creation that has started always ends, although replicas that each hold
   a share the other one waits for block one another in Ray. *)
CreationEnds == \A r \in Replicas : Awaiting(r) ~> at[r] \in {"ready", "failed"}

(* Shares come back: a failed replica whose kill requests were all accepted
   ends up holding no bundle. *)
FailureReleases ==
  \A r \in Replicas :
    at[r] = "failed" /\ cleanup[r].errors = {}
      ~> \A a \in ActorsOf(r) : actor[a] \in {"none", "dead"}

-----------------------------------------------------------------------------
(* What the repository's own text says and the code does not keep. *)

(* validate_runtime makes sure that every rank has its worker: a worker that is
   dead before validate_runtime begins does not go unnoticed. *)
DeadWorkerFails ==
  \A r \in Replicas :
    at[r] = "engine" /\ (\E k \in Ranks : actor[Worker(r, k)] = "dead")
      ~> at[r] = "failed"
=============================================================================
