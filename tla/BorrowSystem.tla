----------------------------- MODULE BorrowSystem -----------------------------
(***************************************************************************)
(* The manager's table and the replica runtimes it builds, in one event    *)
(* loop: create_borrowed_replica awaits init_from_lease outside the lock,  *)
(* and the step in which init_from_lease returns or raises is the step in  *)
(* which the create call writes the outcome (neither the cleanup nor the   *)
(* free lock suspends it).                                                 *)
(*                                                                         *)
(* The replica of a lease is the one its only create call builds, so       *)
(* replicas are named by their leases, and a lease has expired for its     *)
(* replica when the contract in its record has.                            *)
(***************************************************************************)
EXTENDS Integers, FiniteSets

CONSTANTS
  Leases, Attempts, Contracts, Owners, OwnerOf,
  RequestedRanks, NativeRanks, StartRank,
  WorldSize, PerNode, Bundles, BundleOf, Slots, MaxKillErrors

VARIABLES
  borrowed_operations, next_replica_rank, retired_replica_ranks,
  expired, running, told,                              \* the manager
  at, port, actor, handles, cleanup, askedDead,        \* the replicas
  kept                                 \* the handles stored in each record

Manager == INSTANCE BorrowManager

ExpiredLeases ==
  {l \in DOMAIN borrowed_operations : borrowed_operations[l].contract \in expired}

Runtime == INSTANCE ReplicaRuntime WITH Replicas <- Leases, expired <- ExpiredLeases

(* What BorrowManager and ReplicaRuntime assume of their constants. *)
ASSUME TableAssumption ==
  /\ OwnerOf \in [Contracts -> Owners]
  /\ RequestedRanks \subseteq Nat
  /\ NativeRanks \subseteq Nat
  /\ IsFiniteSet(NativeRanks)
  /\ StartRank \in Int
  /\ IsFiniteSet(Leases)
ASSUME RuntimeAssumption ==
  /\ WorldSize \in Nat \ {0}
  /\ PerNode \in Nat \ {0}
  /\ WorldSize % PerNode = 0
  /\ BundleOf \in [Leases -> [Runtime!Ranks -> Bundles]]
  /\ Slots \in Nat \ {0}
  /\ MaxKillErrors \in Nat

managerVars == <<borrowed_operations, next_replica_rank, retired_replica_ranks,
                 expired, running, told>>
runtimeVars == <<at, port, actor, handles, cleanup, askedDead>>
vars == <<managerVars, runtimeVars, kept>>

-----------------------------------------------------------------------------
Init ==
  /\ Manager!Init
  /\ Runtime!Init
  /\ kept = [l \in Leases |-> {}]

(* A create call runs from the lock to its first await without giving way:
   meanwhile only the clock and Ray move. *)
Starting == {l \in running : at[l] = "constructed"}
Idle == Starting = {}

(* create_borrowed_replica up to the end of the lock section. *)
Create(l) ==
  /\ Idle
  /\ Manager!Create(l)
  /\ UNCHANGED <<runtimeVars, kept>>

(* MUTANT: the state is stored and the handles are not. *)
OutcomeWithoutHandles(l, step) ==
  \/ Manager!RuntimeReady(l)  /\ step /\ at'[l] = "ready"  /\ UNCHANGED kept
  \/ Manager!RuntimeFailed(l) /\ step /\ at'[l] = "failed" /\ UNCHANGED kept
  \/ UNCHANGED <<managerVars, kept>> /\ step /\ Runtime!Awaiting(l)'

(* What a create call makes of a step of its init_from_lease: the record takes
   the handles of a ready replica and none of a failed one. *)
Outcome(l, step) ==
  \/ /\ Manager!RuntimeReady(l)
     /\ step
     /\ at'[l] = "ready"
     /\ kept' = [kept EXCEPT ![l] = handles'[l]]
  \/ /\ Manager!RuntimeFailed(l)
     /\ step
     /\ at'[l] = "failed"
     /\ UNCHANGED kept
  \/ /\ UNCHANGED <<managerVars, kept>>
     /\ step
     /\ Runtime!Awaiting(l)'

(* The replica is constructed and init_from_lease entered, in the same breath
   as the lock section; it suspends at the port or is over. *)
Begin(l) ==
  /\ l \in running
  /\ Outcome(l, Runtime!Start(l) \/ Runtime!Reject(l))

(* An answer or an error arrives where init_from_lease is suspended. *)
Resume(l) ==
  /\ Idle
  /\ l \in running
  /\ Outcome(l, \/ Runtime!CreateWorkers(l) \/ Runtime!WorkersValid(l)
                \/ Runtime!LaunchServers(l) \/ Runtime!EngineUp(l)
                \/ Runtime!ServersValid(l) \/ Runtime!Healthy(l)
                \/ Runtime!StepFails(l))

(* run_d2_runtime_smoke is the caller and cleans up after the test: the record
   becomes RUNTIME_READY and the runtime is killed in one step, and the record
   is not touched again. *)
SmokeCleansUp(l) ==
  /\ Idle
  /\ l \in running
  /\ Outcome(l, Runtime!HealthyThenCleaned(l))

TimeOut(l) ==
  /\ Idle
  /\ l \in running
  /\ Outcome(l, Runtime!TimedOut(l))

(* MUTANT: the replica does not clean up on CancelledError. *)
CancelKeepsRuntime(l) ==
  /\ Idle
  /\ Runtime!Awaiting(l)
  /\ Manager!CreateCancelled(l)
  /\ UNCHANGED <<runtimeVars, kept>>

(* The create call is cancelled: the replica fails and cleans up, and nothing
   is written in the record. *)
Cancel(l) ==
  /\ Idle
  /\ Manager!CreateCancelled(l)
  /\ Runtime!Cancelled(l)
  /\ UNCHANGED kept

(* Calls that no replica takes part in. *)
Table ==
  /\ Idle
  /\ \/ \E l \in Leases : Manager!Reclaim(l)
     \/ \E rank \in Manager!BorrowedRanks, owner \in Owners : Manager!Retire(rank, owner)
  /\ UNCHANGED <<runtimeVars, kept>>

(* The clock and Ray do not wait for the event loop. *)
Clock ==
  /\ \E contract \in Contracts : Manager!Expire(contract)
  /\ UNCHANGED <<runtimeVars, kept>>

Ray(a) ==
  /\ UNCHANGED <<managerVars, kept>>
  /\ Runtime!ActorStarts(a) \/ Runtime!ActorDies(a) \/ Runtime!ActorReaped(a)

Next ==
  \/ \E l \in Leases : Create(l) \/ Begin(l) \/ Resume(l)
                         \/ SmokeCleansUp(l) \/ TimeOut(l) \/ Cancel(l)
  \/ Table
  \/ Clock
  \/ \E a \in Runtime!Actors : Ray(a)

Spec == Init /\ [][Next]_vars

-----------------------------------------------------------------------------
(* The types of the two parts; a record holds handles of its own replica. *)
TypeOK ==
  /\ Manager!TypeOK
  /\ Runtime!TypeOK
  /\ \A l \in Leases : kept[l] \subseteq Runtime!ActorsOf(l)

(* The table tells the truth about the runtimes: a record is RUNTIME_READY
   exactly when its replica is, FAILED only when its replica has failed, and a
   record left CREATING by a cancelled call has a replica that was cleaned up.
   Whatever is still being built belongs to a call that will report it. *)
RecordMatchesRuntime ==
  \A l \in Manager!Known :
    /\ Manager!StateOf(l) = "RUNTIME_READY" <=> at[l] = "ready"
    /\ Manager!StateOf(l) = "FAILED" => at[l] = "failed"
    /\ l \in running <=> at[l] \notin {"ready", "failed"}

(* A caller who is told RUNTIME_READY can reach the runtime through the record:
   it holds every worker and every server.  Either none of them was asked to die
   or, when a smoke cleaned up behind the record, the cleanup reached them all:
   the runtime is whole or gone, never half. *)
ReadyIsKept ==
  \A answer \in told : answer.state = "RUNTIME_READY" =>
    LET l == answer.lease
    IN /\ kept[l] = Runtime!ActorsOf(l)
       /\ \/ cleanup[l] = Runtime!NoCleanup
          \/ cleanup[l].requested \cup cleanup[l].errors = Runtime!ActorsOf(l)

(* A replica becomes ready only while the contract in its record is valid, when
   each of its actors got its room and came up, however long the replicas of
   other leases kept the bundles and whatever was retried or retired meanwhile;
   and in that very step, not later, its record says so. *)
ReadyUnderLease ==
  [][\A l \in Leases : at[l] # "ready" /\ at'[l] = "ready" =>
       /\ l \in Manager!Known /\ borrowed_operations[l].contract \notin expired
       /\ \A a \in Runtime!ActorsOf(l) : actor[a] \in Runtime!Started
       /\ Manager!StateOf(l)' = "RUNTIME_READY"]_vars

-----------------------------------------------------------------------------
(* What the repository's own text says and the code does not keep. *)

(* When creation fails the record keeps the exact handles of what was created. *)
FailureKeepsHandles ==
  \A l \in Manager!Known :
    Manager!StateOf(l) = "FAILED" => handles[l] \subseteq kept[l]
=============================================================================
