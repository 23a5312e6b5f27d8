-------------------------- MODULE BorrowSystemProofs --------------------------
(***************************************************************************)
(* Proofs about BorrowSystem for any leases, contracts, ranks and sizes.   *)
(*                                                                         *)
(* The theorems about the two parts are taken over as they are; what is    *)
(* proved here is what relates a record to the runtime it speaks of.       *)
(***************************************************************************)
EXTENDS BorrowSystem, TLAPS

ManagerProofs == INSTANCE BorrowManagerProofs
RuntimeProofs == INSTANCE ReplicaRuntimeProofs WITH
  Replicas <- Leases, expired <- ExpiredLeases

(* A record keeps handles of its own replica only, and all of a ready one. *)
ReadyKept ==
  /\ kept \in [Leases -> SUBSET Runtime!Actors]
  /\ \A l \in Manager!Known :
       Manager!StateOf(l) = "RUNTIME_READY" => kept[l] = Runtime!ActorsOf(l)
  /\ \A l \in Leases : kept[l] \subseteq Runtime!ActorsOf(l)

(* What the parts promise, and the two facts that relate them; a lease without a
   record has not touched its replica. *)
IInv ==
  /\ Manager!IInv
  /\ RuntimeProofs!IInv
  /\ RecordMatchesRuntime
  /\ \A l \in Leases \ Manager!Known : at[l] = "constructed"
  /\ ReadyKept

-----------------------------------------------------------------------------
(* The parts are instances of the modules their theorems are about: the same
   definitions reached by two ways. *)

(* The table. *)
LEMMA SameTable ==
  /\ Manager!IInv <=> ManagerProofs!IInv
  /\ Manager!IInv' <=> ManagerProofs!IInv'
  /\ Manager!Init <=> ManagerProofs!Init
  /\ Manager!Next => ManagerProofs!Next
<1>1. /\ Manager!IInv <=> ManagerProofs!IInv
      /\ Manager!IInv' <=> ManagerProofs!IInv'
  BY DEF
     Manager!IInv, ManagerProofs!IInv,
     Manager!TypeOK, ManagerProofs!TypeOK,
     Manager!RanksDistinct, ManagerProofs!RanksDistinct,
     Manager!OperationsDistinct, ManagerProofs!OperationsDistinct,
     Manager!CursorAhead, ManagerProofs!CursorAhead,
     Manager!RetiredOwned, ManagerProofs!RetiredOwned,
     Manager!RunningCreating, ManagerProofs!RunningCreating,
     Manager!ToldTrue, ManagerProofs!ToldTrue,
     Manager!Known, ManagerProofs!Known,
     Manager!RankOf, ManagerProofs!RankOf,
     Manager!StateOf, ManagerProofs!StateOf,
     Manager!BorrowedRanks, ManagerProofs!BorrowedRanks,
     Manager!Record, ManagerProofs!Record,
     Manager!Answer, ManagerProofs!Answer,
     Manager!States, ManagerProofs!States,
     Manager!Terminal, ManagerProofs!Terminal
<1>2. Manager!Init <=> ManagerProofs!Init
  BY DEF Manager!Init, ManagerProofs!Init
<1>3. /\ \A requested : Manager!AllocatedRank(requested) = ManagerProofs!AllocatedRank(requested)
      /\ Manager!UsedRanks = ManagerProofs!UsedRanks
  <2>1. Manager!UsedRanks = ManagerProofs!UsedRanks
    BY DEF
     Manager!UsedRanks, ManagerProofs!UsedRanks,
     Manager!BorrowedRanks, ManagerProofs!BorrowedRanks,
     Manager!RankOf, ManagerProofs!RankOf,
     Manager!Known, ManagerProofs!Known
  <2>2. \A S : Manager!Cardinality(S) = ManagerProofs!Cardinality(S)
    BY DEF Manager!Cardinality, ManagerProofs!Cardinality
  <2>3. \A from, used : Manager!FirstFree(from, used) = ManagerProofs!FirstFree(from, used)
    BY <2>2 DEF Manager!FirstFree, ManagerProofs!FirstFree
  <2>4. QED
    BY <2>1, <2>3 DEF
     Manager!AllocatedRank, ManagerProofs!AllocatedRank,
     Manager!AnyRank, ManagerProofs!AnyRank
<1>4. Manager!Next => ManagerProofs!Next
  <2>1. ASSUME NEW l, NEW attempt, NEW contract, NEW requested
        PROVE  /\ Manager!CreateNew(l, attempt, contract, requested)
                    => ManagerProofs!CreateNew(l, attempt, contract, requested)
               /\ Manager!CreateRetry(l, contract, requested)
                    => ManagerProofs!CreateRetry(l, contract, requested)
    <3>1. Manager!CreateNew(l, attempt, contract, requested)
            => ManagerProofs!CreateNew(l, attempt, contract, requested)
      BY <1>3 DEF
     Manager!CreateNew, ManagerProofs!CreateNew,
     Manager!AttemptUnused, ManagerProofs!AttemptUnused,
     Manager!NextCursor, ManagerProofs!NextCursor,
     Manager!AnyRank, ManagerProofs!AnyRank,
     Manager!Known, ManagerProofs!Known
    <3>2. Manager!CreateRetry(l, contract, requested)
            => ManagerProofs!CreateRetry(l, contract, requested)
      BY DEF
     Manager!CreateRetry, ManagerProofs!CreateRetry,
     Manager!SameRequest, ManagerProofs!SameRequest,
     Manager!AnyRank, ManagerProofs!AnyRank,
     Manager!Known, ManagerProofs!Known,
     Manager!Receipt, ManagerProofs!Receipt
    <3>3. QED
      BY <3>1, <3>2
  <2>2. ASSUME NEW l
        PROVE  /\ Manager!RuntimeReady(l) => ManagerProofs!RuntimeReady(l)
               /\ Manager!RuntimeFailed(l) => ManagerProofs!RuntimeFailed(l)
    <3>1. ASSUME NEW state PROVE Manager!Finish(l, state) => ManagerProofs!Finish(l, state)
      BY DEF Manager!Finish, ManagerProofs!Finish, Manager!Receipt, ManagerProofs!Receipt
    <3>2. QED
      BY <3>1 DEF
     Manager!RuntimeReady, ManagerProofs!RuntimeReady,
     Manager!RuntimeFailed, ManagerProofs!RuntimeFailed,
     Manager!Known, ManagerProofs!Known
  <2>3. ASSUME NEW l
        PROVE  /\ Manager!CreateCancelled(l) => ManagerProofs!CreateCancelled(l)
               /\ Manager!Reclaim(l) => ManagerProofs!Reclaim(l)
    BY DEF
     Manager!CreateCancelled, ManagerProofs!CreateCancelled,
     Manager!Reclaim, ManagerProofs!Reclaim,
     Manager!Known, ManagerProofs!Known,
     Manager!Receipt, ManagerProofs!Receipt
  <2>4. /\ Manager!BorrowedRanks = ManagerProofs!BorrowedRanks
        /\ \A rank, owner : Manager!Retire(rank, owner) => ManagerProofs!Retire(rank, owner)
        /\ \A contract : Manager!Expire(contract) => ManagerProofs!Expire(contract)
    BY DEF
     Manager!Retire, ManagerProofs!Retire,
     Manager!Expire, ManagerProofs!Expire,
     Manager!BorrowedRanks, ManagerProofs!BorrowedRanks,
     Manager!Known, ManagerProofs!Known,
     Manager!RankOf, ManagerProofs!RankOf
  <2>5. \A l : Manager!Create(l) => ManagerProofs!Create(l)
    BY <2>1 DEF
     Manager!Create, ManagerProofs!Create,
     Manager!AnyRank, ManagerProofs!AnyRank
  <2>6. QED
    BY <2>2, <2>3, <2>4, <2>5 DEF Manager!Next, ManagerProofs!Next
<1>5. QED
  BY <1>1, <1>2, <1>4

(* What the theorems about the table say of the table of the system. *)
LEMMA TableInit == Manager!Init => Manager!IInv
BY SameTable, TableAssumption, ManagerProofs!InitIInv DEF IsFiniteSet, ManagerProofs!IsFiniteSet

(* A step of the manager keeps the invariant of its table. *)
LEMMA TableNext == Manager!IInv /\ [Manager!Next]_Manager!vars => Manager!IInv'
BY SameTable, TableAssumption, ManagerProofs!NextIInv
   DEF IsFiniteSet, ManagerProofs!IsFiniteSet, Manager!vars, ManagerProofs!vars

(* The actors of a replica. *)
LEMMA SameActors ==
  /\ Runtime!Ranks = RuntimeProofs!Ranks
  /\ Runtime!NodeRanks = RuntimeProofs!NodeRanks
  /\ \A l : Runtime!WorkersOf(l) = RuntimeProofs!WorkersOf(l)
  /\ \A l : Runtime!ServersOf(l) = RuntimeProofs!ServersOf(l)
  /\ \A l : Runtime!ActorsOf(l) = RuntimeProofs!ActorsOf(l)
  /\ Runtime!Actors = RuntimeProofs!Actors
  /\ \A l, n : Runtime!FirstWorkers(l, n) = RuntimeProofs!FirstWorkers(l, n)
  /\ \A l, n : Runtime!FirstServers(l, n) = RuntimeProofs!FirstServers(l, n)
  /\ \A l, await : Runtime!Asked(l, await) = RuntimeProofs!Asked(l, await)
  /\ \A l : Runtime!Answered(l) <=> RuntimeProofs!Answered(l)
  /\ Runtime!Started = RuntimeProofs!Started
  /\ \A S : Runtime!Cardinality(S) = RuntimeProofs!Cardinality(S)
<1>1. \A S : Runtime!Cardinality(S) = RuntimeProofs!Cardinality(S)
  BY DEF Runtime!Cardinality, RuntimeProofs!Cardinality
<1>2. QED
  BY <1>1 DEF
     Runtime!Ranks, RuntimeProofs!Ranks,
     Runtime!NodeRanks, RuntimeProofs!NodeRanks,
     Runtime!Worker, RuntimeProofs!Worker,
     Runtime!Server, RuntimeProofs!Server,
     Runtime!WorkersOf, RuntimeProofs!WorkersOf,
     Runtime!ServersOf, RuntimeProofs!ServersOf,
     Runtime!ActorsOf, RuntimeProofs!ActorsOf,
     Runtime!Actors, RuntimeProofs!Actors,
     Runtime!FirstWorkers, RuntimeProofs!FirstWorkers,
     Runtime!FirstServers, RuntimeProofs!FirstServers,
     Runtime!Asked, RuntimeProofs!Asked,
     Runtime!Answered, RuntimeProofs!Answered,
     Runtime!Started, RuntimeProofs!Started

(* The ways a step of a replica ends. *)
LEMMA SameEnds ==
  ASSUME NEW l, NEW created
  PROVE  /\ \A state : Runtime!CleanUp(l, created, state) => RuntimeProofs!CleanUp(l, created, state)
         /\ Runtime!Fail(l, created) => RuntimeProofs!Fail(l, created)
         /\ \A await : Runtime!Advance(l, created, await) => RuntimeProofs!Advance(l, created, await)
<1>1. ASSUME NEW state
      PROVE  Runtime!CleanUp(l, created, state) => RuntimeProofs!CleanUp(l, created, state)
  BY SameActors DEF
     Runtime!CleanUp, RuntimeProofs!CleanUp,
     Runtime!Recorded, RuntimeProofs!Recorded,
     Runtime!Targets, RuntimeProofs!Targets,
     Runtime!AfterKill, RuntimeProofs!AfterKill
<1>2. ASSUME NEW await
      PROVE  Runtime!Advance(l, created, await) => RuntimeProofs!Advance(l, created, await)
  BY SameActors DEF
     Runtime!Advance, RuntimeProofs!Advance,
     Runtime!Recorded, RuntimeProofs!Recorded
<1>3. QED
  BY <1>1, <1>2 DEF Runtime!Fail, RuntimeProofs!Fail

(* The steps of a replica. *)
LEMMA SameSteps ==
  ASSUME NEW l
  PROVE  /\ Runtime!InitFromLease(l) => RuntimeProofs!InitFromLease(l)
         /\ Runtime!HealthyThenCleaned(l) => RuntimeProofs!HealthyThenCleaned(l)
<1>1. /\ Runtime!Start(l) => RuntimeProofs!Start(l)
      /\ Runtime!Reject(l) => RuntimeProofs!Reject(l)
      /\ Runtime!StepFails(l) => RuntimeProofs!StepFails(l)
      /\ Runtime!TimedOut(l) => RuntimeProofs!TimedOut(l)
      /\ Runtime!Cancelled(l) => RuntimeProofs!Cancelled(l)
  BY SameEnds DEF
     Runtime!Start, RuntimeProofs!Start,
     Runtime!Reject, RuntimeProofs!Reject,
     Runtime!StepFails, RuntimeProofs!StepFails,
     Runtime!TimedOut, RuntimeProofs!TimedOut,
     Runtime!Cancelled, RuntimeProofs!Cancelled,
     Runtime!Interrupted, RuntimeProofs!Interrupted,
     Runtime!Awaiting, RuntimeProofs!Awaiting,
     Runtime!Awaits, RuntimeProofs!Awaits
<1>2. /\ Runtime!CreateWorkers(l) => RuntimeProofs!CreateWorkers(l)
      /\ Runtime!LaunchServers(l) => RuntimeProofs!LaunchServers(l)
  BY SameEnds, SameActors DEF
     Runtime!CreateWorkers, RuntimeProofs!CreateWorkers,
     Runtime!LaunchServers, RuntimeProofs!LaunchServers
<1>3. /\ Runtime!WorkersValid(l) => RuntimeProofs!WorkersValid(l)
      /\ Runtime!EngineUp(l) => RuntimeProofs!EngineUp(l)
      /\ Runtime!ServersValid(l) => RuntimeProofs!ServersValid(l)
      /\ Runtime!Healthy(l) => RuntimeProofs!Healthy(l)
      /\ Runtime!HealthyThenCleaned(l) => RuntimeProofs!HealthyThenCleaned(l)
  BY SameEnds, SameActors DEF
     Runtime!WorkersValid, RuntimeProofs!WorkersValid,
     Runtime!EngineUp, RuntimeProofs!EngineUp,
     Runtime!ServersValid, RuntimeProofs!ServersValid,
     Runtime!Healthy, RuntimeProofs!Healthy,
     Runtime!HealthyThenCleaned, RuntimeProofs!HealthyThenCleaned
<1>4. QED
  BY <1>1, <1>2, <1>3 DEF Runtime!InitFromLease, RuntimeProofs!InitFromLease

(* What the theorems about init_from_lease say of a replica of the system. *)
LEMMA RuntimeStep ==
  ASSUME RuntimeProofs!IInv, NEW l \in Leases,
         Runtime!InitFromLease(l) \/ Runtime!HealthyThenCleaned(l)
  PROVE  RuntimeProofs!IInv' /\ RuntimeProofs!OthersFinal(l)
BY RuntimeAssumption, SameSteps, SameActors, RuntimeProofs!ReplicaStep, RuntimeProofs!SmokeStep

-----------------------------------------------------------------------------
(* The composition *)

(* Nothing is known and nothing is built. *)
LEMMA InitIInv == Init => IInv
<1> SUFFICES ASSUME Init PROVE IInv
  OBVIOUS
<1>1. Manager!IInv
  BY TableInit DEF Init
<1>2. Manager!Known = {}
  BY DEF Init, Manager!Init, Manager!Known
<1>3. RuntimeProofs!IInv
  <2>1. RuntimeProofs!Init
    BY <1>2, SameActors DEF Init, Runtime!Init, RuntimeProofs!Init,
       Runtime!NoCleanup, RuntimeProofs!NoCleanup, ExpiredLeases, Manager!Known
  <2>2. QED
    BY <2>1, RuntimeAssumption, SameActors, RuntimeProofs!InitIInv
<1>4. \A l \in Leases : at[l] = "constructed"
  BY DEF Init, Runtime!Init
<1>5. QED
  BY <1>1, <1>2, <1>3, <1>4 DEF IInv, RecordMatchesRuntime, ReadyKept, Init

(* A step of the table that no replica takes part in. *)
LEMMA TableStep ==
  ASSUME IInv, [Manager!Next]_Manager!vars, UNCHANGED <<runtimeVars, kept>>,
         Manager!Known' \subseteq Leases,
         Manager!Known \subseteq Manager!Known',
         \A l \in Manager!Known : Manager!StateOf(l)' = Manager!StateOf(l),
         \A l \in Manager!Known' \ Manager!Known : Manager!StateOf(l)' = "CREATING",
         running' = running \cup (Manager!Known' \ Manager!Known)
  PROVE  IInv'
<1>1. Manager!IInv'
  BY TableNext DEF IInv
<1>2. RuntimeProofs!IInv'
  <2>1. UNCHANGED <<at, port, handles, cleanup, askedDead, actor>> /\ ExpiredLeases' \subseteq Leases
    BY DEF runtimeVars, ExpiredLeases, Manager!Known
  <2>2. QED
    BY <2>1, RuntimeAssumption, SameActors, RuntimeProofs!NoReplicaStep DEF IInv
<1>3. /\ RecordMatchesRuntime'
      /\ \A l \in Leases \ Manager!Known' : at'[l] = "constructed"
  <2>1. at' = at
    BY DEF runtimeVars
  <2>2. running \subseteq Manager!Known
    BY DEF IInv, Manager!IInv, Manager!TypeOK
  <2>3. ASSUME NEW l \in Manager!Known'
        PROVE  /\ Manager!StateOf(l)' = "RUNTIME_READY" <=> at'[l] = "ready"
               /\ Manager!StateOf(l)' = "FAILED" => at'[l] = "failed"
               /\ l \in running' <=> at'[l] \notin {"ready", "failed"}
    <3>1. CASE l \in Manager!Known
      BY <2>1, <3>1 DEF IInv, RecordMatchesRuntime
    <3>2. CASE l \notin Manager!Known
      BY <2>1, <3>2 DEF IInv
    <3>3. QED
      BY <3>1, <3>2
  <2>4. QED
    BY <2>1, <2>3 DEF IInv, RecordMatchesRuntime
<1>4. ReadyKept'
  BY DEF ReadyKept, IInv, Runtime!ActorsOf, Runtime!Actors
<1>5. QED
  BY <1>1, <1>2, <1>3, <1>4 DEF IInv

(* How a create call takes what its replica did. *)
Taken(l) ==
  \/ Manager!RuntimeReady(l) /\ at'[l] = "ready" /\ kept' = [kept EXCEPT ![l] = handles'[l]]
  \/ Manager!RuntimeFailed(l) /\ at'[l] = "failed" /\ UNCHANGED kept
  \/ UNCHANGED <<managerVars, kept>> /\ Runtime!Awaiting(l)'
  \/ Manager!CreateCancelled(l) /\ at'[l] = "failed" /\ UNCHANGED kept

(* What the table and the set of running calls look like afterwards. *)
LEMMA TakenTable ==
  ASSUME IInv, NEW l \in running, Taken(l)
  PROVE  /\ Manager!IInv'
         /\ l \in Manager!Known /\ Manager!StateOf(l) = "CREATING"
         /\ Manager!Known' = Manager!Known
         /\ \A k \in Manager!Known \ {l} :
              Manager!StateOf(k)' = Manager!StateOf(k) /\ (k \in running' <=> k \in running)
         /\ \/ /\ Manager!StateOf(l)' = "RUNTIME_READY" /\ at'[l] = "ready" /\ l \notin running'
               /\ kept' = [kept EXCEPT ![l] = handles'[l]]
            \/ /\ Manager!StateOf(l)' = "FAILED" /\ at'[l] = "failed" /\ l \notin running'
               /\ kept' = kept
            \/ /\ Manager!StateOf(l)' = "CREATING" /\ l \in running'
               /\ at'[l] \notin {"ready", "failed"} /\ kept' = kept
            \/ /\ Manager!StateOf(l)' = "CREATING" /\ l \notin running'
               /\ at'[l] = "failed" /\ kept' = kept
<1>1. l \in Manager!Known /\ Manager!Known \subseteq Leases /\ Manager!StateOf(l) = "CREATING"
      /\ borrowed_operations \in [Manager!Known -> Manager!Record]
  BY DEF IInv, Manager!IInv, Manager!TypeOK, Manager!RunningCreating
<1>2. [Manager!Next]_Manager!vars
  BY <1>1 DEF Taken, Manager!Next, managerVars, Manager!vars
<1>3. Manager!IInv'
  BY <1>2, TableNext DEF IInv
<1>4. ASSUME NEW state, Manager!Finish(l, state)
      PROVE  /\ Manager!Known' = Manager!Known /\ Manager!StateOf(l)' = state
             /\ \A k \in Manager!Known \ {l} : Manager!StateOf(k)' = Manager!StateOf(k)
             /\ running' = running \ {l}
  BY <1>1, <1>4 DEF Manager!Finish, Manager!Known, Manager!StateOf, Manager!Record
<1>5. CASE Manager!RuntimeReady(l) /\ at'[l] = "ready" /\ kept' = [kept EXCEPT ![l] = handles'[l]]
  BY <1>1, <1>3, <1>4, <1>5 DEF Manager!RuntimeReady
<1>6. CASE Manager!RuntimeFailed(l) /\ at'[l] = "failed" /\ UNCHANGED kept
  BY <1>1, <1>3, <1>4, <1>6 DEF Manager!RuntimeFailed
<1>7. CASE UNCHANGED <<managerVars, kept>> /\ Runtime!Awaiting(l)'
  BY <1>1, <1>3, <1>7 DEF managerVars, Runtime!Awaiting, Runtime!Awaits,
     Manager!Known, Manager!StateOf
<1>8. CASE Manager!CreateCancelled(l) /\ at'[l] = "failed" /\ UNCHANGED kept
  BY <1>1, <1>3, <1>8 DEF Manager!CreateCancelled, Manager!Known, Manager!StateOf
<1>9. QED
  BY <1>5, <1>6, <1>7, <1>8 DEF Taken

(* A step of a replica and what its create call makes of it. *)
LEMMA CallStep ==
  ASSUME IInv, NEW l \in running, Taken(l),
         Runtime!InitFromLease(l) \/ Runtime!HealthyThenCleaned(l)
  PROVE  IInv'
<1>1. l \in Leases
  BY DEF IInv, Manager!IInv, Manager!TypeOK
<1>2. RuntimeProofs!IInv' /\ \A k \in Leases \ {l} : at'[k] = at[k]
  BY <1>1, RuntimeStep DEF IInv, RuntimeProofs!OthersFinal, RuntimeProofs!Final
<1>3. RecordMatchesRuntime' /\ \A k \in Leases \ Manager!Known' : at'[k] = "constructed"
  <2>1. ASSUME NEW k \in Manager!Known'
        PROVE  /\ Manager!StateOf(k)' = "RUNTIME_READY" <=> at'[k] = "ready"
               /\ Manager!StateOf(k)' = "FAILED" => at'[k] = "failed"
               /\ k \in running' <=> at'[k] \notin {"ready", "failed"}
    <3>1. CASE k = l
      BY <3>1, TakenTable
    <3>2. CASE k # l
      <4>1. k \in Leases /\ k \in Manager!Known
        BY TakenTable DEF IInv, Manager!IInv, Manager!TypeOK
      <4>2. QED
        BY <1>2, <3>2, <4>1, TakenTable DEF IInv, RecordMatchesRuntime
    <3>3. QED
      BY <3>1, <3>2
  <2>2. ASSUME NEW k \in Leases \ Manager!Known' PROVE at'[k] = "constructed"
    BY <1>2, <2>2, TakenTable DEF IInv
  <2>3. QED
    BY <2>1, <2>2 DEF RecordMatchesRuntime
<1>4. ReadyKept'
  <2>1. /\ handles'[l] \subseteq Runtime!ActorsOf(l)
        /\ at'[l] = "ready" => handles'[l] = Runtime!ActorsOf(l)
    <3>1. RuntimeProofs!Progress(l)' /\ RuntimeProofs!TypeOK'
      BY <1>1, <1>2 DEF RuntimeProofs!IInv, RuntimeProofs!Shape
    <3>2. Runtime!ActorsOf(l)' = Runtime!ActorsOf(l)
          /\ Runtime!ActorsOf(l) = RuntimeProofs!ActorsOf(l)
          /\ RuntimeProofs!ActorsOf(l)' = RuntimeProofs!ActorsOf(l)
      BY SameActors DEF
         Runtime!ActorsOf, Runtime!WorkersOf, Runtime!ServersOf,
         RuntimeProofs!ActorsOf, RuntimeProofs!WorkersOf, RuntimeProofs!ServersOf
    <3>3. QED
      BY <1>1, <3>1, <3>2 DEF RuntimeProofs!Progress, RuntimeProofs!HeldAt, RuntimeProofs!TypeOK
  <2>2. Runtime!ActorsOf(l) \subseteq Runtime!Actors
    BY <1>1 DEF Runtime!Actors
  <2>3. /\ kept' \in [Leases -> SUBSET Runtime!Actors]
        /\ \A k \in Leases : kept'[k] \subseteq Runtime!ActorsOf(k)
        /\ \A k \in Leases \ {l} : kept'[k] = kept[k]
        /\ Manager!StateOf(l)' = "RUNTIME_READY" => kept'[l] = Runtime!ActorsOf(l)
    BY <1>1, <2>1, <2>2, TakenTable DEF IInv, ReadyKept
  <2>4. ASSUME NEW k \in Manager!Known', Manager!StateOf(k)' = "RUNTIME_READY"
        PROVE  kept'[k] = Runtime!ActorsOf(k)
    <3>1. CASE k = l
      BY <2>3, <2>4, <3>1
    <3>2. CASE k # l
      <4>1. k \in Leases /\ k \in Manager!Known
        BY TakenTable DEF IInv, Manager!IInv, Manager!TypeOK
      <4>2. Manager!StateOf(k) = "RUNTIME_READY"
        BY <2>4, <3>2, <4>1, TakenTable
      <4>3. QED
        BY <2>3, <3>2, <4>1, <4>2 DEF IInv, ReadyKept
    <3>3. QED
      BY <3>1, <3>2
  <2>5. QED
    BY <2>3, <2>4 DEF ReadyKept, Runtime!ActorsOf, Runtime!Actors
<1>5. QED
  BY <1>2, <1>3, <1>4, TakenTable DEF IInv

(* A cancelled create call leaves a failed replica and the record CREATING. *)
LEMMA CancelIsTaken ==
  ASSUME IInv, NEW l \in Leases, Cancel(l)
  PROVE  l \in running /\ Runtime!InitFromLease(l) /\ Taken(l)
<1>1. at'[l] = "failed"
  BY DEF Cancel, Runtime!Cancelled, Runtime!Interrupted, Runtime!Fail,
     Runtime!CleanUp, IInv, RuntimeProofs!IInv, RuntimeProofs!Shape, RuntimeProofs!TypeOK
<1>2. QED
  BY <1>1 DEF Cancel, Taken, Runtime!InitFromLease, Manager!CreateCancelled

(* Every step of the system keeps the invariant. *)
LEMMA NextStep == IInv /\ [Next]_vars => IInv'
<1> SUFFICES ASSUME IInv, [Next]_vars PROVE IInv'
  OBVIOUS
<1>0. /\ running \subseteq Manager!Known /\ Manager!Known \subseteq Leases
      /\ borrowed_operations \in [Manager!Known -> Manager!Record]
  BY DEF IInv, Manager!IInv, Manager!TypeOK
<1>1. ASSUME NEW l \in Leases, Create(l) PROVE IInv'
  <2>1. [Manager!Next]_Manager!vars /\ UNCHANGED <<runtimeVars, kept>> /\ Manager!Create(l)
    BY <1>1 DEF Create, Manager!Next
  <2>2. PICK contract \in Contracts, requested \in RequestedRanks \cup {Manager!AnyRank} :
          \/ \E attempt \in Attempts : Manager!CreateNew(l, attempt, contract, requested)
          \/ Manager!CreateRetry(l, contract, requested)
    BY <2>1 DEF Manager!Create
  <2>3. CASE \E attempt \in Attempts : Manager!CreateNew(l, attempt, contract, requested)
    <3>1. /\ l \notin Manager!Known /\ Manager!Known' = Manager!Known \cup {l}
          /\ Manager!StateOf(l)' = "CREATING" /\ running' = running \cup {l}
          /\ \A k \in Manager!Known : Manager!StateOf(k)' = Manager!StateOf(k)
      BY <2>3 DEF Manager!CreateNew, Manager!Known, Manager!StateOf
    <3>2. QED
      BY <1>0, <2>1, <3>1, TableStep
  <2>4. CASE Manager!CreateRetry(l, contract, requested)
    <3>1. borrowed_operations' = borrowed_operations /\ running' = running
      BY <2>4 DEF Manager!CreateRetry
    <3>2. QED
      BY <1>0, <2>1, <3>1, TableStep DEF Manager!Known, Manager!StateOf
  <2>5. QED
    BY <2>2, <2>3, <2>4
<1>2. ASSUME Table \/ Clock PROVE IInv'
  <2>1. /\ [Manager!Next]_Manager!vars /\ UNCHANGED <<runtimeVars, kept>>
        /\ borrowed_operations' = borrowed_operations /\ running' = running
    BY <1>2 DEF Table, Clock, Manager!Next, Manager!Reclaim, Manager!Retire, Manager!Expire
  <2>2. QED
    BY <1>0, <2>1, TableStep DEF Manager!Known, Manager!StateOf
<1>3. ASSUME NEW l \in Leases,
             Begin(l) \/ Resume(l) \/ SmokeCleansUp(l) \/ TimeOut(l) \/ Cancel(l)
      PROVE  IInv'
  <2>1. /\ l \in running /\ Taken(l)
        /\ Runtime!InitFromLease(l) \/ Runtime!HealthyThenCleaned(l)
    <3>1. CASE Begin(l) \/ Resume(l) \/ SmokeCleansUp(l) \/ TimeOut(l)
      BY <3>1 DEF Begin, Resume, SmokeCleansUp, TimeOut, Outcome, Taken, Runtime!InitFromLease
    <3>2. CASE Cancel(l)
      BY <3>2, CancelIsTaken
    <3>3. QED
      BY <1>3, <3>1, <3>2
  <2>2. QED
    BY <2>1, CallStep
<1>4. ASSUME NEW a \in Runtime!Actors, Ray(a) PROVE IInv'
  <2>1. UNCHANGED <<managerVars, kept, at, port, handles, cleanup, askedDead>>
    BY <1>4 DEF Ray, Runtime!ActorStarts, Runtime!ActorDies, Runtime!ActorReaped
  <2>2. RuntimeProofs!IInv'
    <3>1. ExpiredLeases' \subseteq Leases
      BY <1>0, <2>1 DEF managerVars, ExpiredLeases, Manager!Known
    <3>2. \E s \in RuntimeProofs!Started :
            actor[a] # "none" /\ actor' = [actor EXCEPT ![a] = s]
      BY <1>4 DEF Ray, Runtime!ActorStarts, Runtime!ActorDies, Runtime!ActorReaped,
         RuntimeProofs!Started
    <3>3. QED
      BY <1>4, <2>1, <3>1, <3>2, RuntimeAssumption, SameActors, RuntimeProofs!NoReplicaStep
         DEF IInv
  <2>3. Manager!IInv'
    BY <2>1, TableNext DEF IInv, managerVars, Manager!vars
  <2>4. RecordMatchesRuntime' /\ ReadyKept' /\ \A l \in Leases \ Manager!Known' : at'[l] = "constructed"
    BY <2>1 DEF IInv, managerVars, RecordMatchesRuntime, ReadyKept, Manager!Known,
       Manager!StateOf, Runtime!ActorsOf, Runtime!Actors
  <2>5. QED
    BY <2>2, <2>3, <2>4 DEF IInv
<1>5. CASE UNCHANGED vars
  BY <1>0, <1>5, TableStep DEF vars, managerVars, Manager!vars, Manager!Known, Manager!StateOf
<1>6. QED
  BY <1>1, <1>2, <1>3, <1>4, <1>5 DEF Next

(* A record keeps all of a ready replica, and what the two parts promise holds
   in the composition too. *)
THEOREM Invariance == Spec => []IInv
<1>1. Init => IInv
  BY InitIInv
<1>2. IInv /\ [Next]_vars => IInv'
  BY NextStep
<1>3. QED
  BY <1>1, <1>2, PTL DEF Spec

(* The composition runs the table as BorrowManager says: every step is a step of
   the table or leaves it alone (LSM 345-436, 637-674). *)
THEOREM TableRefinement == Spec => Manager!Spec
<1>1. Init => Manager!Init
  BY DEF Init
<1>2. IInv /\ [Next]_vars => [Manager!Next]_Manager!vars
  <2> SUFFICES ASSUME IInv, [Next]_vars PROVE [Manager!Next]_Manager!vars
    OBVIOUS
  <2>1. running \subseteq Leases
    BY DEF IInv, Manager!IInv, Manager!TypeOK
  <2>2. ASSUME NEW l \in Leases,
               Begin(l) \/ Resume(l) \/ SmokeCleansUp(l) \/ TimeOut(l)
        PROVE  [Manager!Next]_Manager!vars
    BY <2>2 DEF Begin, Resume, SmokeCleansUp, TimeOut, Outcome, managerVars, Manager!vars,
       Manager!Next
  <2>3. ASSUME NEW l \in Leases, Create(l) \/ Cancel(l) PROVE Manager!Next
    BY <2>3 DEF Create, Cancel, Manager!Next
  <2>4. ASSUME Table \/ Clock PROVE Manager!Next
    BY <2>4 DEF Table, Clock, Manager!Next
  <2>5. ASSUME NEW a, Ray(a) PROVE UNCHANGED Manager!vars
    BY <2>5 DEF Ray, managerVars, Manager!vars
  <2>6. CASE UNCHANGED vars
    BY <2>6 DEF vars, managerVars, Manager!vars
  <2>7. QED
    BY <2>2, <2>3, <2>4, <2>5, <2>6 DEF Next
<1>3. QED
  BY <1>1, <1>2, Invariance, PTL DEF Spec, Manager!Spec

(* Both parts keep their types, and a record holds handles of its own replica. *)
THEOREM TypeCorrect == Spec => []TypeOK
<1>1. IInv => TypeOK
  <2> SUFFICES ASSUME IInv PROVE TypeOK
    OBVIOUS
  <2>1. Runtime!TypeOK
    BY SameActors DEF IInv, RuntimeProofs!IInv, RuntimeProofs!Shape, RuntimeProofs!TypeOK,
       Runtime!TypeOK, RuntimeProofs!Awaits, Runtime!Awaits,
       RuntimeProofs!ActorStates, Runtime!ActorStates
  <2>2. QED
    BY <2>1 DEF IInv, TypeOK, Manager!IInv, ReadyKept
<1>2. QED
  BY <1>1, Invariance, PTL

(* A record says of its replica what is true of it, in every state between two
   awaits of a create call (LSM 403-436). *)
THEOREM RecordsAreTrue == Spec => []RecordMatchesRuntime
<1>1. IInv => RecordMatchesRuntime
  BY DEF IInv
<1>2. QED
  BY <1>1, Invariance, PTL

(* Whoever was told RUNTIME_READY reaches a runtime that is whole or gone. *)
THEOREM ReadyIsReachable == Spec => []ReadyIsKept
<1>1. IInv => ReadyIsKept
  <2> SUFFICES ASSUME IInv, NEW answer \in told, answer.state = "RUNTIME_READY"
               PROVE  LET l == answer.lease
                      IN /\ kept[l] = Runtime!ActorsOf(l)
                         /\ \/ cleanup[l] = Runtime!NoCleanup
                            \/ cleanup[l].requested \cup cleanup[l].errors = Runtime!ActorsOf(l)
    BY DEF ReadyIsKept
  <2> DEFINE l == answer.lease
  <2>1. l \in Manager!Known /\ l \in Leases /\ Manager!StateOf(l) = "RUNTIME_READY"
    BY DEF IInv, Manager!IInv, Manager!TypeOK, Manager!ToldTrue, Manager!Terminal
  <2> HIDE DEF l
  <2>2. kept[l] = Runtime!ActorsOf(l) /\ at[l] = "ready"
    BY <2>1 DEF IInv, ReadyKept, RecordMatchesRuntime
  <2>3. RuntimeProofs!Progress(l)
    BY <2>1 DEF IInv, RuntimeProofs!IInv
  <2>4. \/ cleanup[l] = Runtime!NoCleanup
        \/ cleanup[l].requested \cup cleanup[l].errors = Runtime!ActorsOf(l)
    BY <2>2, <2>3, SameActors DEF RuntimeProofs!Progress, RuntimeProofs!Covered,
       RuntimeProofs!HeldAt, RuntimeProofs!NoCleanup, Runtime!NoCleanup
  <2>5. QED
    BY <2>2, <2>4 DEF l
<1>2. QED
  BY <1>1, Invariance, PTL

(* Idempotency, distinct ranks and cleanups that reach everything survive the
   composition. *)
THEOREM PartsHold ==
  Spec => [](Manager!AnswersAgree /\ Manager!RanksDistinct
             /\ Runtime!HandlesComplete /\ Runtime!NoOrphans)
<1>1. IInv => Manager!AnswersAgree /\ Manager!RanksDistinct
  BY DEF IInv, Manager!IInv, Manager!AnswersAgree, Manager!RanksDistinct, Manager!ToldTrue,
     Manager!RankOf, Manager!Terminal
<1>2. IInv => Runtime!HandlesComplete
  BY SameActors DEF IInv, RuntimeProofs!IInv, RuntimeProofs!HandlesComplete,
     Runtime!HandlesComplete
<1>3. IInv => Runtime!NoOrphans
  <2> SUFFICES ASSUME IInv, NEW r \in Leases, at[r] = "failed"
               PROVE  /\ port[r] # "running"
                      /\ \A a \in Runtime!ActorsOf(r) : actor[a] # "none" =>
                           a \in cleanup[r].requested \cup cleanup[r].errors
    BY DEF Runtime!NoOrphans
  <2>1. RuntimeProofs!Progress(r)
        /\ {a \in Runtime!ActorsOf(r) : actor[a] # "none"} = handles[r]
    BY <1>2 DEF IInv, RuntimeProofs!IInv, Runtime!HandlesComplete
  <2>2. QED
    BY <2>1 DEF RuntimeProofs!Progress, RuntimeProofs!Covered
<1>4. QED
  BY <1>1, <1>2, <1>3, Invariance, PTL

(* A step leaves all replicas alone, or it is that of a running create call. *)
LEMMA ReplicaOrNone ==
  ASSUME IInv, [Next]_vars
  PROVE  \/ UNCHANGED <<at, port, handles, cleanup>>
         \/ \E l \in running : /\ Runtime!InitFromLease(l) \/ Runtime!HealthyThenCleaned(l)
                               /\ Taken(l)
<1>1. ASSUME NEW l, Create(l) PROVE UNCHANGED <<at, port, handles, cleanup>>
  BY <1>1 DEF Create, runtimeVars
<1>2. ASSUME Table \/ Clock PROVE UNCHANGED <<at, port, handles, cleanup>>
  BY <1>2 DEF Table, Clock, runtimeVars
<1>3. ASSUME NEW a, Ray(a) PROVE UNCHANGED <<at, port, handles, cleanup>>
  BY <1>3 DEF Ray, Runtime!ActorStarts, Runtime!ActorDies, Runtime!ActorReaped
<1>4. ASSUME NEW l, Begin(l) \/ Resume(l) \/ SmokeCleansUp(l) \/ TimeOut(l)
      PROVE  l \in running /\ Taken(l)
             /\ (Runtime!InitFromLease(l) \/ Runtime!HealthyThenCleaned(l))
  BY <1>4 DEF Begin, Resume, SmokeCleansUp, TimeOut, Outcome, Taken, Runtime!InitFromLease
<1>5. ASSUME NEW l \in Leases, Cancel(l)
      PROVE  l \in running /\ Runtime!InitFromLease(l) /\ Taken(l)
  BY <1>5, CancelIsTaken
<1>6. CASE UNCHANGED vars
  BY <1>6 DEF vars, runtimeVars
<1>7. QED
  BY <1>1, <1>2, <1>3, <1>4, <1>5, <1>6 DEF Next

(* What a step leaves of the outcomes. *)
LEMMA OutcomeStep ==
  ASSUME IInv, [Next]_vars, NEW l \in Leases, at[l] \in {"ready", "failed"}
  PROVE  at'[l] = at[l] /\ handles'[l] = handles[l] /\ cleanup'[l] = cleanup[l]
<1>1. CASE UNCHANGED <<at, handles, cleanup>>
  BY <1>1
<1>2. ASSUME NEW k \in running, Runtime!InitFromLease(k) \/ Runtime!HealthyThenCleaned(k)
      PROVE  at'[l] = at[l] /\ handles'[l] = handles[l] /\ cleanup'[l] = cleanup[l]
  <2>1. k \in Leases
    BY DEF IInv, Manager!IInv, Manager!TypeOK
  <2>2. RuntimeProofs!OthersFinal(k)
    BY <1>2, <2>1, RuntimeStep DEF IInv
  <2>3. QED
    BY <2>2 DEF RuntimeProofs!OthersFinal, RuntimeProofs!Final
<1>3. QED
  BY <1>1, <1>2, ReplicaOrNone

(* Whatever moves while a create call runs, an outcome is final for both parts:
   a replica that is ready or failed keeps its handles and its cleanup result,
   and a record keeps its operation, contract and rank, and once it has an
   outcome, all of itself. *)
THEOREM OutcomesArePermanent == Spec => Runtime!OutcomeFinal /\ Manager!RecordsPermanent
<1>1. IInv /\ [Next]_vars =>
        [\A r \in Leases : at[r] \in {"ready", "failed"} =>
           at'[r] = at[r] /\ handles'[r] = handles[r] /\ cleanup'[r] = cleanup[r]]_Runtime!vars
  BY OutcomeStep
<1>2. Spec => Runtime!OutcomeFinal
  <2>1. Spec =>
          [][\A r \in Leases : at[r] \in {"ready", "failed"} =>
               at'[r] = at[r] /\ handles'[r] = handles[r] /\ cleanup'[r] = cleanup[r]]_Runtime!vars
    BY <1>1, Invariance, PTL DEF Spec
  <2>2. QED
    BY <2>1 DEF Runtime!OutcomeFinal
<1>3. [Manager!Next]_Manager!vars => [ManagerProofs!Next]_ManagerProofs!vars
  BY SameTable DEF Manager!vars, ManagerProofs!vars
<1>4. Manager!Spec => ManagerProofs!Spec
  BY <1>3, SameTable, PTL DEF Manager!Spec, ManagerProofs!Spec
<1>5. ManagerProofs!Spec => ManagerProofs!RecordsPermanent
  BY TableAssumption, ManagerProofs!RecordsArePermanent DEF IsFiniteSet, ManagerProofs!IsFiniteSet
<1>6. ManagerProofs!RecordsPermanent => Manager!RecordsPermanent
  BY DEF ManagerProofs!RecordsPermanent, Manager!RecordsPermanent, Manager!vars, ManagerProofs!vars,
     Manager!Known, ManagerProofs!Known, Manager!StateOf, ManagerProofs!StateOf,
     Manager!Terminal, ManagerProofs!Terminal
<1>7. QED
  BY <1>2, <1>4, <1>5, <1>6, TableRefinement, PTL

(* The lease of a replica that becomes ready is valid, and all its actors have
   been started. *)
LEMMA ReadyByAnswer ==
  ASSUME IInv, NEW l \in Leases, at[l] # "ready", at'[l] = "ready",
         Runtime!InitFromLease(l) \/ Runtime!HealthyThenCleaned(l)
  PROVE  /\ l \notin ExpiredLeases
         /\ \A a \in Runtime!ActorsOf(l) : actor[a] \in Runtime!Started
<1>1. at[l] = "address" /\ l \notin ExpiredLeases
  <2>1. CASE Runtime!HealthyThenCleaned(l)
    BY <2>1 DEF Runtime!HealthyThenCleaned
  <2>2. CASE Runtime!InitFromLease(l)
    <3>1. RuntimeProofs!Next
      BY <2>2, SameSteps DEF RuntimeProofs!Next
    <3>2. RuntimeProofs!Healthy(l) /\ l \notin ExpiredLeases
      BY <3>1, RuntimeAssumption, SameActors, RuntimeProofs!ReadyByHealth DEF IInv
    <3>3. QED
      BY <3>2 DEF RuntimeProofs!Healthy
  <2>3. QED
    BY <2>1, <2>2
<1>2. RuntimeProofs!Heard(l)
  BY DEF IInv, RuntimeProofs!IInv
<1>3. QED
  BY <1>1, <1>2, SameActors DEF RuntimeProofs!Heard, RuntimeProofs!HeardAt

(* A replica becomes ready only under the contract in its record, with all its
   actors started and none asked to die, and its record becomes RUNTIME_READY in
   the same step. *)
THEOREM ReadyIsUnderLease == Spec => ReadyUnderLease
<1>1. ASSUME IInv, [Next]_vars, NEW l \in Leases, at[l] # "ready", at'[l] = "ready"
      PROVE  /\ l \in Manager!Known /\ borrowed_operations[l].contract \notin expired
             /\ \A a \in Runtime!ActorsOf(l) : actor[a] \in Runtime!Started
             /\ Manager!StateOf(l)' = "RUNTIME_READY"
  <2>1. PICK k \in running : /\ Runtime!InitFromLease(k) \/ Runtime!HealthyThenCleaned(k)
                             /\ Taken(k)
    BY <1>1, ReplicaOrNone
  <2>2. k \in Leases
    BY <1>1 DEF IInv, Manager!IInv, Manager!TypeOK
  <2>3. k = l
    BY <1>1, <2>1, <2>2, RuntimeStep DEF IInv, RuntimeProofs!OthersFinal, RuntimeProofs!Final
  <2>4. l \in Manager!Known /\ Manager!StateOf(l)' = "RUNTIME_READY"
    BY <1>1, <2>1, <2>3, TakenTable
  <2>5. /\ l \notin ExpiredLeases
        /\ \A a \in Runtime!ActorsOf(l) : actor[a] \in Runtime!Started
    BY <1>1, <2>1, <2>3, ReadyByAnswer
  <2>6. borrowed_operations[l].contract \notin expired
    BY <2>4, <2>5 DEF ExpiredLeases, Manager!Known
  <2>7. QED
    BY <2>4, <2>5, <2>6
<1>2. IInv /\ [Next]_vars =>
        [\A l \in Leases : at[l] # "ready" /\ at'[l] = "ready" =>
           /\ l \in Manager!Known /\ borrowed_operations[l].contract \notin expired
           /\ \A a \in Runtime!ActorsOf(l) : actor[a] \in Runtime!Started
           /\ Manager!StateOf(l)' = "RUNTIME_READY"]_vars
  BY <1>1
<1>3. QED
  BY <1>2, Invariance, PTL DEF Spec, ReadyUnderLease
=============================================================================
