------------------------- MODULE ReplicaRuntimeProofs -------------------------
(***************************************************************************)
(* Proofs about ReplicaRuntime for any replicas, sizes, bundles and number *)
(* of failing kill requests.                                               *)
(*                                                                         *)
(* IInv ties the handles a replica holds to the await it is suspended in,  *)
(* and with them the actors it has heard from, and the cleanup of a failed *)
(* one to its handles.                                                     *)
(***************************************************************************)
EXTENDS ReplicaRuntime, FiniteSetTheorems, TLAPS

Positions == Awaits \cup {"constructed", "ready", "failed"}
Cleanups == [requested : SUBSET Actors, errors : SUBSET Actors]

Shape ==
  /\ TypeOK
  /\ handles \in [Replicas -> SUBSET Actors]
  /\ cleanup \in [Replicas -> Cleanups]

(* What r holds when it is suspended in an await, or is ready. *)
HeldAt(r, await) ==
  CASE await \in {"constructed", "port"} -> {}
    [] await \in {"workers", "launch"} -> WorkersOf(r)
    [] await \in {"engine", "servers", "address", "ready"} -> ActorsOf(r)

(* What r has an answer of before it comes to an await. *)
HeardAt(r, await) ==
  IF await \in {"launch", "engine"} THEN WorkersOf(r)
  ELSE IF await \in {"servers", "address"} THEN ActorsOf(r)
  ELSE {}

(* Who has answered had been started, and is not asked to die while r waits. *)
Heard(r) == \A a \in HeardAt(r, at[r]) : actor[a] \in Started

(* The cleanup of r reached everything it holds. *)
Covered(r) == cleanup[r].requested \cup cleanup[r].errors = handles[r]

(* The smoke, as a caller, may have cleaned a ready replica up. *)
Progress(r) ==
  /\ port[r] = "running" => at[r] = "port"
  /\ at[r] # "failed" => handles[r] = HeldAt(r, at[r])
  /\ at[r] \notin {"ready", "failed"} => cleanup[r] = NoCleanup
  /\ at[r] = "failed" => Covered(r)
  /\ at[r] = "ready" => cleanup[r] = NoCleanup \/ Covered(r)

IInv ==
  /\ Shape
  /\ HandlesComplete
  /\ \A r \in Replicas : Progress(r) /\ Heard(r)

(* Over, or not: a step of r moves no other replica and only an r that is not
   over. *)
Final(r) ==
  at'[r] = at[r] /\ handles'[r] = handles[r] /\ cleanup'[r] = cleanup[r]
OthersFinal(r) ==
  /\ at[r] \notin {"ready", "failed"}
  /\ \A q \in Replicas \ {r} : Final(q)

-----------------------------------------------------------------------------
(* Actors *)

(* An actor belongs to one replica. *)
LEMMA OwnActors ==
  /\ \A r \in Replicas : ActorsOf(r) \subseteq Actors /\ WorkersOf(r) \subseteq ActorsOf(r)
                         /\ ServersOf(r) \subseteq ActorsOf(r)
  /\ \A r, q : r # q => ActorsOf(r) \cap ActorsOf(q) = {}
<1>1. ASSUME NEW r \in Replicas
      PROVE  ActorsOf(r) \subseteq Actors /\ WorkersOf(r) \subseteq ActorsOf(r)
             /\ ServersOf(r) \subseteq ActorsOf(r)
  BY DEF Actors, ActorsOf
<1>2. ASSUME NEW r, NEW a \in ActorsOf(r) PROVE a[1] = r
  BY DEF ActorsOf, WorkersOf, ServersOf, Worker, Server
<1>3. QED
  BY <1>1, <1>2

(* The actors of a creation that stopped early are the replica's own. *)
LEMMA FirstActors ==
  /\ \A r \in Replicas, n \in 0 .. WorldSize : FirstWorkers(r, n) \subseteq ActorsOf(r)
  /\ \A r \in Replicas, n \in 0 .. Cardinality(NodeRanks) : FirstServers(r, n) \subseteq ActorsOf(r)
<1>1. ASSUME NEW r \in Replicas, NEW n \in 0 .. WorldSize
      PROVE  FirstWorkers(r, n) \subseteq ActorsOf(r)
  BY SizeAssumption DEF FirstWorkers, ActorsOf, WorkersOf, Ranks
<1>2. ASSUME NEW r \in Replicas, NEW n \in 0 .. Cardinality(NodeRanks)
      PROVE  FirstServers(r, n) \subseteq ActorsOf(r)
  <2> DEFINE nodes == WorldSize \div PerNode
  <2>1. nodes \in Nat
    BY SizeAssumption
  <2>2. Cardinality(NodeRanks) = nodes
    <3> HIDE DEF nodes
    <3>1. Cardinality(0 .. (nodes - 1)) = nodes
      BY <2>1, FS_Interval
    <3>2. QED
      BY <3>1 DEF NodeRanks, nodes
  <2>3. n \in 0 .. nodes /\ NodeRanks = 0 .. (nodes - 1)
    BY <2>2 DEF NodeRanks
  <2> HIDE DEF nodes
  <2>4. QED
    BY <2>1, <2>3 DEF FirstServers, ActorsOf, ServersOf
<1>3. QED
  BY <1>1, <1>2

-----------------------------------------------------------------------------
(* The two ways a step of a replica ends. *)

(* A replica that is cleaned up, with the actors "created" on the way, holds all
   it ever created and has asked all of it to die; no other replica notices. *)
LEMMA CleanUpStep ==
  ASSUME IInv, NEW r \in Replicas, NEW created \in SUBSET ActorsOf(r),
         NEW state \in {"ready", "failed"},
         at[r] \notin {"ready", "failed"},
         state = "ready" => handles[r] \cup created = ActorsOf(r),
         CleanUp(r, created, state),
         port' \in [Replicas -> {"none", "running", "done", "cancelled"}],
         port'[r] # "running",
         \A q \in Replicas \ {r} : port'[q] = port[q]
  PROVE  IInv' /\ OthersFinal(r)
<1> DEFINE held == Recorded(r, created)
           now(a) == IF a \in created THEN "pending" ELSE actor[a]
<1> USE DEF IInv, Shape
<1>1. PICK errors \in SUBSET Targets(held) :
        /\ actor' = [a \in Actors |->
                       IF a \in Targets(held) \ errors THEN AfterKill(now(a)) ELSE now(a)]
        /\ handles' = [handles EXCEPT ![r] = held]
        /\ cleanup' = [cleanup EXCEPT ![r] =
                         [requested |-> Targets(held) \ errors, errors |-> errors]]
        /\ at' = [at EXCEPT ![r] = state]
        /\ askedDead' = askedDead \ {r}
        /\ UNCHANGED expired
  BY DEF CleanUp
<1>2. held = handles[r] \cup created /\ held \subseteq ActorsOf(r) /\ Targets(held) = held
  BY DEF Recorded, Targets, TypeOK
<1>3. ActorsOf(r) \subseteq Actors
  BY OwnActors
<1>4. \A a \in Actors :
        /\ actor'[a] \in ActorStates
        /\ actor'[a] # "none" <=> (actor[a] # "none" \/ a \in created)
  <2>1. \A a \in Actors : now(a) \in ActorStates
                          /\ (now(a) # "none" <=> (actor[a] # "none" \/ a \in created))
    BY DEF TypeOK, ActorStates
  <2>2. \A s \in ActorStates : AfterKill(s) \in ActorStates
                               /\ (AfterKill(s) # "none" <=> s # "none")
    BY DEF ActorStates, AfterKill
  <2>3. \A a \in Actors : actor'[a] = now(a) \/ actor'[a] = AfterKill(now(a))
    BY <1>1
  <2> HIDE DEF now
  <2>4. QED
    BY <2>1, <2>2, <2>3
<1>5. /\ at'[r] = state /\ handles'[r] = held
      /\ cleanup'[r].requested \cup cleanup'[r].errors = held
      /\ cleanup'[r].requested \cup cleanup'[r].errors \subseteq handles'[r]
  <2>1. at'[r] = state /\ handles'[r] = held
    BY <1>1 DEF TypeOK
  <2>2. cleanup'[r] = [requested |-> held \ errors, errors |-> errors] /\ errors \subseteq held
    BY <1>1, <1>2 DEF TypeOK
  <2> HIDE DEF held
  <2>3. cleanup'[r].requested \cup cleanup'[r].errors = held
    BY <2>2
  <2>4. QED
    BY <2>1, <2>3
<1>6. \A q \in Replicas \ {r} : Final(q)
  BY <1>1 DEF Final, TypeOK
<1>7. Shape'
  <2>1. TypeOK'
    <3>1. at' \in [Replicas -> Awaits \cup {"constructed", "ready", "failed"}]
      BY <1>1 DEF TypeOK
    <3>2. actor' \in [Actors -> ActorStates]
      BY <1>1, <1>4
    <3>3. \A q \in Replicas :
            /\ handles'[q] \subseteq ActorsOf(q)
            /\ cleanup'[q].requested \cup cleanup'[q].errors \subseteq handles'[q]
      BY <1>2, <1>5, <1>6 DEF Final, TypeOK
    <3>4. QED
      BY <1>1, <3>1, <3>2, <3>3 DEF TypeOK
  <2>2. handles' \in [Replicas -> SUBSET Actors]
    BY <1>1, <1>2, <1>3
  <2>3. cleanup' \in [Replicas -> Cleanups]
    <3> DEFINE new == [requested |-> Targets(held) \ errors, errors |-> errors]
    <3>1. new \in Cleanups
      <4>1. Targets(held) \subseteq Actors /\ errors \subseteq Targets(held)
        BY <1>2, <1>3
      <4> HIDE DEF held
      <4>2. QED
        BY <4>1 DEF Cleanups
    <3>2. cleanup' = [cleanup EXCEPT ![r] = new]
      BY <1>1
    <3> HIDE DEF new
    <3>3. QED
      BY <3>1, <3>2
  <2>4. QED
    BY <2>1, <2>2, <2>3
<1>8. HandlesComplete'
  <2>1. ASSUME NEW q \in Replicas
        PROVE  {a \in ActorsOf(q) : actor'[a] # "none"} = handles'[q]
    <3>1. {a \in ActorsOf(q) : actor[a] # "none"} = handles[q] /\ ActorsOf(q) \subseteq Actors
      BY OwnActors DEF HandlesComplete
    <3>2. CASE q = r
      BY <1>2, <1>4, <1>5, <3>1, <3>2
    <3>3. CASE q # r
      <4>1. ActorsOf(q) \cap created = {}
        BY <3>3, OwnActors
      <4>2. handles'[q] = handles[q]
        BY <1>6, <3>3 DEF Final
      <4>3. QED
        BY <1>4, <3>1, <4>1, <4>2
    <3>4. QED
      BY <3>2, <3>3
  <2>2. QED
    BY <2>1 DEF HandlesComplete
<1>9. \A q \in Replicas : Progress(q)'
  <2>1. Progress(r)'
    BY <1>2, <1>5 DEF Progress, Covered, HeldAt, ActorsOf, WorkersOf, ServersOf
  <2>2. ASSUME NEW q \in Replicas \ {r} PROVE Progress(q)'
    BY <1>6 DEF Progress, Final, Covered, HeldAt, ActorsOf, WorkersOf, ServersOf
  <2>3. QED
    BY <2>1, <2>2
<1>10. \A q \in Replicas : Heard(q)'
  <2>1. Heard(r)'
    BY <1>5 DEF Heard, HeardAt
  <2>2. ASSUME NEW q \in Replicas \ {r}, NEW a \in HeardAt(q, at[q])
        PROVE  actor'[a] \in Started
    <3>1. a \in ActorsOf(q) /\ a \in Actors
      BY OwnActors DEF HeardAt
    <3>2. a \notin held /\ a \notin created
      BY <1>2, <3>1, OwnActors
    <3>3. actor'[a] = actor[a]
      BY <1>1, <1>2, <3>1, <3>2
    <3>4. QED
      BY <3>3 DEF Heard
  <2>3. QED
    BY <1>6, <2>1, <2>2 DEF Heard, Final, HeardAt, ActorsOf, WorkersOf, ServersOf
<1>11. QED
  BY <1>6, <1>7, <1>8, <1>9, <1>10 DEF OthersFinal

(* A replica that fails is cleaned up. *)
LEMMA FailStep ==
  ASSUME IInv, NEW r \in Replicas, NEW created \in SUBSET ActorsOf(r),
         at[r] \notin {"ready", "failed"},
         Fail(r, created),
         port' \in [Replicas -> {"none", "running", "done", "cancelled"}],
         port'[r] # "running",
         \A q \in Replicas \ {r} : port'[q] = port[q]
  PROVE  IInv' /\ OthersFinal(r)
BY CleanUpStep DEF Fail

(* A replica that goes on to its next await, or is ready, has recorded what it
   created; no other replica notices. *)
LEMMA AdvanceStep ==
  ASSUME IInv, NEW r \in Replicas, NEW created \in SUBSET ActorsOf(r), NEW await,
         at[r] \notin {"ready", "failed"},
         await \in Awaits \cup {"ready"},
         handles[r] \cup created = HeldAt(r, await),
         \A a \in HeardAt(r, await) : actor[a] \in Started /\ a \notin created,
         Advance(r, created, await),
         port' \in [Replicas -> {"none", "running", "done", "cancelled"}],
         port'[r] = "running" => await = "port",
         \A q \in Replicas \ {r} : port'[q] = port[q]
  PROVE  IInv' /\ OthersFinal(r)
<1> USE DEF IInv, Shape
<1>1. /\ actor' = [a \in Actors |-> IF a \in created THEN "pending" ELSE actor[a]]
      /\ handles' = [handles EXCEPT ![r] = handles[r] \cup created]
      /\ at' = [at EXCEPT ![r] = await]
      /\ askedDead' \subseteq askedDead \cup {r}
      /\ UNCHANGED <<cleanup, expired>>
  BY DEF Advance, Recorded
<1>2. ActorsOf(r) \subseteq Actors
  BY OwnActors
<1>3. \A a \in Actors :
        /\ actor'[a] \in ActorStates
        /\ actor'[a] # "none" <=> (actor[a] # "none" \/ a \in created)
  BY <1>1 DEF TypeOK, ActorStates
<1>4. at'[r] = await /\ handles'[r] = handles[r] \cup created /\ cleanup'[r] = cleanup[r]
  BY <1>1 DEF TypeOK
<1>5. \A q \in Replicas \ {r} : Final(q)
  BY <1>1 DEF Final, TypeOK
<1>6. Shape'
  <2>1. TypeOK'
    <3>1. at' \in [Replicas -> Awaits \cup {"constructed", "ready", "failed"}]
      BY <1>1 DEF TypeOK
    <3>2. actor' \in [Actors -> ActorStates]
      BY <1>1, <1>3
    <3>3. \A q \in Replicas :
            /\ handles'[q] \subseteq ActorsOf(q)
            /\ cleanup'[q].requested \cup cleanup'[q].errors \subseteq handles'[q]
      BY <1>4, <1>5 DEF Final, TypeOK
    <3>4. QED
      BY <1>1, <3>1, <3>2, <3>3 DEF TypeOK
  <2>2. handles' \in [Replicas -> SUBSET Actors]
    BY <1>1, <1>2
  <2>3. QED
    BY <1>1, <2>1, <2>2
<1>7. HandlesComplete'
  <2>1. ASSUME NEW q \in Replicas
        PROVE  {a \in ActorsOf(q) : actor'[a] # "none"} = handles'[q]
    <3>1. {a \in ActorsOf(q) : actor[a] # "none"} = handles[q] /\ ActorsOf(q) \subseteq Actors
      BY OwnActors DEF HandlesComplete
    <3>2. CASE q = r
      BY <1>3, <1>4, <3>1, <3>2
    <3>3. CASE q # r
      <4>1. ActorsOf(q) \cap created = {}
        BY <3>3, OwnActors
      <4>2. handles'[q] = handles[q]
        BY <1>5, <3>3 DEF Final
      <4>3. QED
        BY <1>3, <3>1, <4>1, <4>2
    <3>4. QED
      BY <3>2, <3>3
  <2>2. QED
    BY <2>1 DEF HandlesComplete
<1>8. \A q \in Replicas : Progress(q)'
  <2>1. Progress(r)'
    BY <1>4 DEF Progress, Covered, HeldAt, ActorsOf, WorkersOf, ServersOf, Awaits
  <2>2. ASSUME NEW q \in Replicas \ {r} PROVE Progress(q)'
    BY <1>5 DEF Progress, Final, Covered, HeldAt, ActorsOf, WorkersOf, ServersOf
  <2>3. QED
    BY <2>1, <2>2
<1>9. \A q \in Replicas : Heard(q)'
  <2>1. ASSUME NEW a \in HeardAt(r, await)
        PROVE  actor'[a] \in Started
    <3>1. a \in Actors
      BY <1>2 DEF HeardAt, ActorsOf
    <3>2. QED
      BY <1>1, <3>1
  <2>2. ASSUME NEW q \in Replicas \ {r}, NEW a \in HeardAt(q, at[q])
        PROVE  actor'[a] \in Started
    <3>1. a \in ActorsOf(q) /\ a \in Actors
      BY OwnActors DEF HeardAt
    <3>2. a \notin created
      BY <3>1, OwnActors
    <3>3. actor'[a] = actor[a]
      BY <1>1, <3>1, <3>2
    <3>4. QED
      BY <3>3 DEF Heard
  <2>3. Heard(r)'
    BY <1>4, <2>1 DEF Heard, HeardAt, ActorsOf, WorkersOf, ServersOf
  <2>4. QED
    BY <1>5, <2>2, <2>3 DEF Heard, Final, HeardAt, ActorsOf, WorkersOf, ServersOf
<1>10. QED
  BY <1>5, <1>6, <1>7, <1>8, <1>9 DEF OthersFinal

(* While no replica moves, actors may start and end and leases expire. *)
LEMMA NoReplicaStep ==
  ASSUME IInv, UNCHANGED <<at, port, handles, cleanup, askedDead>>,
         expired' \subseteq Replicas,
         \/ UNCHANGED actor
         \/ \E a \in Actors : \E s \in Started :
              actor[a] # "none" /\ actor' = [actor EXCEPT ![a] = s]
  PROVE  IInv' /\ \A r \in Replicas : Final(r)
<1> USE DEF IInv, Shape
<1>1. /\ actor' \in [Actors -> ActorStates]
      /\ \A a \in Actors : actor'[a] # "none" <=> actor[a] # "none"
      /\ \A a \in Actors : actor[a] \in Started => actor'[a] \in Started
  BY DEF TypeOK, Started, ActorStates
<1>2. Shape'
  <2>1. TypeOK'
    BY <1>1 DEF TypeOK
  <2>2. QED
    BY <2>1 DEF Cleanups
<1>3. HandlesComplete'
  BY <1>1, OwnActors DEF HandlesComplete
<1>4. ASSUME NEW r \in Replicas PROVE Progress(r)' /\ Final(r)
  BY DEF Progress, Final, Covered, HeldAt, ActorsOf, WorkersOf, ServersOf
<1>5. ASSUME NEW r \in Replicas PROVE Heard(r)'
  <2>1. HeardAt(r, at[r]) \subseteq Actors /\ Heard(r)
    BY OwnActors DEF HeardAt
  <2>2. \A a \in HeardAt(r, at[r]) : actor'[a] \in Started
    BY <1>1, <2>1 DEF Heard
  <2>3. QED
    BY <2>2 DEF Heard, HeardAt, ActorsOf, WorkersOf, ServersOf
<1>6. QED
  BY <1>2, <1>3, <1>4, <1>5

(* Ray and the clock change no handle and create no actor. *)
LEMMA EnvironmentStep ==
  ASSUME IInv,
         \/ \E r \in Replicas : LeaseExpires(r)
         \/ \E a \in Actors : ActorStarts(a) \/ ActorDies(a) \/ ActorReaped(a)
  PROVE  IInv' /\ \A r \in Replicas : Final(r)
<1>1. CASE \E r \in Replicas : LeaseExpires(r)
  BY <1>1, NoReplicaStep DEF LeaseExpires, IInv, Shape, TypeOK
<1>2. CASE \E a \in Actors : ActorStarts(a) \/ ActorDies(a) \/ ActorReaped(a)
  <2>1. expired \subseteq Replicas
    BY DEF IInv, Shape, TypeOK
  <2>2. QED
    BY <1>2, <2>1, NoReplicaStep DEF ActorStarts, ActorDies, ActorReaped, Started
<1>3. QED
  BY <1>1, <1>2

(* init_from_lease, await by await. *)
LEMMA ReplicaStep ==
  ASSUME IInv, NEW r \in Replicas, InitFromLease(r)
  PROVE  IInv' /\ OthersFinal(r)
<1> DEFINE Ports == {"none", "running", "done", "cancelled"}
<1>0. /\ port \in [Replicas -> Ports] /\ handles[r] \subseteq ActorsOf(r)
      /\ Progress(r) /\ Heard(r)
      /\ \A w \in WorkersOf(r) : w \notin ServersOf(r)
  BY DEF IInv, Shape, TypeOK, WorkersOf, ServersOf, Worker, Server
<1>1. CASE Start(r)
  <2>1. handles[r] \cup {} = HeldAt(r, "port") /\ HeardAt(r, "port") = {}
    BY <1>0, <1>1 DEF Start, Progress, HeldAt, HeardAt
  <2>2. QED
    BY <1>0, <1>1, <2>1, AdvanceStep DEF Start, Awaits
<1>2. CASE Reject(r)
  BY <1>0, <1>2, FailStep DEF Reject, Progress
<1>3. CASE CreateWorkers(r)
  <2>1. /\ at[r] = "port" /\ port'[r] = "done" /\ port' \in [Replicas -> Ports]
        /\ \A q \in Replicas \ {r} : port'[q] = port[q]
    BY <1>0, <1>3 DEF CreateWorkers
  <2>2. CASE Advance(r, WorkersOf(r), "workers")
    <3>1. handles[r] \cup WorkersOf(r) = HeldAt(r, "workers") /\ HeardAt(r, "workers") = {}
      BY <1>0, <2>1 DEF Progress, HeldAt, HeardAt
    <3>2. QED
      BY <2>1, <2>2, <3>1, OwnActors, AdvanceStep DEF Awaits
  <2>3. CASE \E n \in 0 .. WorldSize : Fail(r, FirstWorkers(r, n))
    BY <2>1, <2>3, FirstActors, FailStep
  <2>4. QED
    BY <1>3, <2>2, <2>3 DEF CreateWorkers
<1>4. CASE WorkersValid(r)
  <2>1. handles[r] \cup {} = HeldAt(r, "launch")
    BY <1>0, <1>4 DEF WorkersValid, Progress, HeldAt
  <2>2. \A a \in HeardAt(r, "launch") : actor[a] \in Started
    BY <1>4 DEF WorkersValid, Answered, Asked, HeardAt
  <2>3. QED
    BY <1>0, <1>4, <2>1, <2>2, AdvanceStep DEF WorkersValid, Progress, Awaits
<1>5. CASE LaunchServers(r)
  <2>1. at[r] = "launch" /\ port' = port /\ port[r] # "running"
    BY <1>0, <1>5 DEF LaunchServers, Progress
  <2>2. CASE Advance(r, ServersOf(r), "engine")
    <3>1. handles[r] \cup ServersOf(r) = HeldAt(r, "engine")
      BY <1>0, <2>1 DEF Progress, HeldAt, ActorsOf
    <3>2. \A a \in HeardAt(r, "engine") : actor[a] \in Started /\ a \notin ServersOf(r)
      BY <1>0, <2>1 DEF Heard, HeardAt
    <3>3. QED
      BY <1>0, <2>1, <2>2, <3>1, <3>2, OwnActors, AdvanceStep DEF Awaits
  <2>3. CASE \E n \in 0 .. Cardinality(NodeRanks) : Fail(r, FirstServers(r, n))
    BY <1>0, <2>1, <2>3, FirstActors, FailStep
  <2>4. QED
    BY <1>5, <2>2, <2>3 DEF LaunchServers
<1>6. CASE EngineUp(r)
  <2>1. handles[r] \cup {} = HeldAt(r, "servers")
    BY <1>0, <1>6 DEF EngineUp, Progress, HeldAt
  <2>2. \A a \in HeardAt(r, "servers") : actor[a] \in Started
    BY <1>0, <1>6 DEF EngineUp, Answered, Asked, Heard, HeardAt, ActorsOf
  <2>3. QED
    BY <1>0, <1>6, <2>1, <2>2, AdvanceStep DEF EngineUp, Progress, Awaits
<1>7. CASE ServersValid(r)
  <2>1. handles[r] \cup {} = HeldAt(r, "address")
    BY <1>0, <1>7 DEF ServersValid, Progress, HeldAt
  <2>2. \A a \in HeardAt(r, "address") : actor[a] \in Started
    BY <1>0, <1>7 DEF ServersValid, Heard, HeardAt
  <2>3. QED
    BY <1>0, <1>7, <2>1, <2>2, AdvanceStep DEF ServersValid, Progress, Awaits
<1>8. CASE Healthy(r)
  <2>1. at[r] = "address" /\ port' = port /\ port[r] # "running"
    BY <1>0, <1>8 DEF Healthy, Progress
  <2>2. CASE Fail(r, {})
    BY <1>0, <2>1, <2>2, FailStep
  <2>3. CASE Advance(r, {}, "ready")
    <3>1. handles[r] \cup {} = HeldAt(r, "ready") /\ HeardAt(r, "ready") = {}
      BY <1>0, <2>1 DEF Progress, HeldAt, HeardAt
    <3>2. QED
      BY <1>0, <2>1, <2>3, <3>1, AdvanceStep
  <2>4. QED
    BY <1>8, <2>2, <2>3 DEF Healthy
<1>9. CASE StepFails(r) \/ TimedOut(r) \/ Cancelled(r)
  <2>1. /\ at[r] \notin {"ready", "failed"} /\ Fail(r, {})
        /\ port'[r] # "running" /\ port' \in [Replicas -> Ports]
        /\ \A q \in Replicas \ {r} : port'[q] = port[q]
    BY <1>0, <1>9 DEF StepFails, TimedOut, Cancelled, Interrupted, Awaiting, Awaits
  <2>2. QED
    BY <2>1, FailStep
<1>10. QED
  BY <1>1, <1>2, <1>3, <1>4, <1>5, <1>6, <1>7, <1>8, <1>9 DEF InitFromLease

-----------------------------------------------------------------------------
(* The invariant *)

(* The invariant holds before any creation. *)
LEMMA InitIInv == Init => IInv
<1> SUFFICES ASSUME Init PROVE IInv
  OBVIOUS
<1>1. TypeOK
  BY DEF Init, TypeOK, ActorStates, NoCleanup
<1>2. handles \in [Replicas -> SUBSET Actors] /\ cleanup \in [Replicas -> Cleanups]
  BY DEF Init, NoCleanup, Cleanups
<1>3. HandlesComplete
  BY OwnActors DEF Init, HandlesComplete
<1>4. \A r \in Replicas : Progress(r) /\ Heard(r)
  BY DEF Init, Progress, HeldAt, Heard, HeardAt
<1>5. QED
  BY <1>1, <1>2, <1>3, <1>4 DEF IInv, Shape

(* The smoke's cleanup behind the health check. *)
LEMMA SmokeStep ==
  ASSUME IInv, NEW r \in Replicas, HealthyThenCleaned(r)
  PROVE  IInv' /\ OthersFinal(r)
<1>1. /\ at[r] = "address" /\ port' = port /\ port[r] # "running"
      /\ port \in [Replicas -> {"none", "running", "done", "cancelled"}]
      /\ handles[r] = ActorsOf(r)
  BY DEF HealthyThenCleaned, IInv, Shape, TypeOK, Progress, HeldAt
<1>2. QED
  BY <1>1, CleanUpStep DEF HealthyThenCleaned

(* A step keeps the invariant and moves no replica that is over. *)
LEMMA NextStep ==
  ASSUME IInv, [Next]_vars
  PROVE  /\ IInv'
         /\ \A r \in Replicas : at[r] \in {"ready", "failed"} => Final(r)
<1>1. CASE \E r \in Replicas : InitFromLease(r)
  BY <1>1, ReplicaStep DEF OthersFinal
<1>2. CASE \/ \E r \in Replicas : LeaseExpires(r)
           \/ \E a \in Actors : ActorStarts(a) \/ ActorDies(a) \/ ActorReaped(a)
  BY <1>2, EnvironmentStep
<1>3. CASE UNCHANGED vars
  BY <1>3, NoReplicaStep DEF vars, IInv, Shape, TypeOK
<1>4. QED
  BY <1>1, <1>2, <1>3 DEF Next

(* What a replica holds fits where it is suspended, in every reachable state of
   init_from_lease (REP 283-317). *)
THEOREM Invariance == Spec => []IInv
<1>1. Init => IInv
  BY InitIInv
<1>2. IInv /\ [Next]_vars => IInv'
  BY NextStep
<1>3. QED
  BY <1>1, <1>2, PTL DEF Spec

(* Every variable keeps its type and a replica holds only its own actors. *)
THEOREM TypeCorrect == Spec => []TypeOK
<1>1. IInv => TypeOK
  BY DEF IInv, Shape
<1>2. QED
  BY <1>1, Invariance, PTL

(* Every actor that exists is held by its replica, so a cleanup at any moment
   reaches everything (REP 198-201). *)
THEOREM NothingForgotten == Spec => []HandlesComplete
<1>1. IInv => HandlesComplete
  BY DEF IInv
<1>2. QED
  BY <1>1, Invariance, PTL

(* A failed replica has asked every actor it ever created to die, or has noted
   the error of the request, and has no port task running (REP 269-281). *)
THEOREM NothingOrphaned == Spec => []NoOrphans
<1>1. IInv => NoOrphans
  <2> SUFFICES ASSUME IInv, NEW r \in Replicas, at[r] = "failed"
               PROVE  /\ port[r] # "running"
                      /\ \A a \in ActorsOf(r) : actor[a] # "none" =>
                           a \in cleanup[r].requested \cup cleanup[r].errors
    BY DEF NoOrphans
  <2>1. Progress(r) /\ {a \in ActorsOf(r) : actor[a] # "none"} = handles[r]
    BY DEF IInv, HandlesComplete
  <2>2. QED
    BY <2>1 DEF Progress, Covered
<1>2. QED
  BY <1>1, Invariance, PTL

(* No late timeout, cancellation or answer changes a ready or failed replica. *)
THEOREM OutcomeIsFinal == Spec => OutcomeFinal
<1>1. IInv /\ [Next]_vars =>
        [\A r \in Replicas : at[r] \in {"ready", "failed"} =>
           at'[r] = at[r] /\ handles'[r] = handles[r] /\ cleanup'[r] = cleanup[r]]_vars
  BY NextStep DEF Final
<1>2. QED
  BY <1>1, Invariance, PTL DEF Spec, OutcomeFinal

(* Only the health check makes a replica ready. *)
LEMMA ReadyByHealth ==
  ASSUME IInv, Next, NEW r \in Replicas, at[r] # "ready", at'[r] = "ready"
  PROVE  Healthy(r) /\ r \notin expired /\ Advance(r, {}, "ready")
<1>1. InitFromLease(r)
  <2>1. PICK q \in Replicas : InitFromLease(q)
    BY EnvironmentStep DEF Next, Final
  <2>2. OthersFinal(q)
    BY <2>1, ReplicaStep
  <2>3. QED
    BY <2>1, <2>2 DEF OthersFinal, Final
<1>2. at \in [Replicas -> Positions]
  BY DEF IInv, Shape, TypeOK, Positions
<1>3. \A created : ~Fail(r, created)
  BY <1>2 DEF Fail, CleanUp
<1>4. \A created, await : Advance(r, created, await) => await = "ready"
  BY <1>2 DEF Advance
<1>5. Healthy(r)
  BY <1>1, <1>3, <1>4 DEF InitFromLease, Start, Reject, CreateWorkers, WorkersValid,
     LaunchServers, EngineUp, ServersValid, StepFails, TimedOut, Cancelled, Interrupted
<1>6. QED
  BY <1>3, <1>5 DEF Healthy

(* A replica becomes ready complete, under a valid lease, when each of its actors
   has been started and none asked to die, and never after a cleanup
   (REP 211-267, 309-313). *)
THEOREM ReadyMeansComplete == Spec => ReadyIsComplete
<1>1. ASSUME IInv, Next, NEW r \in Replicas, at[r] # "ready", at'[r] = "ready"
      PROVE  /\ r \notin expired
             /\ handles'[r] = ActorsOf(r)
             /\ \A a \in ActorsOf(r) : actor[a] \in Started
             /\ cleanup'[r] = NoCleanup
  <2>1. Healthy(r) /\ r \notin expired /\ Advance(r, {}, "ready")
    BY <1>1, ReadyByHealth
  <2>2. IInv'
    BY <1>1, NextStep
  <2>3. handles'[r] = HeldAt(r, "ready")'
    BY <1>1, <2>2 DEF IInv, Progress
  <2>4. \A a \in ActorsOf(r) : actor[a] \in Started
    BY <1>1, <2>1 DEF IInv, Healthy, Heard, HeardAt
  <2>5. cleanup'[r] = NoCleanup
    BY <1>1, <2>1 DEF IInv, Progress, Advance, Healthy
  <2>6. QED
    BY <2>1, <2>3, <2>4, <2>5 DEF HeldAt
<1>2. IInv /\ [Next]_vars =>
        [\A r \in Replicas : at[r] # "ready" /\ at'[r] = "ready" =>
           /\ r \notin expired
           /\ handles'[r] = ActorsOf(r)
           /\ \A a \in ActorsOf(r) : actor[a] \in Started
           /\ cleanup'[r] = NoCleanup]_vars
  BY <1>1
<1>3. QED
  BY <1>2, Invariance, PTL DEF Spec, ReadyIsComplete
=============================================================================
