---------------------------- MODULE BorrowManager ----------------------------
(***************************************************************************)
(* The borrowed-runtime table of MultiTaskLLMServerManager: one record per *)
(* borrower lease, the replica ranks it allocates, and the receipts it     *)
(* gives to callers that create, retry, reclaim and retire concurrently.   *)
(*                                                                         *)
(* The manager lives in one asyncio event loop.  A section under           *)
(* replica_operation_lock contains no await and the lock is never held     *)
(* across one, so each section is one atomic step here; validation runs    *)
(* right before the section, with no await in between, and is part of it.  *)
(* The only place where a create call is suspended is init_from_lease: the *)
(* set "running" holds the leases whose create coroutine is there.         *)
(* ReplicaRuntime models what happens inside; here the call ends ready,    *)
(* failed, or cancelled.  A call that raises before it changes the table   *)
(* is a stuttering step.                                                   *)
(***************************************************************************)
EXTENDS Integers, FiniteSets

CONSTANTS
  Leases,          \* borrower lease ids
  Attempts,        \* operation ids, one per caller attempt
  Contracts,       \* frozen create requests, without lease, operation id, rank
  Owners,          \* borrower task ids
  OwnerOf,         \* [Contracts -> Owners]: borrower_task_id of a contract
  RequestedRanks,  \* explicit replica_rank values callers may ask for
  NativeRanks,     \* ranks of the native, hybrid and alive replicas
  StartRank        \* constructor argument start_rank

ASSUME ContractAssumption == OwnerOf \in [Contracts -> Owners]
ASSUME RankAssumption ==
  /\ RequestedRanks \subseteq Nat
  /\ NativeRanks \subseteq Nat
  /\ IsFiniteSet(NativeRanks)
  /\ StartRank \in Int
ASSUME FiniteLeases == IsFiniteSet(Leases)

VARIABLES
  borrowed_operations,    \* [known leases -> record]
  next_replica_rank,      \* where the search for a free rank starts
  retired_replica_ranks,  \* ranks retired by their owner
  expired,                \* contracts whose expires_at has passed
  running,                \* leases whose create call is in init_from_lease
  told                    \* history: every receipt a caller has received

vars == <<borrowed_operations, next_replica_rank, retired_replica_ranks,
          expired, running, told>>

-----------------------------------------------------------------------------
(* Records, receipts, ranks *)

AnyRank == -1                             \* replica_rank absent or None
Terminal == {"RUNTIME_READY", "FAILED"}
States == {"CREATING"} \cup Terminal

Record == [operation_id : Attempts, contract : Contracts,
           replica_rank : Nat, state : States]

Known == DOMAIN borrowed_operations
RankOf(l) == borrowed_operations[l].replica_rank
StateOf(l) == borrowed_operations[l].state
BorrowedRanks == {RankOf(l) : l \in Known}

(* A receipt as its caller sees it. *)
Answer == [lease : Leases, operation_id : Attempts, replica_rank : Nat, state : States]

Receipt(l, record) ==
  [lease |-> l, operation_id |-> record.operation_id,
   replica_rank |-> record.replica_rank, state |-> record.state]

(* MUTANTS of the rank bookkeeping *)
UsedRanksNoNative == retired_replica_ranks \cup BorrowedRanks
UsedRanksFailedFreed ==
  NativeRanks \cup {RankOf(l) : l \in {k \in Known : StateOf(k) # "FAILED"}}

(* Every rank that must never be allocated again. *)
UsedRanks == retired_replica_ranks \cup NativeRanks \cup BorrowedRanks

(* The first rank at or above "from" outside "used". *)
FirstFree(from, used) ==
  CHOOSE r \in from .. (from + Cardinality(used)) :
    r \notin used /\ \A s \in from .. (r - 1) : s \in used

AllocatedRankNoDefault(requested) == requested
NextCursorAutoOnly(requested, rank) ==
  IF requested = AnyRank THEN rank + 1 ELSE next_replica_rank

AllocatedRank(requested) ==
  IF requested = AnyRank
    THEN FirstFree(IF next_replica_rank > 0 THEN next_replica_rank ELSE 0, UsedRanks)
    ELSE requested

(* An explicit rank only ever pushes the cursor forward. *)
NextCursor(requested, rank) ==
  IF requested # AnyRank /\ next_replica_rank > rank
    THEN next_replica_rank
    ELSE rank + 1

(* A retry may omit the rank or name the one that was assigned; its own
   operation id is neither compared nor remembered. *)
SameRequest(record, contract, requested) ==
  /\ record.contract = contract
  /\ requested \in {AnyRank, record.replica_rank}

AttemptUnusedUnchecked(attempt) == TRUE
AttemptUnused(attempt) ==
  \A l \in Known : borrowed_operations[l].operation_id # attempt

-----------------------------------------------------------------------------
Init ==
  /\ borrowed_operations = [l \in {} |-> {}]
  /\ next_replica_rank = StartRank
  /\ retired_replica_ranks = {}
  /\ expired = {}
  /\ running = {}
  /\ told = {}

(* create_borrowed_replica for a lease without a record: allocate the rank,
   freeze the request, and leave the lock to build the runtime. *)
CreateNew(l, attempt, contract, requested) ==
  /\ contract \notin expired
  /\ l \notin Known
  /\ AttemptUnused(attempt)
  /\ requested \notin UsedRanks
  /\ LET rank == AllocatedRank(requested)
         record == [operation_id |-> attempt, contract |-> contract,
                    replica_rank |-> rank, state |-> "CREATING"]
     IN  /\ borrowed_operations' =
              [k \in Known \cup {l} |-> IF k = l THEN record ELSE borrowed_operations[k]]
         /\ next_replica_rank' = NextCursor(requested, rank)
  /\ running' = running \cup {l}
  /\ UNCHANGED <<retired_replica_ranks, expired, told>>

(* MUTANT: a retry of a failed creation builds the runtime again. *)
CreateRetryRestarts(l, contract, requested) ==
  /\ contract \notin expired
  /\ l \in Known
  /\ SameRequest(borrowed_operations[l], contract, requested)
  /\ told' = told \cup {Receipt(l, borrowed_operations[l])}
  /\ borrowed_operations' =
       IF StateOf(l) = "FAILED"
         THEN [borrowed_operations EXCEPT ![l].state = "CREATING"]
         ELSE borrowed_operations
  /\ running' = IF StateOf(l) = "FAILED" THEN running \cup {l} ELSE running
  /\ UNCHANGED <<next_replica_rank, retired_replica_ranks, expired>>

(* create_borrowed_replica for a lease that has a record of the same request:
   the stored result, or the in-progress receipt; nothing is created. *)
CreateRetry(l, contract, requested) ==
  /\ contract \notin expired
  /\ l \in Known
  /\ SameRequest(borrowed_operations[l], contract, requested)
  /\ told' = told \cup {Receipt(l, borrowed_operations[l])}
  /\ UNCHANGED <<borrowed_operations, next_replica_rank, retired_replica_ranks,
                 expired, running>>

(* The create call of l resumes after init_from_lease and stores the result
   its caller, and every later one, receives. *)
Finish(l, state) ==
  LET record == [borrowed_operations[l] EXCEPT !.state = state]
  IN  /\ l \in running
      /\ borrowed_operations' = [borrowed_operations EXCEPT ![l] = record]
      /\ told' = told \cup {Receipt(l, record)}
      /\ running' = running \ {l}
      /\ UNCHANGED <<next_replica_rank, retired_replica_ranks, expired>>

(* init_from_lease returned: it has just seen that the lease is not expired. *)
RuntimeReady(l) ==
  /\ l \in Known /\ borrowed_operations[l].contract \notin expired
  /\ Finish(l, "RUNTIME_READY")

(* The replica could not be constructed, or init_from_lease raised. *)
RuntimeFailed(l) == Finish(l, "FAILED")

(* The create call is cancelled inside init_from_lease.  CancelledError is not
   an Exception, so the handler does not run: no state, no result. *)
CreateCancelled(l) ==
  /\ l \in running
  /\ running' = running \ {l}
  /\ UNCHANGED <<borrowed_operations, next_replica_rank, retired_replica_ranks,
                 expired, told>>

(* reclaim_replica: a reserved entry that reports and changes nothing. *)
Reclaim(l) ==
  /\ l \in Known
  /\ told' = told \cup {Receipt(l, borrowed_operations[l])}
  /\ UNCHANGED <<borrowed_operations, next_replica_rank, retired_replica_ranks,
                 expired, running>>

(* MUTANT: retiring a rank also forgets the records that hold it. *)
RetireForgets(rank, owner) ==
  /\ \E l \in Known :
       RankOf(l) = rank /\ OwnerOf[borrowed_operations[l].contract] = owner
  /\ retired_replica_ranks' = retired_replica_ranks \cup {rank}
  /\ borrowed_operations' =
       [l \in {k \in Known : RankOf(k) # rank} |-> borrowed_operations[l]]
  /\ UNCHANGED <<next_replica_rank, expired, running, told>>

(* retire_replica_rank: only the task a record names may retire its rank. *)
Retire(rank, owner) ==
  /\ \E l \in Known :
       RankOf(l) = rank /\ OwnerOf[borrowed_operations[l].contract] = owner
  /\ retired_replica_ranks' = retired_replica_ranks \cup {rank}
  /\ UNCHANGED <<borrowed_operations, next_replica_rank, expired, running, told>>

(* The wall clock passes expires_at of a contract. *)
Expire(contract) ==
  /\ contract \notin expired
  /\ expired' = expired \cup {contract}
  /\ UNCHANGED <<borrowed_operations, next_replica_rank, retired_replica_ranks,
                 running, told>>

Create(l) ==
  \E contract \in Contracts, requested \in RequestedRanks \cup {AnyRank} :
    \/ \E attempt \in Attempts : CreateNew(l, attempt, contract, requested)
    \/ CreateRetry(l, contract, requested)

Next ==
  \/ \E l \in Leases :
       \/ Create(l)
       \/ RuntimeReady(l)
       \/ RuntimeFailed(l)
       \/ CreateCancelled(l)
       \/ Reclaim(l)
  \/ \E rank \in BorrowedRanks, owner \in Owners : Retire(rank, owner)
  \/ \E contract \in Contracts : Expire(contract)

Spec == Init /\ [][Next]_vars

-----------------------------------------------------------------------------
(* Every variable holds a value of its type; only known leases are running. *)
TypeOK ==
  /\ Known \subseteq Leases
  /\ borrowed_operations \in [Known -> Record]
  /\ next_replica_rank \in Int
  /\ retired_replica_ranks \subseteq Nat
  /\ expired \subseteq Contracts
  /\ running \subseteq Known
  /\ told \subseteq Answer

(* No two leases ever hold the same replica rank, and none holds the rank of a
   native replica, whatever mix of automatic and requested ranks, failures and
   retirements came before (_allocate_replica_rank_locked, _used_replica_ranks). *)
RanksDistinct ==
  /\ \A k, l \in Known : RankOf(k) = RankOf(l) => k = l
  /\ \A l \in Known : RankOf(l) \notin NativeRanks

(* The operation id of a record names one lease only: actor names are built
   from rank and operation id, so two records must not share one. *)
OperationsDistinct ==
  \A k, l \in Known :
    borrowed_operations[k].operation_id = borrowed_operations[l].operation_id => k = l

(* Every rank given out lies below the cursor, so that an automatic rank is
   larger than every rank any borrower has been given before it. *)
CursorAhead == \A l \in Known : RankOf(l) < next_replica_rank

(* Idempotency as the callers see it: all receipts ever given for a lease name
   the same operation and the same rank, no two of them report different
   outcomes, and receipts for two leases never name the same rank. *)
AnswersAgree ==
  \A a, b \in told :
    IF a.lease = b.lease
      THEN /\ a.operation_id = b.operation_id
           /\ a.replica_rank = b.replica_rank
           /\ {a.state, b.state} \subseteq Terminal => a.state = b.state
      ELSE a.replica_rank # b.replica_rank

(* A lease that has a record keeps it for ever with the same request and rank,
   and the outcome in a record is written once: no retry, reclaim, retirement
   or late resumption of a create call changes it. *)
RecordsPermanent ==
  [][/\ Known \subseteq Known'
     /\ \A l \in Known :
          /\ \A f \in {"operation_id", "contract", "replica_rank"} :
               borrowed_operations'[l][f] = borrowed_operations[l][f]
          /\ StateOf(l) \in Terminal => borrowed_operations'[l] = borrowed_operations[l]]_vars

-----------------------------------------------------------------------------
(* The strengthening that makes the invariants above inductive. *)

(* A retired rank belongs to a record: retiring adds nothing to the used ranks. *)
RetiredOwned == retired_replica_ranks \subseteq BorrowedRanks

(* A create call inside init_from_lease finds its record still CREATING. *)
RunningCreating == \A l \in running : StateOf(l) = "CREATING"

(* Every receipt given still agrees with the record it was made from. *)
ToldTrue ==
  \A a \in told :
    /\ a.lease \in Known
    /\ a.operation_id = borrowed_operations[a.lease].operation_id
    /\ a.replica_rank = RankOf(a.lease)
    /\ a.state \in Terminal => StateOf(a.lease) = a.state

IInv ==
  /\ TypeOK
  /\ RanksDistinct
  /\ OperationsDistinct
  /\ CursorAhead
  /\ RetiredOwned
  /\ RunningCreating
  /\ ToldTrue

-----------------------------------------------------------------------------
(* The manager's table as a ledger: its records are the grants. *)
LedgerOutcome(state) ==
  IF state = "CREATING" THEN "pending"
  ELSE IF state = "RUNTIME_READY" THEN "ready" ELSE "failed"

Ledger == INSTANCE LeaseLedger WITH
  Reserved <- NativeRanks,
  rankOf   <- [l \in Known |-> RankOf(l)],
  outcome  <- [l \in Known |-> LedgerOutcome(StateOf(l))]

(* The manager implements the ledger: a lease gets one fresh rank and at most
   one outcome, and every other step leaves the ledger alone. *)
ImplementsLedger == Ledger!Spec

-----------------------------------------------------------------------------
(* What the repository's own text says and the code does not keep. *)

(* The in-progress receipt says that creation "is still running". *)
CreatingIsRunning == \A l \in Known : StateOf(l) = "CREATING" => l \in running

(* Ranks are allocated monotonically increasing. *)
RanksIncrease ==
  [][\A l \in Known' \ Known : \A k \in Known : RankOf(k) < borrowed_operations'[l].replica_rank]_vars

(* The retired ranks are those whose life cycle has completed. *)
RetiredHaveEnded ==
  \A l \in Known : RankOf(l) \in retired_replica_ranks => StateOf(l) = "FAILED"
=============================================================================
