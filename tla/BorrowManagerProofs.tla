------------------------- MODULE BorrowManagerProofs -------------------------
(***************************************************************************)
(* Proofs about BorrowManager for any leases, attempts, contracts, ranks   *)
(* and start rank.  The inductive invariant is IInv of that module.        *)
(***************************************************************************)
EXTENDS BorrowManager, Counting

-----------------------------------------------------------------------------
(* The scan for a free rank ends and finds one. *)

(* The "while candidate in used" loop of _allocate_replica_rank_locked ends at
   a rank that nobody uses, not below the cursor it started from. *)
LEMMA FirstFreeIsFree ==
  ASSUME NEW from \in Nat, NEW used, IsFiniteSet(used)
  PROVE  /\ FirstFree(from, used) \in Nat
         /\ from <= FirstFree(from, used)
         /\ FirstFree(from, used) \notin used
<1> DEFINE n == Cardinality(used)
           free == (from .. (from + n)) \ used
<1>1. n \in Nat
  BY FS_CardinalityType
<1>2. free # {}
  <2>1. SUFFICES ASSUME from .. (from + n) \subseteq used PROVE FALSE
    OBVIOUS
  <2>2. Cardinality(from .. (from + n)) <= n
    BY <2>1, FS_Subset
  <2>3. Cardinality(from .. (from + n)) = n + 1
    BY <1>1, FS_Interval
  <2>4. QED
    BY <1>1, <2>2, <2>3
<1>3. free \subseteq Nat
  BY <1>1
<1> HIDE DEF n
<1>4. PICK m \in free : \A k \in free : m <= k
  BY <1>2, <1>3, LeastElement
<1>5. \E r \in from .. (from + n) :
        r \notin used /\ \A s \in from .. (r - 1) : s \in used
  <2>1. \A s \in from .. (m - 1) : s \in used
    BY <1>1, <1>3, <1>4
  <2>2. QED
    BY <1>4, <2>1
<1>6. /\ FirstFree(from, used) \in from .. (from + n)
      /\ FirstFree(from, used) \notin used
  BY <1>5 DEF FirstFree, n
<1>7. QED
  BY <1>1, <1>6

(* Only finitely many ranks are ever used: one per lease, and the native ones. *)
LEMMA UsedRanksFinite ==
  ASSUME TypeOK, RetiredOwned
  PROVE  /\ IsFiniteSet(UsedRanks)
         /\ UsedRanks \subseteq Nat
<1> DEFINE rank == [l \in Known |-> RankOf(l)]
<1>1. IsFiniteSet(Known)
  BY FiniteLeases, FS_Subset DEF TypeOK
<1>2. rank \in Surjection(Known, BorrowedRanks)
  BY DEF Surjection, BorrowedRanks
<1>3. IsFiniteSet(BorrowedRanks)
  <2> HIDE DEF rank
  <2>1. QED
    BY <1>1, <1>2, FS_Surjection
<1>4. UsedRanks = NativeRanks \cup BorrowedRanks
  BY DEF UsedRanks, RetiredOwned
<1>5. IsFiniteSet(UsedRanks)
  BY <1>3, <1>4, RankAssumption, FS_Union
<1>6. BorrowedRanks \subseteq Nat
  BY DEF BorrowedRanks, RankOf, TypeOK, Record
<1>7. QED
  BY <1>4, <1>5, <1>6, RankAssumption

(* Whatever the caller asks for, the rank it is given is a natural number that
   nobody holds, and the cursor moves past it and never back. *)
LEMMA AllocationIsFresh ==
  ASSUME TypeOK, RetiredOwned,
         NEW requested \in RequestedRanks \cup {AnyRank},
         requested \notin UsedRanks
  PROVE  /\ AllocatedRank(requested) \in Nat
         /\ AllocatedRank(requested) \notin UsedRanks
         /\ NextCursor(requested, AllocatedRank(requested)) \in Int
         /\ AllocatedRank(requested) < NextCursor(requested, AllocatedRank(requested))
         /\ next_replica_rank <= NextCursor(requested, AllocatedRank(requested))
<1> DEFINE lo == IF next_replica_rank > 0 THEN next_replica_rank ELSE 0
<1>1. next_replica_rank \in Int /\ lo \in Nat /\ next_replica_rank <= lo
  BY DEF TypeOK
<1>2. CASE requested = AnyRank
  <2>1. AllocatedRank(requested) = FirstFree(lo, UsedRanks)
    BY <1>2 DEF AllocatedRank
  <2>2. NextCursor(requested, AllocatedRank(requested)) = AllocatedRank(requested) + 1
    BY <1>2 DEF NextCursor
  <2> HIDE DEF lo
  <2>3. QED
    BY <1>1, <2>1, <2>2, UsedRanksFinite, FirstFreeIsFree
<1>3. CASE requested # AnyRank
  <2>1. AllocatedRank(requested) = requested /\ requested \in Nat
    BY <1>3, RankAssumption DEF AllocatedRank
  <2>2. QED
    BY <1>1, <1>3, <2>1 DEF NextCursor
<1>4. QED
  BY <1>2, <1>3

-----------------------------------------------------------------------------
(* The invariant *)

(* The invariant holds of an empty table. *)
LEMMA InitIInv == Init => IInv
BY RankAssumption
   DEF Init, IInv, TypeOK, RanksDistinct, OperationsDistinct, CursorAhead,
       RetiredOwned, RunningCreating, ToldTrue, Known, Record

(* A new record: the old ones stay, and the new one holds a fresh rank. *)
LEMMA CreateNewStep ==
  ASSUME IInv, NEW l \in Leases, NEW attempt \in Attempts, NEW contract \in Contracts,
         NEW requested \in RequestedRanks \cup {AnyRank},
         CreateNew(l, attempt, contract, requested)
  PROVE  IInv'
<1> DEFINE rank == AllocatedRank(requested)
           record == [operation_id |-> attempt, contract |-> contract,
                      replica_rank |-> rank, state |-> "CREATING"]
<1>1. /\ l \notin Known
      /\ AttemptUnused(attempt)
      /\ requested \notin UsedRanks
      /\ borrowed_operations' =
           [k \in Known \cup {l} |-> IF k = l THEN record ELSE borrowed_operations[k]]
      /\ next_replica_rank' = NextCursor(requested, rank)
      /\ running' = running \cup {l}
      /\ UNCHANGED <<retired_replica_ranks, expired, told>>
  BY DEF CreateNew
<1>2. /\ rank \in Nat
      /\ rank \notin UsedRanks
      /\ next_replica_rank' \in Int
      /\ rank < next_replica_rank'
      /\ next_replica_rank <= next_replica_rank'
  BY <1>1, AllocationIsFresh DEF IInv
<1> HIDE DEF rank
<1>3. /\ Known' = Known \cup {l}
      /\ borrowed_operations'[l] = record
      /\ \A k \in Known : borrowed_operations'[k] = borrowed_operations[k]
  BY <1>1 DEF Known
<1>4. TypeOK'
  BY <1>1, <1>2, <1>3 DEF IInv, TypeOK, Record, States
<1>5. RanksDistinct'
  BY <1>2, <1>3 DEF IInv, RanksDistinct, RankOf, UsedRanks, BorrowedRanks
<1>6. OperationsDistinct'
  BY <1>1, <1>3 DEF IInv, OperationsDistinct, AttemptUnused
<1>7. CursorAhead'
  BY <1>2, <1>3 DEF IInv, CursorAhead, RankOf, TypeOK, Record
<1>8. RetiredOwned'
  BY <1>1, <1>3 DEF IInv, RetiredOwned, BorrowedRanks, RankOf
<1>9. RunningCreating'
  BY <1>1, <1>3 DEF IInv, RunningCreating, StateOf, TypeOK
<1>10. ToldTrue'
  BY <1>1, <1>3 DEF IInv, ToldTrue, RankOf, StateOf
<1>11. QED
  BY <1>4, <1>5, <1>6, <1>7, <1>8, <1>9, <1>10 DEF IInv

(* The end of a create call: one CREATING record receives its outcome. *)
LEMMA FinishStep ==
  ASSUME IInv, NEW l, NEW state \in Terminal, Finish(l, state)
  PROVE  IInv'
<1> DEFINE record == [borrowed_operations[l] EXCEPT !.state = state]
<1>1. /\ l \in running /\ l \in Known
      /\ borrowed_operations' = [borrowed_operations EXCEPT ![l] = record]
      /\ told' = told \cup {Receipt(l, record)}
      /\ running' = running \ {l}
      /\ UNCHANGED <<next_replica_rank, retired_replica_ranks, expired>>
  BY DEF Finish, IInv, TypeOK
<1>2. borrowed_operations[l] \in Record /\ StateOf(l) = "CREATING"
  BY <1>1 DEF IInv, TypeOK, RunningCreating
<1>3. /\ record \in Record
      /\ record.operation_id = borrowed_operations[l].operation_id
      /\ record.replica_rank = borrowed_operations[l].replica_rank
      /\ record.state = state
  BY <1>2 DEF Record, States
<1> HIDE DEF record
<1>4. /\ Known' = Known
      /\ borrowed_operations'[l] = record
      /\ \A k \in Known : k # l => borrowed_operations'[k] = borrowed_operations[k]
      /\ \A k \in Known : borrowed_operations'[k].replica_rank = RankOf(k)
      /\ \A k \in Known : borrowed_operations'[k].operation_id = borrowed_operations[k].operation_id
  BY <1>1, <1>3 DEF Known, RankOf, IInv, TypeOK
<1>5. TypeOK'
  BY <1>1, <1>3, <1>4 DEF IInv, TypeOK, Receipt, Answer, Record
<1>6. RanksDistinct' /\ CursorAhead'
  BY <1>1, <1>4 DEF IInv, RanksDistinct, CursorAhead, RankOf
<1>7. OperationsDistinct'
  BY <1>4 DEF IInv, OperationsDistinct
<1>8. RetiredOwned'
  BY <1>1, <1>4 DEF IInv, RetiredOwned, BorrowedRanks, RankOf
<1>9. RunningCreating'
  BY <1>1, <1>4 DEF IInv, RunningCreating, StateOf, TypeOK
<1>10. ToldTrue'
  BY <1>1, <1>2, <1>3, <1>4 DEF IInv, ToldTrue, Receipt, RankOf, StateOf, Terminal
<1>11. QED
  BY <1>5, <1>6, <1>7, <1>8, <1>9, <1>10 DEF IInv

(* A receipt made from a record, for a retry or a reclaim. *)
LEMMA ReceiptStep ==
  ASSUME IInv, NEW l \in Known,
         told' = told \cup {Receipt(l, borrowed_operations[l])},
         UNCHANGED <<borrowed_operations, next_replica_rank, retired_replica_ranks,
                     expired, running>>
  PROVE  IInv'
<1>1. Known' = Known
  BY DEF Known
<1>2. borrowed_operations[l] \in Record
  BY DEF IInv, TypeOK
<1>3. TypeOK'
  BY <1>1, <1>2 DEF IInv, TypeOK, Receipt, Answer, Record
<1>4. ToldTrue'
  BY <1>1 DEF IInv, ToldTrue, Receipt, RankOf, StateOf
<1>5. QED
  BY <1>1, <1>3, <1>4
     DEF IInv, RanksDistinct, OperationsDistinct, CursorAhead, RetiredOwned,
         RunningCreating, BorrowedRanks, RankOf, StateOf

(* Steps that leave the table and the receipts alone: a cancelled create call,
   a retirement, the passing of time. *)
LEMMA TableUnchangedStep ==
  ASSUME IInv, UNCHANGED <<borrowed_operations, next_replica_rank, told>>,
         retired_replica_ranks' \subseteq BorrowedRanks,
         expired' \subseteq Contracts, running' \subseteq running
  PROVE  IInv'
<1>1. Known' = Known
  BY DEF Known
<1>2. BorrowedRanks \subseteq Nat
  BY DEF BorrowedRanks, RankOf, IInv, TypeOK, Record
<1>3. QED
  BY <1>1, <1>2
     DEF IInv, TypeOK, RanksDistinct, OperationsDistinct, CursorAhead, RetiredOwned,
         RunningCreating, ToldTrue, BorrowedRanks, RankOf, StateOf

(* The invariant is inductive. *)
LEMMA NextIInv == IInv /\ [Next]_vars => IInv'
<1> SUFFICES ASSUME IInv, [Next]_vars PROVE IInv'
  OBVIOUS
<1>1. ASSUME NEW l \in Leases, NEW attempt \in Attempts, NEW contract \in Contracts,
             NEW requested \in RequestedRanks \cup {AnyRank},
             CreateNew(l, attempt, contract, requested)
      PROVE  IInv'
  BY <1>1, CreateNewStep
<1>2. ASSUME NEW l \in Leases, NEW contract \in Contracts,
             NEW requested \in RequestedRanks \cup {AnyRank},
             CreateRetry(l, contract, requested)
      PROVE  IInv'
  BY <1>2, ReceiptStep DEF CreateRetry
<1>3. ASSUME NEW l \in Leases, RuntimeReady(l) PROVE IInv'
  BY <1>3, FinishStep DEF RuntimeReady, Terminal
<1>4. ASSUME NEW l \in Leases, RuntimeFailed(l) PROVE IInv'
  BY <1>4, FinishStep DEF RuntimeFailed, Terminal
<1>5. ASSUME NEW l \in Leases, CreateCancelled(l) PROVE IInv'
  BY <1>5, TableUnchangedStep DEF CreateCancelled, IInv, RetiredOwned, TypeOK
<1>6. ASSUME NEW l \in Leases, Reclaim(l) PROVE IInv'
  BY <1>6, ReceiptStep DEF Reclaim
<1>7. ASSUME NEW rank \in BorrowedRanks, NEW owner \in Owners, Retire(rank, owner)
      PROVE  IInv'
  BY <1>7, TableUnchangedStep DEF Retire, IInv, RetiredOwned, TypeOK
<1>8. ASSUME NEW contract \in Contracts, Expire(contract) PROVE IInv'
  BY <1>8, TableUnchangedStep DEF Expire, IInv, RetiredOwned, TypeOK
<1>9. CASE UNCHANGED vars
  BY <1>9, TableUnchangedStep DEF vars, IInv, RetiredOwned, TypeOK
<1>10. QED
  BY <1>1, <1>2, <1>3, <1>4, <1>5, <1>6, <1>7, <1>8, <1>9 DEF Next, Create

(* IInv holds in every reachable state, for every instance. *)
THEOREM Invariance == Spec => []IInv
<1>1. Init => IInv
  BY InitIInv
<1>2. IInv /\ [Next]_vars => IInv'
  BY NextIInv
<1>3. QED
  BY <1>1, <1>2, PTL DEF Spec

(* Type correctness of the manager's table, cursor and receipts. *)
THEOREM TypeCorrect == Spec => []TypeOK
<1>1. IInv => TypeOK
  BY DEF IInv
<1>2. QED
  BY <1>1, Invariance, PTL

(* No two leases hold one rank and none holds a native one: the rank half of
   the names of the actors a runtime creates is never ambiguous. *)
THEOREM RanksAreDistinct == Spec => []RanksDistinct
<1>1. IInv => RanksDistinct
  BY DEF IInv
<1>2. QED
  BY <1>1, Invariance, PTL

(* No two records share an operation id. *)
THEOREM OperationsAreDistinct == Spec => []OperationsDistinct
<1>1. IInv => OperationsDistinct
  BY DEF IInv
<1>2. QED
  BY <1>1, Invariance, PTL

(* The cursor stays ahead of every rank given out. *)
THEOREM CursorStaysAhead == Spec => []CursorAhead
<1>1. IInv => CursorAhead
  BY DEF IInv
<1>2. QED
  BY <1>1, Invariance, PTL

(* All receipts for a lease agree with one another, and receipts for different
   leases never name one rank. *)
THEOREM Idempotency == Spec => []AnswersAgree
<1>1. IInv => AnswersAgree
  BY DEF IInv, AnswersAgree, ToldTrue, RanksDistinct
<1>2. QED
  BY <1>1, Invariance, PTL

-----------------------------------------------------------------------------
(* Records are permanent *)

(* How each step changes the table: not at all, by one record more, or by the
   outcome of one CREATING record. *)
LEMMA TableStep ==
  ASSUME IInv, [Next]_vars
  PROVE  \/ UNCHANGED borrowed_operations
         \/ \E l \in Leases :
              /\ l \notin Known
              /\ Known' = Known \cup {l}
              /\ borrowed_operations'[l].replica_rank \in Nat
              /\ borrowed_operations'[l].replica_rank \notin UsedRanks
              /\ borrowed_operations'[l].state = "CREATING"
              /\ \A k \in Known : borrowed_operations'[k] = borrowed_operations[k]
         \/ \E l \in Known, state \in Terminal :
              /\ StateOf(l) = "CREATING"
              /\ borrowed_operations' =
                   [borrowed_operations EXCEPT ![l] = [borrowed_operations[l] EXCEPT !.state = state]]
<1> DEFINE Same == UNCHANGED borrowed_operations
           Added == \E l \in Leases :
              /\ l \notin Known
              /\ Known' = Known \cup {l}
              /\ borrowed_operations'[l].replica_rank \in Nat
              /\ borrowed_operations'[l].replica_rank \notin UsedRanks
              /\ borrowed_operations'[l].state = "CREATING"
              /\ \A k \in Known : borrowed_operations'[k] = borrowed_operations[k]
           Ended == \E l \in Known, state \in Terminal :
              /\ StateOf(l) = "CREATING"
              /\ borrowed_operations' =
                   [borrowed_operations EXCEPT ![l] = [borrowed_operations[l] EXCEPT !.state = state]]
<1>1. ASSUME NEW l \in Leases, NEW attempt \in Attempts, NEW contract \in Contracts,
             NEW requested \in RequestedRanks \cup {AnyRank},
             CreateNew(l, attempt, contract, requested)
      PROVE  Added
  <2> DEFINE record == [operation_id |-> attempt, contract |-> contract,
                        replica_rank |-> AllocatedRank(requested), state |-> "CREATING"]
  <2>1. /\ l \notin Known
        /\ requested \notin UsedRanks
        /\ borrowed_operations' =
             [k \in Known \cup {l} |-> IF k = l THEN record ELSE borrowed_operations[k]]
    BY <1>1 DEF CreateNew
  <2>2. record.replica_rank \in Nat /\ record.replica_rank \notin UsedRanks
    BY <2>1, AllocationIsFresh DEF IInv
  <2>3. record.state = "CREATING"
    OBVIOUS
  <2> HIDE DEF record
  <2>4. /\ Known' = Known \cup {l}
        /\ borrowed_operations'[l] = record
        /\ \A k \in Known : borrowed_operations'[k] = borrowed_operations[k]
    BY <2>1 DEF Known
  <2>5. QED
    BY <2>1, <2>2, <2>3, <2>4
<1>2. ASSUME NEW l \in Leases, NEW state \in Terminal, Finish(l, state)
      PROVE  Ended
  BY <1>2 DEF Finish, IInv, TypeOK, RunningCreating
<1>3. ASSUME NEW l \in Leases, RuntimeReady(l) PROVE Ended
  BY <1>2, <1>3 DEF RuntimeReady, Terminal
<1>4. ASSUME NEW l \in Leases, RuntimeFailed(l) PROVE Ended
  BY <1>2, <1>4 DEF RuntimeFailed, Terminal
<1> HIDE DEF Added, Ended
<1>5. \/ Same \/ Added \/ Ended
  BY <1>1, <1>3, <1>4
     DEF Next, Create, CreateRetry, CreateCancelled, Reclaim, Retire, Expire, vars
<1>6. QED
  BY <1>5 DEF Added, Ended

(* A record, once made, keeps its request and rank, and its outcome is final. *)
THEOREM RecordsArePermanent == Spec => RecordsPermanent
<1> DEFINE Step ==
      /\ Known \subseteq Known'
      /\ \A l \in Known :
           /\ \A f \in {"operation_id", "contract", "replica_rank"} :
                borrowed_operations'[l][f] = borrowed_operations[l][f]
           /\ StateOf(l) \in Terminal => borrowed_operations'[l] = borrowed_operations[l]
<1>1. ASSUME IInv, [Next]_vars PROVE Step
  <2>1. CASE UNCHANGED borrowed_operations
    BY <2>1 DEF Known
  <2>2. ASSUME NEW l \in Leases, Known' = Known \cup {l},
               \A k \in Known : borrowed_operations'[k] = borrowed_operations[k]
        PROVE  Step
    BY <2>2
  <2>3. ASSUME NEW l \in Known, NEW state \in Terminal, StateOf(l) = "CREATING",
               borrowed_operations' =
                 [borrowed_operations EXCEPT ![l] = [borrowed_operations[l] EXCEPT !.state = state]]
        PROVE  Step
    <3>1. Known' = Known
      BY <2>3 DEF Known
    <3>2. StateOf(l) \notin Terminal
      BY <2>3 DEF Terminal
    <3>3. \A k \in Known \ {l} : borrowed_operations'[k] = borrowed_operations[k]
      BY <2>3 DEF Known
    <3>4. \A f \in {"operation_id", "contract", "replica_rank"} :
            borrowed_operations'[l][f] = borrowed_operations[l][f]
      <4>1. borrowed_operations[l] \in Record
        BY <1>1 DEF IInv, TypeOK
      <4>2. borrowed_operations'[l] = [borrowed_operations[l] EXCEPT !.state = state]
        BY <2>3 DEF Known
      <4>3. QED
        BY <4>1, <4>2 DEF Record
    <3>5. QED
      BY <3>1, <3>2, <3>3, <3>4
  <2>4. QED
    BY <1>1, <2>1, <2>2, <2>3, TableStep
<1>2. IInv /\ [Next]_vars => [Step]_vars
  BY <1>1
<1>3. QED
  BY <1>2, Invariance, PTL DEF Spec, RecordsPermanent

-----------------------------------------------------------------------------
(* The manager implements the ledger of leases *)

(* An empty table maps to an empty ledger. *)
LEMMA LedgerInit == Init => Ledger!Init
BY DEF Init, Ledger!Init, Ledger!Granted, Known

(* Each step of the manager is a grant, a settlement, or invisible. *)
LEMMA LedgerStep == IInv /\ [Next]_vars => [Ledger!Next]_Ledger!ledger
<1> SUFFICES ASSUME IInv, [Next]_vars PROVE [Ledger!Next]_Ledger!ledger
  OBVIOUS
<1> DEFINE rankOf == [l \in Known |-> RankOf(l)]
           outcome == [l \in Known |-> LedgerOutcome(StateOf(l))]
<1>1. CASE UNCHANGED borrowed_operations
  BY <1>1 DEF Ledger!ledger, Known, RankOf, StateOf, LedgerOutcome
<1>2. ASSUME NEW l \in Leases, l \notin Known, Known' = Known \cup {l},
             borrowed_operations'[l].replica_rank \in Nat,
             borrowed_operations'[l].replica_rank \notin UsedRanks,
             borrowed_operations'[l].state = "CREATING",
             \A k \in Known : borrowed_operations'[k] = borrowed_operations[k]
      PROVE  Ledger!Grant(l)
  <2>1. /\ rankOf'[l] = borrowed_operations'[l].replica_rank
        /\ outcome'[l] = "pending"
        /\ \A k \in Known : rankOf'[k] = rankOf[k] /\ outcome'[k] = outcome[k]
        /\ DOMAIN rankOf' = Known \cup {l} /\ DOMAIN outcome' = Known \cup {l}
    BY <1>2 DEF RankOf, StateOf, LedgerOutcome
  <2>2. Ledger!Granted = Known /\ Ledger!Taken \subseteq UsedRanks
    BY DEF Ledger!Granted, Ledger!Taken, UsedRanks, BorrowedRanks
  <2>3. QED
    BY <1>2, <2>1, <2>2 DEF Ledger!Grant
<1>3. ASSUME NEW l \in Known, NEW state \in Terminal, StateOf(l) = "CREATING",
             borrowed_operations' =
               [borrowed_operations EXCEPT ![l] = [borrowed_operations[l] EXCEPT !.state = state]]
      PROVE  Ledger!Settle(l)
  <2>1. /\ Known' = Known
        /\ borrowed_operations'[l] = [borrowed_operations[l] EXCEPT !.state = state]
        /\ \A k \in Known \ {l} : borrowed_operations'[k] = borrowed_operations[k]
    BY <1>3 DEF Known
  <2>2. borrowed_operations[l] \in Record
    BY DEF IInv, TypeOK
  <2>3. /\ borrowed_operations'[l].replica_rank = RankOf(l)
        /\ borrowed_operations'[l].state = state
    BY <2>1, <2>2 DEF Record, RankOf
  <2>4. /\ rankOf' = rankOf
        /\ outcome[l] = "pending"
        /\ outcome'[l] \in {"ready", "failed"}
        /\ \A k \in Known \ {l} : outcome'[k] = outcome[k]
    BY <1>3, <2>1, <2>3 DEF RankOf, StateOf, LedgerOutcome, Terminal
  <2>5. QED
    BY <2>1, <2>4 DEF Ledger!Settle, Ledger!Granted
<1>4. QED
  BY <1>1, <1>2, <1>3, TableStep DEF Ledger!Next, IInv, TypeOK

(* The manager's table is a ledger: each lease gets at most one fresh rank and
   at most one outcome, for any interleaving of any number of callers. *)
THEOREM Refinement == Spec => ImplementsLedger
<1>1. Init => Ledger!Init
  BY LedgerInit
<1>2. IInv /\ [Next]_vars => [Ledger!Next]_Ledger!ledger
  BY LedgerStep
<1>3. QED
  BY <1>1, <1>2, Invariance, PTL DEF Spec, ImplementsLedger, Ledger!Spec
=============================================================================
