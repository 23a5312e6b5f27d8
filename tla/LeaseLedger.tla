---------------------------- MODULE LeaseLedger ----------------------------
(***************************************************************************)
(* What a borrower's rollout manager promises about leases, without saying *)
(* how: a lease is granted at most one replica rank, the rank is taken     *)
(* from those nobody holds, and the one runtime built for the lease ends   *)
(* at most once, ready or failed.  Nothing is ever taken back.             *)
(* BorrowManager implements this specification.                            *)
(***************************************************************************)
EXTENDS Integers

CONSTANTS
  Leases,        \* borrower leases the group scheduler may hand out
  Reserved       \* ranks that belong to native replicas

VARIABLES
  rankOf,        \* [granted leases -> rank]
  outcome        \* [granted leases -> "pending", "ready" or "failed"]

ledger == <<rankOf, outcome>>

Granted == DOMAIN rankOf
Taken == Reserved \cup {rankOf[k] : k \in Granted}

Init ==
  /\ Granted = {}
  /\ DOMAIN outcome = {}

(* Lease l receives a rank nobody holds; its runtime starts. *)
Grant(l) ==
  /\ l \notin Granted
  /\ DOMAIN rankOf' = Granted \cup {l}
  /\ DOMAIN outcome' = Granted \cup {l}
  /\ rankOf'[l] \in Nat
  /\ rankOf'[l] \notin Taken
  /\ outcome'[l] = "pending"
  /\ \A k \in Granted : rankOf'[k] = rankOf[k] /\ outcome'[k] = outcome[k]

(* The runtime of lease l ends, for good. *)
Settle(l) ==
  /\ l \in Granted
  /\ outcome[l] = "pending"
  /\ rankOf' = rankOf
  /\ DOMAIN outcome' = DOMAIN outcome
  /\ outcome'[l] \in {"ready", "failed"}
  /\ \A k \in Granted \ {l} : outcome'[k] = outcome[k]

Next == \E l \in Leases : Grant(l) \/ Settle(l)

Spec == Init /\ [][Next]_ledger
=============================================================================
