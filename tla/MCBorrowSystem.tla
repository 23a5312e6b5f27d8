---------------------------- MODULE MCBorrowSystem ----------------------------
(* Two leases of one contract, each a replica of one worker and one server on
   the same bundle, with room for one borrowed worker; rank 0 is native. *)
EXTENDS BorrowSystem, TLC

CONSTANTS l1, l2, a1, a2, c1, t1, b1

MCOwnerOf == c1 :> t1
MCBundleOf == [l \in Leases |-> [k \in {0} |-> b1]]
MCNative == {0}
MCRequested == {}

Symmetry == Permutations(Leases) \cup Permutations(Attempts)
=============================================================================
