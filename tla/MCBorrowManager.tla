--------------------------- MODULE MCBorrowManager ---------------------------
(* A small instance of BorrowManager: two leases, two attempts, a contract of
   each of two tasks, ranks 0 and 2 held by native replicas. *)
EXTENDS BorrowManager, TLC

CONSTANTS l1, l2, a1, a2, c1, c2, t1, t2

MCOwnerOf == (c1 :> t1) @@ (c2 :> t2)
MCNative == {0, 2}
MCRequested == {1, 2, 4}

Symmetry == Permutations(Leases) \cup Permutations(Attempts)
=============================================================================
