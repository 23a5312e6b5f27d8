--------------------------- MODULE MCReplicaRuntime ---------------------------
(* Two replicas that claim the same two bundles in opposite order, each bundle
   with room for one borrowed worker: they can block one another. *)
EXTENDS ReplicaRuntime

CONSTANTS r1, r2, b1, b2

MCBundleOf == [r \in Replicas |->
                 [k \in 0 .. 1 |-> IF (r = r1) = (k = 0) THEN b1 ELSE b2]]
=============================================================================
