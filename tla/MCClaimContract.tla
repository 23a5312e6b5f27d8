--------------------------- MODULE MCClaimContract ---------------------------
(* Two nodes of two devices each, and a second bundle that names the first
   device of the first node. *)
EXTENDS ClaimContract, TLC

CONSTANTS s1, s2, s3, s4, s5, n1, n2

MCNodeOf == (s1 :> n1) @@ (s2 :> n1) @@ (s3 :> n2) @@ (s4 :> n2) @@ (s5 :> n1)
MCDeviceOf == (s1 :> 0) @@ (s2 :> 1) @@ (s3 :> 0) @@ (s4 :> 1) @@ (s5 :> 0)

(* Ranks as listed, with two claims exchanged, and with a rank used twice. *)
MCRankLists == {[i \in 0 .. 3 |-> i],
                (0 :> 0) @@ (1 :> 2) @@ (2 :> 1) @@ (3 :> 3),
                (0 :> 0) @@ (1 :> 1) @@ (2 :> 1) @@ (3 :> 3)}
=============================================================================
