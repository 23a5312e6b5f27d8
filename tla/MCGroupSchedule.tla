--------------------------- MODULE MCGroupSchedule ---------------------------
(* Small sets of interchangeable TaskRunners. *)
EXTENDS GroupSchedule

CONSTANTS t1, t2, t3
=============================================================================
