------------------------------ MODULE MCBisect ------------------------------
(* Bisect over every length up to 6, with the lengths and sparse point       *)
(* counts that bisect_regression rejects among them.                         *)
EXTENDS Bisect

MCCheckpointCounts == 0..6
MCSparsePointCounts == 1..4
=============================================================================
