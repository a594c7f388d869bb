---------------------------- MODULE MCSfuManager ----------------------------
(* Instances of SfuManager for TLC. *)
EXTENDS SfuManager, TLC

CONSTANTS t1, t2, t3

TaskSymmetry == Permutations({t1, t2, t3} \cap Tasks)
=============================================================================
