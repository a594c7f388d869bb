---------------------------- MODULE MCControlPath ----------------------------
(* Instances of ControlPath for TLC. *)
EXTENDS ControlPath, TLC

Symmetry == Permutations(Cockpits)
=============================================================================
