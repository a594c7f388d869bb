---------------------------- MODULE MCHostGateway ----------------------------
(* Model-checking instances of HostGateway. *)
EXTENDS HostGateway, TLC

ConnSymmetry == Permutations(Conns)
=============================================================================
