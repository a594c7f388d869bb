------------------------- MODULE MCClientSupervisor -------------------------
(* Model-checking instances of ClientSupervisor. *)
EXTENDS ClientSupervisor, TLC

SlotSymmetry == Permutations(Slots)
=============================================================================
