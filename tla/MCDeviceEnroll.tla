--------------------------- MODULE MCDeviceEnroll ---------------------------
(* Instances of DeviceEnroll for TLC. *)
EXTENDS DeviceEnroll, TLC

Symmetry == Permutations(Slots) \cup Permutations(Vks)
=============================================================================
