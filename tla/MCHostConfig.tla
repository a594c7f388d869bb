---------------------------- MODULE MCHostConfig ----------------------------
(* Instances of the host's configuration core.                             *)
EXTENDS HostConfig
=============================================================================
