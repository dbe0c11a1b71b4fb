-------------------------- MODULE MCRegistryStore --------------------------
(* Two processes and a handful of calls on one conversation registry. *)
EXTENDS RegistryStore

MCOps == 1..4
=============================================================================
