---------------------------- MODULE MCSupervisor ----------------------------
(* Small instances of the supervised session for TLC. *)
EXTENDS Supervisor
=============================================================================
