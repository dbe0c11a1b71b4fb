------------------------------ MODULE MCReauth ------------------------------
(* Two commands on one profile, two transactions, two kills and one power   *)
(* loss: a recovery of an interrupted recovery, and a command that passed   *)
(* its preflight before the other one was interrupted.                      *)
EXTENDS Reauth
=============================================================================
