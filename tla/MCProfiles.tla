----------------------------- MODULE MCProfiles -----------------------------
EXTENDS Profiles, TLC

CONSTANTS p1, p2, a, b

(* One profile is registered; a second id is left for a registration.       *)
FirstDocument == p1 :> a

(* Two kills, so that a recovery is interrupted too, and a power loss after *)
(* one or both: the first kill may be of a command that changed nothing.    *)
Faults == {<<1, 0>>, <<2, 0>>, <<1, 1>>, <<2, 1>>}
=============================================================================
