------------------------------- MODULE Leases -------------------------------
(***************************************************************************)
(* Profiles and their exclusive leases (Registry::lock_profile), as the    *)
(* modules of usage, routing and selection share them.  A command that     *)
(* cannot have a lease at once is refused.                                 *)
(***************************************************************************)
EXTENDS Integers, FiniteSets

CONSTANTS
  Profile,   \* profile ids, ordered
  Free       \* nobody holds the lease

ASSUME ProfileAssumption == Profile \subseteq Nat /\ IsFiniteSet(Profile)

VARIABLE lease   \* Profile -> the process that holds its lease, or Free

Holding(x) == {p \in Profile : lease[p] = x}
Released(x) == [p \in Profile |-> IF lease[p] = x THEN Free ELSE lease[p]]
=============================================================================
