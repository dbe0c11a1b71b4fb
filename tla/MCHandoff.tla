----------------------------- MODULE MCHandoff -----------------------------
(* Small instances of the handoff for TLC. *)
EXTENDS Handoff, TLC

CONSTANTS pa, pb, w1

MCDrivers == Permutations(Client)
MCPrints == 0..1

(* The head a driver holds is read only between leasing the source and       *)
(* preparing the transition; elsewhere it is overwritten before it is read.  *)
MCView ==
  <<document, issued, provider, coordinator, driver, requests, kills,
    [k \in Client |-> IF driver[k].pc \in {"selecting", "reserved"} THEN held[k] ELSE Absent]>>

(* One thread of profile pa, and two that may be forked. *)
MCThreads3 == 1..3
MCOneOfA == (1 :> [profile |-> pa, cwd |-> w1])
=============================================================================
