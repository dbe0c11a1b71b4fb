--------------------------- MODULE AtomicDocument ---------------------------
(***************************************************************************)
(* What a durable registry promises its callers: one document that grows   *)
(* by whole operations, an answer to each operation, and after a power     *)
(* loss a document no older than the last one known to be stable.          *)
(***************************************************************************)
EXTENDS Naturals, Sequences

CONSTANT Op  \* identities of operations, one per call

VARIABLES
  visible,  \* the operations in the document that a reader sees, in order
  stable,   \* the operations that a power loss cannot take away
  answer    \* Op -> what the caller was told

vars == <<visible, stable, answer>>

Answer == {"none", "running", "ok", "uncertain", "error", "lost"}

Contains(s, o) == \E i \in DOMAIN s : s[i] = o

Init ==
  /\ visible = << >>
  /\ stable = << >>
  /\ answer = [o \in Op |-> "none"]

Start(o) ==
  /\ answer[o] = "none"
  /\ answer' = [answer EXCEPT ![o] = "running"]
  /\ UNCHANGED <<visible, stable>>

Publish(o) ==
  /\ answer[o] = "running"
  /\ ~Contains(visible, o)
  /\ visible' = Append(visible, o)
  /\ UNCHANGED <<stable, answer>>

Stabilise ==
  /\ stable' = visible
  /\ UNCHANGED <<visible, answer>>

(* "ok" promises durability, "error" promises that nothing happened, and    *)
(* "uncertain" promises neither; a killed caller hears nothing.             *)
Reply(o, reply) ==
  /\ answer[o] = "running"
  /\ reply \in Answer \ {"none", "running"}
  /\ reply = "ok" => Contains(stable, o)
  /\ reply = "error" => ~Contains(visible, o)
  /\ answer' = [answer EXCEPT ![o] = reply]
  /\ UNCHANGED <<visible, stable>>

(* A power loss ends every running call. *)
PowerLoss ==
  \E n \in Len(stable)..Len(visible) :
    /\ visible' = SubSeq(visible, 1, n)
    /\ stable' = visible'
    /\ answer' = [o \in Op |-> IF answer[o] = "running" THEN "lost" ELSE answer[o]]

Next ==
  \/ \E o \in Op :
       \/ Start(o)
       \/ Publish(o)
       \/ \E reply \in Answer : Reply(o, reply)
  \/ Stabilise
  \/ PowerLoss

Spec == Init /\ [][Next]_vars

=============================================================================
