------------------------------ MODULE Routing ------------------------------
(***************************************************************************)
(* The routing definitions (routing.rs, routing/validation.rs,             *)
(* commands/routing.rs): trust domains, pools of their profiles, and the   *)
(* commands that edit them.  A command reads the document, checks its      *)
(* mutation against it, verifies the provider identity of every member     *)
(* under that member's lease, and commits only when the revision has not   *)
(* moved since.                                                            *)
(*                                                                         *)
(* One provider, so one name space; aliases are left out, and a rename     *)
(* only moves the revision.  A document is read and replaced in one step   *)
(* under its lock.  Size limits are left out.                              *)
(***************************************************************************)
EXTENDS Integers, FiniteSets, Sequences, SequencesExt, Leases

CONSTANTS
  Domain, Pool, \* ids of trust domains and pools
  MemberList,   \* member lists that commands name
  Definitions0, \* the document at the start
  Editor,       \* routing commands
  MaxRevision   \* bound on revisions

VARIABLES
  defs,    \* the definitions document
  editor   \* Editor -> state of the command

routing == <<defs, lease, editor>>

(* Definitions::validate *)
Valid(d) ==
  /\ \A x, y \in DOMAIN d.domains : x # y => d.domains[x] \cap d.domains[y] = {}
  /\ \A q \in DOMAIN d.pools :
       /\ d.pools[q].domain \in DOMAIN d.domains
       /\ Len(d.pools[q].members) >= 2 /\ IsInjective(d.pools[q].members)
       /\ Range(d.pools[q].members) \subseteq d.domains[d.pools[q].domain]

(* struct Definitions, its lists keyed by id. *)
IsDefinitions(d) ==
  /\ d = [revision |-> d.revision, domains |-> d.domains, pools |-> d.pools]
  /\ d.revision \in 0..MaxRevision
  /\ DOMAIN d.domains \subseteq Domain
  /\ \A x \in DOMAIN d.domains : d.domains[x] \subseteq Profile
  /\ DOMAIN d.pools \subseteq Pool
  /\ \A q \in DOMAIN d.pools :
       d.pools[q] \in [domain : Domain, active : BOOLEAN, members : Seq(Profile)]

ASSUME RoutingAssumption ==
  /\ MaxRevision \in Nat /\ MemberList \subseteq Seq(Profile)
  /\ Domain \cap Pool = {}
  /\ Free \notin Editor /\ IsDefinitions(Definitions0) /\ Valid(Definitions0)

-----------------------------------------------------------------------------
(* Mutations. *)

Mutation ==
  {[kind |-> "Rename"]}   \* RenameDomain, RenamePool
    \cup [kind : {"RemoveDomain"}, id : Domain]
    \cup [kind : {"RemovePool", "Disable", "Enable"}, id : Pool]
    \cup [kind : {"CreateDomain", "ReplaceDomainMembers"}, id : Domain, members : MemberList]
    \cup [kind : {"CreatePool"}, id : Pool, domain : Domain, members : MemberList]
    \cup [kind : {"ReplacePoolMembers"}, id : Pool, members : MemberList]

With(f, x, v) == [y \in DOMAIN f \cup {x} |-> IF y = x THEN v ELSE f[y]]
Without(f, x) == [y \in DOMAIN f \ {x} |-> f[y]]

(* apply_mutation: the documents it may leave, none when it refuses. *)
ApplyMutation(d, m) ==
  LET domains(f) == {[d EXCEPT !.domains = f]}
      pools(f) == {[d EXCEPT !.pools = f]}
      known == m.id \in DOMAIN d.domains \cup DOMAIN d.pools
      active == m.id \in DOMAIN d.pools /\ d.pools[m.id].active
  IN CASE m.kind = "Rename" -> {d}
       [] m.kind = "CreateDomain" ->
            IF known THEN {} ELSE domains(With(d.domains, m.id, Range(m.members)))
       [] m.kind = "CreatePool" ->
            IF known \/ m.domain \notin DOMAIN d.domains THEN {}
            ELSE pools(With(d.pools, m.id, [domain |-> m.domain, active |-> FALSE,
                                            members |-> m.members]))
       [] m.kind \notin {"Rename", "CreateDomain", "CreatePool"} /\ ~known -> {}
       [] m.kind = "ReplaceDomainMembers" /\ known ->
            domains([d.domains EXCEPT ![m.id] = Range(m.members)])
       [] m.kind = "RemoveDomain" /\ known ->
            IF \E q \in DOMAIN d.pools : d.pools[q].domain = m.id THEN {}
            ELSE domains(Without(d.domains, m.id))
       [] m.kind = "ReplacePoolMembers" /\ known ->
            IF active THEN {} ELSE pools([d.pools EXCEPT ![m.id].members = m.members])
       [] m.kind = "RemovePool" /\ known ->
            IF active THEN {} ELSE pools(Without(d.pools, m.id))
       [] m.kind \in {"Enable", "Disable"} /\ known ->
            pools([d.pools EXCEPT ![m.id].active = (m.kind = "Enable")])

(* Definitions::apply: a change moves the revision.  A rename to the same   *)
(* alias changes nothing and is left out.                                   *)
Apply(d, m) ==
  {[n EXCEPT !.revision = IF n = d /\ m.kind # "Rename" THEN @ ELSE @ + 1] :
     n \in {n \in ApplyMutation(d, m) : Valid(n)}}

-----------------------------------------------------------------------------
(* Commands. *)

Idle == [pc |-> "idle"]
Ended == [pc |-> "ended"]

(* membership_validation: whom the command has to verify. *)
ToVerify(d, m) ==
  CASE m.kind \in {"CreateDomain", "ReplaceDomainMembers", "CreatePool", "ReplacePoolMembers"} ->
         Range(m.members)
    [] m.kind = "Enable" -> Range(d.pools[m.id].members)
    [] OTHER -> {}

(* The command reads the document; preflight refuses a mutation it does not *)
(* allow.                                                                   *)
EditRead(e, m) ==
  /\ editor[e] = Idle /\ defs.revision < MaxRevision
  /\ Apply(defs, m) # {}
  /\ editor' = [editor EXCEPT ![e] =
                  [pc |-> "edit", mutation |-> m, revision |-> defs.revision,
                   todo |-> ToVerify(defs, m)]]
  /\ UNCHANGED <<defs, lease>>

(* validate_members: in the order of ids, each lease is taken and kept. *)
EditVerify(e) ==
  /\ editor[e].pc = "edit" /\ editor[e].todo # {}
  /\ \/ \E p \in editor[e].todo :
          /\ \A q \in editor[e].todo : p <= q
          /\ lease[p] = Free
          /\ lease' = [lease EXCEPT ![p] = e]
          /\ editor' = [editor EXCEPT ![e].todo = @ \ {p}]
     \/ /\ editor' = [editor EXCEPT ![e] = Ended]   \* busy, missing or not verified
        /\ lease' = Released(e)
  /\ UNCHANGED defs

(* Mutant of Committed: the revision is not compared. *)
CommittedUnseen(e) ==
  IF Apply(defs, editor[e].mutation) = {} THEN {defs}
  ELSE Apply(defs, editor[e].mutation)

Committed(e) ==
  IF defs.revision = editor[e].revision THEN Apply(defs, editor[e].mutation)
  ELSE {defs}   \* RevisionConflict

(* Store::commit, then the leases of the proofs are dropped. *)
EditCommit(e) ==
  /\ editor[e].pc = "edit" /\ editor[e].todo = {}
  /\ defs' \in Committed(e)
  /\ editor' = [editor EXCEPT ![e] = Ended]
  /\ lease' = Released(e)

Edit(e) == (\E m \in Mutation : EditRead(e, m)) \/ EditVerify(e) \/ EditCommit(e)
=============================================================================
