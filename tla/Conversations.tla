---------------------------- MODULE Conversations ----------------------------
(***************************************************************************)
(* The conversation registry of Calcifer (src/conversations.rs): one       *)
(* document that binds workspaces to provider threads.  Every operation is *)
(* one transaction under conversations.lock, so it is one action here; the *)
(* files underneath are the subject of module RegistryStore.               *)
(*                                                                         *)
(* A conversation is a lineage of generations, each one provider thread    *)
(* under one profile.  A workspace head names the generation that resumes  *)
(* there, or asks the user to select one.  A pending launch owns its       *)
(* workspace from before the provider starts until its threads have been   *)
(* reconciled.  The active transition is the journal of the one            *)
(* cross-profile handoff that may be under way.                            *)
(*                                                                         *)
(* `save' validates the whole document before it publishes it.  That       *)
(* check is not a guard of the actions below: it is the invariant          *)
(* ValidDocument, so that what is verified is that the operations' own     *)
(* guards never build a document `save' would refuse.                      *)
(*                                                                         *)
(* Timestamps, the handoff reason and the adapter version are left out:    *)
(* every operation may also fail and change nothing.                       *)
(***************************************************************************)
EXTENDS Integers, Sequences, FiniteSets

CONSTANTS
  Profile, Workspace, Version, TrustDomain,
  Thread,                   \* provider thread ids; uuids are ordered, so numbers
  Conv, Launch,             \* pools of fresh uuids for conversations and launches
  RolloutFile, Fingerprint, \* a rollout: device and inode, and all the rest
  Client,                   \* callers that keep a head they read or were given
  BindLifecycle,            \* lifecycles callers bind with
  Baselines,                \* target inventories callers record as a baseline
  MAX_LINEAGE_GENERATIONS,
  Absent                    \* Option::None

VARIABLES
  schema,        \* schema_version of the document
  conversations, \* Conv -> conversation or Absent
  heads,         \* Workspace -> workspace head or Absent
  pending,       \* Launch -> pending launch or Absent
  issued,        \* launch ids handed out so far: a uuid is never reused
  transition,    \* the active transition or Absent
  held           \* Client -> head binding a caller holds, possibly stale

document == <<schema, conversations, heads, pending, transition>>
vars == <<schema, conversations, heads, pending, issued, transition, held>>

------------------------------------------------------------------------------
(* The document's types *)

Lifecycle == {"clean", "interrupted", "unknown_crash"}
HeadState == {"ready", "needs_selection"}
PendingPhase == {"prepared", "provider_started", "capture_failed"}
HandoffPhase == {"prepared", "source_stop_requested", "source_stopped",
                 "fork_requested", "fork_observed", "committed_unattached"}
Mode == {"tracked", "untracked"}

Option(S) == S \cup {Absent}

Rollout == [file : RolloutFile, print : Fingerprint]

(* Generation g of a conversation is element g + 1 of its sequence. *)
Generation ==
  [profile : Profile, thread : Thread, cwd : Workspace, version : Version,
   trust : Option(TrustDomain), rollout : Option(Rollout)]

Conversation ==
  [generations : Seq(Generation), active : Nat, lifecycle : Lifecycle]

WorkspaceHead == [state : HeadState, conv : Option(Conv), gen : Option(Nat)]

PendingLaunch ==
  [profile : Profile, cwd : Workspace, mode : Mode,
   version : Option(Version), phase : PendingPhase]

HandoffTarget ==
  [thread : Thread, cwd : Workspace, version : Version, rollout : Rollout]

HandoffTransition ==
  [conv : Conv, source : Nat, source_profile : Profile,
   target_profile : Profile, cwd : Workspace, trust : TrustDomain,
   rollout : Rollout, phase : HandoffPhase, baseline : SUBSET Thread,
   attempts : 0..2, observed : Option(HandoffTarget)]

HeadBinding ==
  [conv : Conv, gen : Nat, profile : Profile, thread : Thread,
   cwd : Workspace, version : Version, lifecycle : Lifecycle]

BindingInput ==
  [profile : Profile, thread : Thread, cwd : Workspace, version : Version,
   lifecycle : BindLifecycle]

ASSUME LineageBoundAssumption == MAX_LINEAGE_GENERATIONS \in Nat \ {0}
ASSUME ThreadAssumption == Thread \subseteq Nat
ASSUME LifecycleAssumption == BindLifecycle \subseteq Lifecycle
ASSUME BaselineAssumption == \A b \in Baselines : b \in Seq(Thread)
ASSUME AbsentAssumption ==
  /\ Absent \notin Conversation \cup WorkspaceHead \cup PendingLaunch
  /\ Absent \notin HandoffTransition \cup HandoffTarget \cup HeadBinding
  /\ Absent \notin TrustDomain \cup Rollout \cup Conv \cup Version \cup Nat

TypeOK ==
  /\ schema \in {1, 2}
  /\ conversations \in [Conv -> Option(Conversation)]
  /\ heads \in [Workspace -> Option(WorkspaceHead)]
  /\ pending \in [Launch -> Option(PendingLaunch)]
  /\ issued \in SUBSET Launch
  /\ transition \in Option(HandoffTransition)
  /\ held \in [Client -> Option(HeadBinding)]

------------------------------------------------------------------------------
(* What the operations read *)

Transitioning(w) == transition # Absent /\ transition.cwd = w

PendingIn(w) == {l \in Launch : pending[l] # Absent /\ pending[l].cwd = w}

Existing == {c \in Conv : conversations[c] # Absent}

Generations(c) == conversations[c].generations

Binds(c, t) == \E i \in DOMAIN Generations(c) : Generations(c)[i].thread = t

ThreadIsBound(t) == \E c \in Existing : Binds(c, t)

TargetGeneration(x) == x.source + 1

(* Mutant of Unowned: a workspace checked for one kind of owner only. *)
UnownedByLaunch(w) == PendingIn(w) = {}

(* Neither the active transition nor a pending launch owns the workspace. *)
Unowned(w) == ~Transitioning(w) /\ PendingIn(w) = {}

(* resolve_head_document, when it succeeds, and what it returns then *)
Resolves(w) ==
  /\ Unowned(w)
  /\ heads[w] # Absent
  /\ heads[w].state = "ready"

BindingAt(c, g) ==
  LET gen == Generations(c)[g + 1] IN
  [conv |-> c, gen |-> g, profile |-> gen.profile, thread |-> gen.thread,
   cwd |-> gen.cwd, version |-> gen.version,
   lifecycle |-> conversations[c].lifecycle]

ResolvedHead(w) == BindingAt(heads[w].conv, heads[w].gen)

NeedsSelection(w) == heads[w] # Absent /\ heads[w].state = "needs_selection"

StrictlyAscending(s) == \A i \in 1..(Len(s) - 1) : s[i] < s[i + 1]

------------------------------------------------------------------------------
(* Pieces of document the operations write *)

(* mark_head_needs_selection keeps what the head last pointed at. *)
MarkNeedsSelection(w) ==
  heads' = [heads EXCEPT ![w] =
    IF @ = Absent
    THEN [state |-> "needs_selection", conv |-> Absent, gen |-> Absent]
    ELSE [@ EXCEPT !.state = "needs_selection"]]

ReadyHead(c, g) == [state |-> "ready", conv |-> c, gen |-> g]

(* bind_document refuses a workspace in transition, a thread of another     *)
(* profile, a thread that is not its conversation's tail, and another cwd.  *)
MayBind(b) ==
  /\ ~Transitioning(b.cwd)
  /\ \A c \in Existing : \A i \in DOMAIN Generations(c) :
       LET gen == Generations(c)[i] IN
       gen.thread = b.thread =>
         /\ gen.profile = b.profile
         /\ i = conversations[c].active + 1
         /\ gen.cwd = b.cwd

FirstGeneration(b) ==
  [profile |-> b.profile, thread |-> b.thread, cwd |-> b.cwd,
   version |-> b.version, trust |-> Absent, rollout |-> Absent]

(* bind_document: refresh the conversation that owns the thread, or start   *)
(* conversation c with it, and point the workspace at the bound generation. *)
BindDocument(b, c) ==
  /\ MayBind(b)
  /\ IF ThreadIsBound(b.thread)
     THEN /\ c \in Existing /\ Binds(c, b.thread)
          /\ conversations' = [conversations EXCEPT ![c].lifecycle = b.lifecycle]
          /\ heads' = [heads EXCEPT ![b.cwd] =
                         ReadyHead(c, conversations[c].active)]
     ELSE /\ c \notin Existing
          /\ conversations' = [conversations EXCEPT ![c] =
                [generations |-> <<FirstGeneration(b)>>, active |-> 0,
                 lifecycle |-> b.lifecycle]]
          /\ heads' = [heads EXCEPT ![b.cwd] = ReadyHead(c, 0)]

BoundHead(b, c) ==
  [conv |-> c, gen |-> IF c \in Existing THEN conversations[c].active ELSE 0,
   profile |-> b.profile, thread |-> b.thread, cwd |-> b.cwd,
   version |-> b.version, lifecycle |-> b.lifecycle]

------------------------------------------------------------------------------
(* Launches *)

(* begin_launch: a second launch in an owned workspace is refused, and that *)
(* refusal is itself a committed change of the head.                        *)
BeginLaunch(l, p, w, v) ==
  /\ l \notin issued
  /\ Unowned(w)
  /\ pending' = [pending EXCEPT ![l] =
       [profile |-> p, cwd |-> w, mode |-> "tracked", version |-> v,
        phase |-> "prepared"]]
  /\ issued' = issued \cup {l}
  /\ UNCHANGED <<schema, conversations, heads, transition, held>>

BeginLaunchOverlapping(w) ==
  /\ ~Transitioning(w)
  /\ PendingIn(w) # {}
  /\ MarkNeedsSelection(w)
  /\ UNCHANGED <<schema, conversations, pending, issued, transition, held>>

MarkProviderStarted(l) ==
  /\ pending[l] # Absent
  /\ pending' = [pending EXCEPT ![l].phase = "provider_started"]
  /\ UNCHANGED <<schema, conversations, heads, issued, transition, held>>

MarkCaptureFailed(l) ==
  /\ pending[l] # Absent
  /\ pending' = [pending EXCEPT ![l].phase = "capture_failed"]
  /\ UNCHANGED <<schema, conversations, heads, issued, transition, held>>

(* finish_launch removes the launch first; an untracked launch, or one that *)
(* another launch made ambiguous, is then settled whatever it resolved to.  *)
(* The mutant trusts every tracked launch.                                  *)
AttributableIfTracked(l) == pending[l].mode = "tracked"

Attributable(l) == pending[l].mode = "tracked" /\ ~NeedsSelection(pending[l].cwd)

FinishLaunchUnattributed(l) ==
  /\ pending[l] # Absent
  /\ ~Attributable(l)
  /\ pending' = [pending EXCEPT ![l] = Absent]
  /\ IF pending[l].mode = "untracked"
     THEN MarkNeedsSelection(pending[l].cwd)
     ELSE UNCHANGED heads
  /\ UNCHANGED <<schema, conversations, issued, transition, held>>

FinishLaunchBind(l, b, c) ==
  /\ pending[l] # Absent
  /\ Attributable(l)
  /\ pending' = [pending EXCEPT ![l] = Absent]
  /\ IF /\ b.profile = pending[l].profile
        /\ b.cwd = pending[l].cwd
        /\ b.version = pending[l].version
     THEN BindDocument(b, c)
     ELSE MarkNeedsSelection(pending[l].cwd) /\ UNCHANGED conversations
  /\ UNCHANGED <<schema, issued, transition, held>>

FinishLaunchNoThread(l) ==
  /\ pending[l] # Absent
  /\ Attributable(l)
  /\ pending' = [pending EXCEPT ![l] = Absent]
  /\ UNCHANGED <<schema, conversations, heads, issued, transition, held>>

FinishLaunchAmbiguous(l) ==
  /\ pending[l] # Absent
  /\ Attributable(l)
  /\ pending' = [pending EXCEPT ![l] = Absent]
  /\ MarkNeedsSelection(pending[l].cwd)
  /\ UNCHANGED <<schema, conversations, issued, transition, held>>

PrepareUntracked(l, p, w) ==
  /\ l \notin issued
  /\ Unowned(w)
  /\ MarkNeedsSelection(w)
  /\ pending' = [pending EXCEPT ![l] =
       [profile |-> p, cwd |-> w, mode |-> "untracked", version |-> Absent,
        phase |-> "prepared"]]
  /\ issued' = issued \cup {l}
  /\ UNCHANGED <<schema, conversations, transition, held>>

------------------------------------------------------------------------------
(* Exact bindings *)

Adopt(k, b, c) ==
  /\ Unowned(b.cwd)
  /\ BindDocument(b, c)
  /\ held' = [held EXCEPT ![k] = BoundHead(b, c)]
  /\ UNCHANGED <<schema, pending, issued, transition>>

ReadHead(k, w) ==
  /\ Resolves(w)
  /\ held' = [held EXCEPT ![k] = ResolvedHead(w)]
  /\ UNCHANGED <<document, issued>>

(* refresh_adopted: only while the head the caller adopted is still the     *)
(* workspace's head; lifecycles may differ.                                 *)
StillHead(e) ==
  /\ Resolves(e.cwd)
  /\ [ResolvedHead(e.cwd) EXCEPT !.lifecycle = e.lifecycle] = e

RefreshAdopted(k, lifecycle, c) ==
  /\ held[k] # Absent
  /\ StillHead(held[k])
  /\ BindDocument([profile |-> held[k].profile, thread |-> held[k].thread,
                    cwd |-> held[k].cwd, version |-> held[k].version,
                    lifecycle |-> lifecycle], c)
  /\ UNCHANGED <<schema, pending, issued, transition, held>>

(* Mutant of MarkWorkspaceAmbiguous: an exact process gives up on its        *)
(* workspace without looking for a handoff.                                  *)
MarkAmbiguousAnyway(w) ==
  /\ MarkNeedsSelection(w)
  /\ UNCHANGED <<schema, conversations, pending, issued, transition, held>>

MarkWorkspaceAmbiguous(w) ==
  /\ ~Transitioning(w)
  /\ MarkNeedsSelection(w)
  /\ UNCHANGED <<schema, conversations, pending, issued, transition, held>>

------------------------------------------------------------------------------
(* The handoff journal.  A caller names the transition it means by a uuid;   *)
(* it has read that id under the handoff coordinator lock, which also        *)
(* excludes a new transition, so the id is always the active one's.          *)

(* Mutant of SourceMetadataAgrees: whatever is observed now is recorded. *)
SourceMetadataOverwritten(gen, trust, rollout) == TRUE

(* Metadata of a source generation: recorded once, then it must repeat. *)
SourceMetadataAgrees(gen, trust, rollout) ==
  \/ gen.trust = Absent /\ gen.rollout = Absent
  \/ gen.trust = trust /\ gen.rollout = rollout

PrepareHandoff(k, target, trust, rollout) ==
  LET e == held[k] IN
  /\ e # Absent
  /\ target # e.profile
  /\ transition = Absent
  /\ PendingIn(e.cwd) = {}
  /\ Resolves(e.cwd)
  /\ ResolvedHead(e.cwd) = e
  /\ conversations[e.conv].active = e.gen
  /\ SourceMetadataAgrees(Generations(e.conv)[e.gen + 1], trust, rollout)
  /\ schema' = 2
  /\ conversations' = [conversations EXCEPT ![e.conv].generations[e.gen + 1] =
       [@ EXCEPT !.trust = trust, !.rollout = rollout]]
  /\ transition' =
       [conv |-> e.conv, source |-> e.gen, source_profile |-> e.profile,
        target_profile |-> target, cwd |-> e.cwd, trust |-> trust,
        rollout |-> rollout, phase |-> "prepared", baseline |-> {},
        attempts |-> 0, observed |-> Absent]
  /\ UNCHANGED <<heads, pending, issued, held>>

InPhase(phase) == transition # Absent /\ transition.phase = phase

JournalOnly == UNCHANGED <<schema, conversations, heads, pending, issued, held>>

MarkSourceStopRequested ==
  /\ InPhase("prepared")
  /\ transition' = [transition EXCEPT !.phase = "source_stop_requested"]
  /\ JournalOnly

MarkSourceStopped ==
  /\ InPhase("source_stop_requested")
  /\ transition' = [transition EXCEPT !.phase = "source_stopped"]
  /\ JournalOnly

(* record_fork_intent: the caller's inventory must be in canonical order. *)
RecordForkIntent(ids) ==
  /\ InPhase("source_stopped")
  /\ StrictlyAscending(ids)
  /\ transition.attempts = 0 /\ transition.baseline = {}
  /\ transition' = [transition EXCEPT !.phase = "fork_requested",
                      !.baseline = {ids[i] : i \in DOMAIN ids}, !.attempts = 1]
  /\ JournalOnly

(* Mutant of RecordBoundedForkRetry: every lost answer is retried. *)
RecordUnboundedForkRetry ==
  /\ InPhase("fork_requested")
  /\ transition.observed = Absent
  /\ transition' = [transition EXCEPT !.attempts = @ + 1]
  /\ JournalOnly

RecordBoundedForkRetry ==
  /\ InPhase("fork_requested")
  /\ transition.attempts = 1
  /\ transition.observed = Absent
  /\ transition' = [transition EXCEPT !.attempts = 2]
  /\ JournalOnly

ObserveHandoffTarget(t) ==
  /\ InPhase("fork_requested")
  /\ t.cwd = transition.cwd
  /\ t.rollout.file # transition.rollout.file
  /\ ~ThreadIsBound(t.thread)
  /\ transition' = [transition EXCEPT !.observed = t, !.phase = "fork_observed"]
  /\ JournalOnly

TargetOf(x) ==
  [profile |-> x.target_profile, thread |-> x.observed.thread,
   cwd |-> x.observed.cwd, version |-> x.observed.version,
   trust |-> x.trust, rollout |-> x.observed.rollout]

(* commit_handoff looks again whether the thread was bound in the meantime. *)
CommitHandoff ==
  LET x == transition IN
  /\ InPhase("fork_observed")
  /\ x.observed # Absent
  /\ ~ThreadIsBound(x.observed.thread)
  /\ x.conv \in Existing
  /\ conversations[x.conv].active = x.source
  /\ Len(Generations(x.conv)) < MAX_LINEAGE_GENERATIONS
  /\ heads[x.cwd] = ReadyHead(x.conv, x.source)
  /\ conversations' = [conversations EXCEPT ![x.conv] =
       [generations |-> Append(@.generations, TargetOf(x)),
        active |-> TargetGeneration(x), lifecycle |-> "interrupted"]]
  /\ heads' = [heads EXCEPT ![x.cwd] = ReadyHead(x.conv, TargetGeneration(x))]
  /\ transition' = [transition EXCEPT !.phase = "committed_unattached"]
  /\ UNCHANGED <<schema, pending, issued, held>>

(* finish_handoff_attachment returns the head it leaves, and fails without *)
(* effect if that head does not resolve.                                   *)
FinishHandoffAttachment(k) ==
  LET w == transition.cwd IN
  /\ InPhase("committed_unattached")
  /\ PendingIn(w) = {}
  /\ heads[w] # Absent /\ heads[w].state = "ready"
  /\ transition' = Absent
  /\ held' = [held EXCEPT ![k] = ResolvedHead(w)]
  /\ UNCHANGED <<schema, conversations, heads, pending, issued>>

------------------------------------------------------------------------------
(* The specification *)

Init ==
  /\ schema = 1
  /\ conversations = [c \in Conv |-> Absent]
  /\ heads = [w \in Workspace |-> Absent]
  /\ pending = [l \in Launch |-> Absent]
  /\ issued = {}
  /\ transition = Absent
  /\ held = [k \in Client |-> Absent]

LaunchNext ==
  \/ \E l \in Launch, p \in Profile, w \in Workspace :
       \/ \E v \in Version : BeginLaunch(l, p, w, v)
       \/ PrepareUntracked(l, p, w)
  \/ \E w \in Workspace : BeginLaunchOverlapping(w)
  \/ \E l \in Launch :
       \/ MarkProviderStarted(l)
       \/ MarkCaptureFailed(l)
       \/ FinishLaunchUnattributed(l)
       \/ \E b \in BindingInput, c \in Conv : FinishLaunchBind(l, b, c)
       \/ FinishLaunchNoThread(l)
       \/ FinishLaunchAmbiguous(l)

BindNext ==
  \/ \E k \in Client :
       \/ \E b \in BindingInput, c \in Conv : Adopt(k, b, c)
       \/ \E w \in Workspace : ReadHead(k, w)
       \/ \E y \in BindLifecycle, c \in Conv : RefreshAdopted(k, y, c)
  \/ \E w \in Workspace : MarkWorkspaceAmbiguous(w)

HandoffNext ==
  \/ \E k \in Client, p \in Profile, d \in TrustDomain, r \in Rollout :
       PrepareHandoff(k, p, d, r)
  \/ MarkSourceStopRequested
  \/ MarkSourceStopped
  \/ \E ids \in Baselines : RecordForkIntent(ids)
  \/ RecordBoundedForkRetry
  \/ \E t \in HandoffTarget : ObserveHandoffTarget(t)
  \/ CommitHandoff
  \/ \E k \in Client : FinishHandoffAttachment(k)

Next == LaunchNext \/ BindNext \/ HandoffNext

Spec == Init /\ [][Next]_vars

------------------------------------------------------------------------------
(* validate_document, clause by clause.  Together these are what a load or   *)
(* a save accepts: one transaction that broke one of them would leave a      *)
(* registry that no later command can open.                                  *)

(* Each conversation's active generation is the tail of its bounded,        *)
(* single-workspace lineage; a v1 document has first generations only       *)
(* (validate_document_contents).                                            *)
LineageValid ==
  \A c \in Existing :
    LET gens == Generations(c) IN
    /\ Len(gens) \in 1..MAX_LINEAGE_GENERATIONS
    /\ conversations[c].active = Len(gens) - 1
    /\ schema = 1 => Len(gens) = 1
    /\ \A i \in DOMAIN gens : gens[i].cwd = gens[1].cwd

(* Handoff metadata is complete wherever it exists, is there for every      *)
(* generation of a longer lineage, and never crosses a trust domain.        *)
TrustDomainValid ==
  \A c \in Existing :
    LET gens == Generations(c) IN
    \A i \in DOMAIN gens :
      /\ (gens[i].trust = Absent) <=> (gens[i].rollout = Absent)
      /\ Len(gens) > 1 => gens[i].trust # Absent
      /\ gens[i].trust = gens[1].trust
      /\ schema = 1 => gens[i].trust = Absent

(* No thread is bound twice, in one conversation or in two: a thread has one *)
(* owner profile and one place in one lineage.                               *)
ThreadsBoundOnce ==
  \A c, d \in Existing :
    \A i \in DOMAIN Generations(c), j \in DOMAIN Generations(d) :
      Generations(c)[i].thread = Generations(d)[j].thread => c = d /\ i = j

(* A ready head names the active generation of an existing conversation of   *)
(* its own workspace; an ambiguous one is never half filled in.              *)
HeadsValid ==
  \A w \in Workspace : heads[w] # Absent =>
    /\ heads[w].state = "ready" =>
         /\ heads[w].conv \in Existing
         /\ heads[w].gen = conversations[heads[w].conv].active
         /\ Generations(heads[w].conv)[heads[w].gen + 1].cwd = w
    /\ (heads[w].conv = Absent) <=> (heads[w].gen = Absent)

(* At most one pending launch owns a workspace, and an untracked one carries *)
(* no capture metadata.                                                      *)
PendingValid ==
  /\ \A l, m \in Launch :
       /\ pending[l] # Absent /\ pending[m] # Absent
       /\ pending[l].cwd = pending[m].cwd
       => l = m
  /\ \A l \in Launch : pending[l] # Absent =>
       (pending[l].version = Absent) <=> (pending[l].mode = "untracked")

ForkStarted(x) ==
  x.phase \in {"fork_requested", "fork_observed", "committed_unattached"}

(* The journal agrees with the lineage it moves (validate_active_transition): *)
(* the source is the generation it names, the target is observed exactly      *)
(* from fork_observed on, committed exactly in the last phase, and the        *)
(* workspace head follows the phase, with no launch in that workspace.        *)
TransitionValid ==
  LET x == transition
      gens == Generations(x.conv)
      committed == x.phase = "committed_unattached"
      active == IF committed THEN TargetGeneration(x) ELSE x.source
  IN transition # Absent =>
    /\ schema = 2
    /\ x.source_profile # x.target_profile
    /\ IF ForkStarted(x) THEN x.attempts \in 1..2
                         ELSE x.attempts = 0 /\ x.baseline = {}
    /\ x.conv \in Existing
    /\ x.source + 1 \in DOMAIN gens
    /\ gens[x.source + 1].profile = x.source_profile
    /\ gens[x.source + 1].cwd = x.cwd
    /\ gens[x.source + 1].trust = x.trust
    /\ gens[x.source + 1].rollout = x.rollout
    /\ (x.observed # Absent) <=> x.phase \in {"fork_observed", "committed_unattached"}
    /\ x.observed # Absent =>
         /\ x.observed.cwd = x.cwd
         /\ x.observed.thread # gens[x.source + 1].thread
         /\ x.observed.rollout.file # x.rollout.file
    /\ conversations[x.conv].active = active
    /\ committed => gens[TargetGeneration(x) + 1] = TargetOf(x)
    /\ heads[x.cwd] = ReadyHead(x.conv, active)
    /\ PendingIn(x.cwd) = {}

ValidDocument ==
  /\ LineageValid
  /\ TrustDomainValid
  /\ ThreadsBoundOnce
  /\ HeadsValid
  /\ PendingValid
  /\ TransitionValid

------------------------------------------------------------------------------
(* What a step may never do *)

(* A generation, once bound, keeps its profile, thread, workspace and        *)
(* version, its handoff metadata is written at most once, and lineages only  *)
(* grow at the tail: no launch, refresh or handoff rewrites history.         *)
LineageImmutable ==
  [][\A c \in Existing :
       /\ conversations'[c] # Absent
       /\ Len(Generations(c)) <= Len(conversations'[c].generations)
       /\ \A i \in DOMAIN Generations(c) :
            LET old == Generations(c)[i]
                new == conversations'[c].generations[i]
            IN /\ [new EXCEPT !.trust = old.trust, !.rollout = old.rollout] = old
               /\ old.trust # Absent => new.trust = old.trust
               /\ old.rollout # Absent => new.rollout = old.rollout]_vars

(* Once a workspace needs selection, only an exact adoption with no launch    *)
(* pending there makes it ready again: neither a launch that finishes late,   *)
(* nor an older exact process refreshing the head it once held, nor a handoff.*)
AmbiguityIsSticky ==
  [][\A w \in Workspace :
       NeedsSelection(w) /\ ~NeedsSelection(w)' =>
         /\ PendingIn(w) = {}
         /\ \E k \in Client, b \in BindingInput, c \in Conv :
              b.cwd = w /\ Adopt(k, b, c)]_vars

(* While a handoff is in flight its workspace is frozen: the head moves only *)
(* from source to target, together with the journal's commit.                *)
TransitionFreezesWorkspace ==
  [][\A w \in Workspace :
       Transitioning(w) /\ heads'[w] # heads[w] =>
         /\ transition.phase = "fork_observed"
         /\ transition'.phase = "committed_unattached"]_vars

==============================================================================
