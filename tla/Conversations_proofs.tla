------------------------ MODULE Conversations_proofs ------------------------
(***************************************************************************)
(* The conversation registry never builds a document that its own          *)
(* validation refuses: proofs for every size of the constants.             *)
(*                                                                         *)
(* DocumentInv is established by Init and kept by each operation (one      *)
(* lemma per operation, grouped as in Conversations), so it is an          *)
(* invariant of Spec.                                                      *)
(***************************************************************************)
EXTENDS Conversations, SequenceTheorems, TLAPS

(* The inductive invariant: what `save' validates, on a well-typed document.  *)
(* validate_document is itself strong enough, given the types.               *)
DocumentInv == TypeOK /\ ValidDocument

(* The empty document of a missing registry file is valid.                   *)
LEMMA InitEstablishesInv == Init => DocumentInv
  <1> SUFFICES ASSUME Init PROVE DocumentInv
    OBVIOUS
  <1>1. TypeOK
    BY DEF Init, TypeOK, Option
  <1>2. ValidDocument
    BY DEF Init, ValidDocument, LineageValid, TrustDomainValid, ThreadsBoundOnce,
           HeadsValid, PendingValid, TransitionValid, Existing
  <1> QED
    BY <1>1, <1>2 DEF DocumentInv

(* Steps that only touch launches and mark heads ambiguous *)

(* mark_head_needs_selection changes one head, keeps what it pointed at and  *)
(* leaves it ambiguous.                                                      *)
LEMMA MarkNeedsSelectionTypes ==
  ASSUME TypeOK, NEW w \in Workspace, MarkNeedsSelection(w)
  PROVE  /\ heads' \in [Workspace -> Option(WorkspaceHead)]
         /\ \A u \in Workspace : u # w => heads'[u] = heads[u]
         /\ heads'[w] # Absent
         /\ heads'[w].state = "needs_selection"
         /\ heads[w] = Absent => heads'[w].conv = Absent /\ heads'[w].gen = Absent
         /\ heads[w] # Absent => /\ heads'[w].conv = heads[w].conv
                                 /\ heads'[w].gen = heads[w].gen
  BY AbsentAssumption DEF TypeOK, MarkNeedsSelection, Option, WorkspaceHead, HeadState

(* The clauses about lineages read only the schema and the conversations. *)
LEMMA LineageClausesFrame ==
  ASSUME LineageValid, TrustDomainValid, ThreadsBoundOnce,
         UNCHANGED <<schema, conversations>>
  PROVE  LineageValid' /\ TrustDomainValid' /\ ThreadsBoundOnce'
  BY DEF LineageValid, TrustDomainValid, ThreadsBoundOnce, Existing, Generations

(* A workspace outside the transition may be marked ambiguous. *)
LEMMA MarkedHeadsStayValid ==
  ASSUME TypeOK, HeadsValid, NEW w \in Workspace, MarkNeedsSelection(w),
         UNCHANGED conversations
  PROVE  HeadsValid'
  BY MarkNeedsSelectionTypes DEF HeadsValid, Existing, Generations

(* A journal is not disturbed by what happens in another workspace.          *)
LEMMA MarkedTransitionStaysValid ==
  ASSUME TypeOK, TransitionValid, NEW w \in Workspace, ~Transitioning(w),
         MarkNeedsSelection(w), UNCHANGED <<schema, conversations, transition>>,
         \A l \in Launch : /\ pending'[l] # Absent
                           /\ pending'[l].cwd # w
                           => pending[l] # Absent /\ pending'[l].cwd = pending[l].cwd
  PROVE  TransitionValid'
  <1> SUFFICES ASSUME transition # Absent PROVE TransitionValid'
    BY DEF TransitionValid
  <1>1. transition \in HandoffTransition
    BY DEF TypeOK, Option
  <1>2. transition.cwd \in Workspace /\ transition.cwd # w
    BY <1>1 DEF HandoffTransition, Transitioning
  <1>3. heads'[transition.cwd] = heads[transition.cwd]
    BY <1>2, MarkNeedsSelectionTypes
  <1>4. PendingIn(transition.cwd)' = {}
    BY <1>2 DEF TransitionValid, PendingIn
  <1> QED
    BY <1>3, <1>4 DEF TransitionValid, Generations, Existing, TargetGeneration,
                      TargetOf, ReadyHead, ForkStarted

------------------------------------------------------------------------------
(* Launches *)

USE DEF DocumentInv, ValidDocument, Unowned

(* begin_launch takes a workspace nobody owns, so the launch is alone in it. *)
LEMMA BeginLaunchInv ==
  ASSUME DocumentInv, NEW l \in Launch, NEW p \in Profile, NEW w \in Workspace,
         NEW v \in Version, BeginLaunch(l, p, w, v)
  PROVE  DocumentInv'
  <1>1. TypeOK'
    BY DEF TypeOK, BeginLaunch, Option, PendingLaunch, Mode, PendingPhase
  <1>2. PendingValid'
    BY AbsentAssumption
    DEF TypeOK, BeginLaunch, PendingValid, PendingIn, Option, PendingLaunch
  <1>3. HeadsValid'
    BY DEF BeginLaunch, HeadsValid, Existing, Generations
  <1>4. TransitionValid'
    <2>1. transition # Absent => transition.cwd # w
      BY DEF BeginLaunch, Transitioning
    <2>2. transition # Absent => PendingIn(transition.cwd)' = {}
      BY <2>1 DEF TransitionValid, BeginLaunch, PendingIn, TypeOK
    <2> QED
      BY <2>2 DEF BeginLaunch, TransitionValid, Generations, Existing,
                  TargetGeneration, TargetOf, ReadyHead, ForkStarted
  <1> QED
    BY <1>1, <1>2, <1>3, <1>4, LineageClausesFrame DEF BeginLaunch

(* prepare_untracked likewise, and marks the head ambiguous first.           *)
LEMMA PrepareUntrackedInv ==
  ASSUME DocumentInv, NEW l \in Launch, NEW p \in Profile, NEW w \in Workspace,
         PrepareUntracked(l, p, w)
  PROVE  DocumentInv'
  <1>1. TypeOK'
    BY MarkNeedsSelectionTypes
    DEF TypeOK, PrepareUntracked, Option, PendingLaunch, Mode, PendingPhase
  <1>2. PendingValid'
    BY AbsentAssumption
    DEF TypeOK, PrepareUntracked, PendingValid, PendingIn, Option, PendingLaunch
  <1>3. HeadsValid'
    BY MarkedHeadsStayValid DEF PrepareUntracked
  <1>4. TransitionValid'
    BY MarkedTransitionStaysValid DEF PrepareUntracked, TypeOK
  <1> QED
    BY <1>1, <1>2, <1>3, <1>4, LineageClausesFrame DEF PrepareUntracked

(* Both operations that only mark a head ambiguous keep the document valid.  *)
LEMMA MarkAmbiguousInv ==
  ASSUME DocumentInv, NEW w \in Workspace,
         BeginLaunchOverlapping(w) \/ MarkWorkspaceAmbiguous(w)
  PROVE  DocumentInv'
  <1> USE DEF BeginLaunchOverlapping, MarkWorkspaceAmbiguous
  <1>1. TypeOK'
    BY MarkNeedsSelectionTypes DEF TypeOK
  <1>2. PendingValid'
    BY DEF PendingValid
  <1>3. HeadsValid'
    BY MarkedHeadsStayValid
  <1>4. TransitionValid'
    BY MarkedTransitionStaysValid
  <1> QED
    BY <1>1, <1>2, <1>3, <1>4, LineageClausesFrame

(* The phase of a pending launch is free: mark_provider_started and          *)
(* mark_capture_failed keep the document valid.                              *)
LEMMA MarkPendingInv ==
  ASSUME DocumentInv, NEW l \in Launch,
         MarkProviderStarted(l) \/ MarkCaptureFailed(l)
  PROVE  DocumentInv'
  <1> USE DEF MarkProviderStarted, MarkCaptureFailed
  <1>0. /\ pending' \in [Launch -> Option(PendingLaunch)]
        /\ \A m \in Launch : pending[m] = Absent <=> pending'[m] = Absent
        /\ \A m \in Launch : pending[m] # Absent =>
             /\ pending'[m].cwd = pending[m].cwd
             /\ pending'[m].mode = pending[m].mode
             /\ pending'[m].version = pending[m].version
    BY AbsentAssumption DEF TypeOK, Option, PendingLaunch, PendingPhase
  <1>1. TypeOK'
    BY <1>0 DEF TypeOK
  <1>2. PendingValid'
    BY <1>0 DEF PendingValid
  <1>3. HeadsValid'
    BY DEF HeadsValid, Existing, Generations
  <1>4. TransitionValid'
    <2>1. transition # Absent => PendingIn(transition.cwd)' = {}
      BY <1>0 DEF TransitionValid, PendingIn
    <2> QED
      BY <2>1 DEF TransitionValid, Generations, Existing,
                  TargetGeneration, TargetOf, ReadyHead, ForkStarted
  <1> QED
    BY <1>1, <1>2, <1>3, <1>4, LineageClausesFrame

(* A launch that owns a workspace is proof that no transition does. *)
LEMMA OwnedWorkspaceNotTransitioning ==
  ASSUME DocumentInv, NEW l \in Launch, pending[l] # Absent
  PROVE  pending[l].cwd \in Workspace /\ ~Transitioning(pending[l].cwd)
  BY DEF TypeOK, Option, PendingLaunch, TransitionValid, Transitioning, PendingIn

(* Removing a launch keeps what depends on launches alone. *)
LEMMA RemovePending ==
  ASSUME DocumentInv, NEW l \in Launch,
         pending' = [pending EXCEPT ![l] = Absent]
  PROVE  /\ pending' \in [Launch -> Option(PendingLaunch)]
         /\ PendingValid'
         /\ \A m \in Launch : pending'[m] # Absent => pending'[m] = pending[m]
         /\ \A w : PendingIn(w) = {} => PendingIn(w)' = {}
  BY DEF TypeOK, Option, PendingValid, PendingIn

(* finish_launch keeps the document valid when it binds no thread.           *)
LEMMA FinishWithoutBindingInv ==
  ASSUME DocumentInv, NEW l \in Launch,
         FinishLaunchUnattributed(l) \/ FinishLaunchNoThread(l)
           \/ FinishLaunchAmbiguous(l)
  PROVE  DocumentInv'
  <1> DEFINE w == pending[l].cwd
  <1>0. /\ pending[l] # Absent
        /\ pending' = [pending EXCEPT ![l] = Absent]
        /\ UNCHANGED <<schema, conversations, issued, transition, held>>
        /\ UNCHANGED heads \/ MarkNeedsSelection(w)
    BY DEF FinishLaunchUnattributed, FinishLaunchNoThread, FinishLaunchAmbiguous
  <1>1. w \in Workspace /\ ~Transitioning(w)
    BY <1>0, OwnedWorkspaceNotTransitioning
  <1>2. PendingValid' /\ pending' \in [Launch -> Option(PendingLaunch)]
    BY <1>0, RemovePending
  <1> HIDE DEF w
  <1>3. TypeOK'
    BY <1>0, <1>1, <1>2, MarkNeedsSelectionTypes DEF TypeOK
  <1>4. HeadsValid'
    <2>1. CASE UNCHANGED heads
      BY <1>0, <2>1 DEF HeadsValid, Existing, Generations
    <2>2. CASE MarkNeedsSelection(w)
      BY <1>0, <1>1, <2>2, MarkedHeadsStayValid
    <2> QED
      BY <1>0, <2>1, <2>2
  <1>5. TransitionValid'
    <2>1. CASE UNCHANGED heads
      <3>1. transition # Absent => PendingIn(transition.cwd)' = {}
        BY <1>0, RemovePending DEF TransitionValid
      <3> QED
        BY <1>0, <2>1, <3>1
        DEF TransitionValid, Generations, Existing, TargetGeneration, TargetOf,
            ReadyHead, ForkStarted
    <2>2. CASE MarkNeedsSelection(w)
      <3>1. \A m \in Launch : pending'[m] # Absent => pending'[m] = pending[m]
        BY <1>0, RemovePending
      <3> QED
        BY <1>0, <1>1, <2>2, <3>1, MarkedTransitionStaysValid
    <2> QED
      BY <1>0, <2>1, <2>2
  <1> QED
    BY <1>0, <1>2, <1>3, <1>4, <1>5, LineageClausesFrame

------------------------------------------------------------------------------
(* Bindings *)

TypedBinding(b) ==
  /\ b.profile \in Profile /\ b.thread \in Thread /\ b.cwd \in Workspace
  /\ b.version \in Version /\ b.lifecycle \in Lifecycle

(* An existing conversation is a record with a lineage. *)
LEMMA ExistingTyped ==
  ASSUME TypeOK, NEW c \in Existing
  PROVE  /\ c \in Conv
         /\ conversations[c] \in Conversation
         /\ Generations(c) \in Seq(Generation)
         /\ \A i \in DOMAIN Generations(c) :
              i \in 1..Len(Generations(c)) /\ Generations(c)[i] \in Generation
  BY DEF TypeOK, Existing, Option, Generations, Conversation

(* Case 1 of bind_document: the thread already has its conversation. *)
LEMMA RebindShape ==
  ASSUME DocumentInv, NEW b, TypedBinding(b), NEW c \in Conv, BindDocument(b, c),
         ThreadIsBound(b.thread)
  PROVE  /\ c \in Existing
         /\ conversations' \in [Conv -> Option(Conversation)]
         /\ Existing' = Existing
         /\ \A d \in Existing : /\ Generations(d)' = Generations(d)
                                /\ conversations'[d].active = conversations[d].active
         /\ conversations'[c].lifecycle = b.lifecycle
         /\ heads' = [heads EXCEPT ![b.cwd] = ReadyHead(c, conversations[c].active)]
         /\ conversations[c].active \in Nat
         /\ Generations(c)[conversations[c].active + 1].cwd = b.cwd
         /\ Generations(c)[conversations[c].active + 1].thread = b.thread
         /\ Generations(c)[conversations[c].active + 1].profile = b.profile
         /\ ~Transitioning(b.cwd)
  <1>1. /\ c \in Existing /\ Binds(c, b.thread) /\ MayBind(b)
        /\ conversations' = [conversations EXCEPT ![c].lifecycle = b.lifecycle]
        /\ heads' = [heads EXCEPT ![b.cwd] = ReadyHead(c, conversations[c].active)]
    BY DEF BindDocument
  <1>2. PICK i \in DOMAIN Generations(c) : Generations(c)[i].thread = b.thread
    BY <1>1 DEF Binds
  <1>3. /\ i = conversations[c].active + 1
        /\ Generations(c)[i].profile = b.profile
        /\ Generations(c)[i].cwd = b.cwd
        /\ ~Transitioning(b.cwd)
    BY <1>1, <1>2 DEF MayBind
  <1>4. /\ conversations[c] \in Conversation
        /\ conversations[c].active \in Nat
    BY <1>1, ExistingTyped DEF Conversation
  <1>5. /\ conversations'[c] \in Conversation
        /\ conversations'[c].generations = conversations[c].generations
        /\ conversations'[c].active = conversations[c].active
        /\ conversations'[c].lifecycle = b.lifecycle
        /\ \A d \in Conv : d # c => conversations'[d] = conversations[d]
    BY <1>1, <1>4 DEF TypeOK, Conversation, TypedBinding
  <1>6. conversations' \in [Conv -> Option(Conversation)]
    BY <1>1, <1>5 DEF TypeOK, Option
  <1>7. Existing' = Existing
    BY <1>1, <1>5, AbsentAssumption DEF Existing
  <1>8. \A d \in Existing : /\ Generations(d)' = Generations(d)
                            /\ conversations'[d].active = conversations[d].active
    BY <1>5, <1>7 DEF Generations, Existing
  <1> QED
    BY <1>1, <1>2, <1>3, <1>4, <1>5, <1>6, <1>7, <1>8

(* Case 2: a new conversation with one generation. *)
LEMMA NewConversationShape ==
  ASSUME DocumentInv, NEW b, TypedBinding(b), NEW c \in Conv, BindDocument(b, c),
         ~ThreadIsBound(b.thread)
  PROVE  /\ c \notin Existing
         /\ conversations' \in [Conv -> Option(Conversation)]
         /\ Existing' = Existing \cup {c}
         /\ \A d \in Existing : conversations'[d] = conversations[d]
         /\ conversations'[c].generations = <<FirstGeneration(b)>>
         /\ conversations'[c].active = 0
         /\ conversations'[c].lifecycle = b.lifecycle
         /\ heads' = [heads EXCEPT ![b.cwd] = ReadyHead(c, 0)]
         /\ ~Transitioning(b.cwd)
  <1>1. /\ c \notin Existing /\ MayBind(b)
        /\ conversations' = [conversations EXCEPT ![c] =
                [generations |-> <<FirstGeneration(b)>>, active |-> 0,
                 lifecycle |-> b.lifecycle]]
        /\ heads' = [heads EXCEPT ![b.cwd] = ReadyHead(c, 0)]
    BY DEF BindDocument
  <1>2. FirstGeneration(b) \in Generation
    BY DEF FirstGeneration, Generation, TypedBinding, Option
  <1>3. <<FirstGeneration(b)>> \in Seq(Generation)
    BY <1>2
  <1>4. [generations |-> <<FirstGeneration(b)>>, active |-> 0,
         lifecycle |-> b.lifecycle] \in Conversation
    BY <1>3 DEF Conversation, TypedBinding
  <1>5. /\ conversations' \in [Conv -> Option(Conversation)]
        /\ \A d \in Conv : d # c => conversations'[d] = conversations[d]
        /\ conversations'[c] = [generations |-> <<FirstGeneration(b)>>,
                                active |-> 0, lifecycle |-> b.lifecycle]
    BY <1>1, <1>4 DEF TypeOK, Option
  <1>6. Existing' = Existing \cup {c}
    BY <1>4, <1>5, AbsentAssumption DEF Existing
  <1> QED
    BY <1>1, <1>5, <1>6 DEF MayBind, Existing

(* A ready head is a head.                                                   *)
LEMMA ReadyHeadTyped ==
  ASSUME NEW c \in Conv, NEW g \in Nat
  PROVE  ReadyHead(c, g) \in WorkspaceHead
  BY DEF ReadyHead, WorkspaceHead, HeadState, Option

(* Whatever bind_document does, the document stays valid; launches may at    *)
(* the same time only be removed.                                            *)
LEMMA BindDocumentInv ==
  ASSUME DocumentInv, NEW b, TypedBinding(b), NEW c \in Conv, BindDocument(b, c),
         UNCHANGED <<schema, transition>>,
         \A w : PendingIn(w) = {} => PendingIn(w)' = {}
  PROVE  /\ conversations' \in [Conv -> Option(Conversation)]
         /\ heads' \in [Workspace -> Option(WorkspaceHead)]
         /\ LineageValid' /\ TrustDomainValid' /\ ThreadsBoundOnce'
         /\ HeadsValid' /\ TransitionValid'
  <1>0. b.cwd \in Workspace
    BY DEF TypedBinding
  <1>1. CASE ThreadIsBound(b.thread)
    <2>1. /\ c \in Existing /\ Existing' = Existing
          /\ \A d \in Existing : /\ Generations(d)' = Generations(d)
                                 /\ conversations'[d].active = conversations[d].active
          /\ heads' = [heads EXCEPT ![b.cwd] = ReadyHead(c, conversations[c].active)]
          /\ conversations[c].active \in Nat
          /\ Generations(c)[conversations[c].active + 1].cwd = b.cwd
          /\ ~Transitioning(b.cwd)
          /\ conversations' \in [Conv -> Option(Conversation)]
      BY <1>1, RebindShape
    <2>2. heads' \in [Workspace -> Option(WorkspaceHead)]
      BY <1>0, <2>1, ReadyHeadTyped DEF TypeOK, Option
    <2>3. LineageValid' /\ TrustDomainValid' /\ ThreadsBoundOnce'
      BY <2>1 DEF LineageValid, TrustDomainValid, ThreadsBoundOnce
    <2>4. HeadsValid'
      BY <1>0, <2>1, AbsentAssumption DEF HeadsValid, ReadyHead, TypeOK, Existing
    <2>5. TransitionValid'
      <3>1. transition # Absent =>
              /\ transition.cwd # b.cwd /\ transition.conv \in Existing
              /\ heads'[transition.cwd] = heads[transition.cwd]
              /\ PendingIn(transition.cwd)' = {}
        BY <1>0, <2>1 DEF TransitionValid, Transitioning, TypeOK, Option, HandoffTransition
      <3> QED
        BY <2>1, <3>1 DEF TransitionValid, TargetGeneration, TargetOf, ReadyHead, ForkStarted
    <2> QED
      BY <2>1, <2>2, <2>3, <2>4, <2>5
  <1>2. CASE ~ThreadIsBound(b.thread)
    <2>1. /\ c \notin Existing /\ Existing' = Existing \cup {c}
          /\ \A d \in Existing : conversations'[d] = conversations[d]
          /\ conversations'[c].generations = <<FirstGeneration(b)>>
          /\ conversations'[c].active = 0
          /\ heads' = [heads EXCEPT ![b.cwd] = ReadyHead(c, 0)]
          /\ ~Transitioning(b.cwd)
          /\ conversations' \in [Conv -> Option(Conversation)]
      BY <1>2, NewConversationShape
    <2>2. heads' \in [Workspace -> Option(WorkspaceHead)]
      BY <1>0, <2>1, ReadyHeadTyped DEF TypeOK, Option
    <2>3. /\ \A d \in Existing : Generations(d)' = Generations(d)
          /\ Generations(c)' = <<FirstGeneration(b)>>
          /\ Len(Generations(c)') = 1
          /\ DOMAIN Generations(c)' = {1}
          /\ Generations(c)'[1] = FirstGeneration(b)
      BY <2>1 DEF Generations
    <2>a. conversations'[c].active = Len(Generations(c)') - 1
      BY <2>1, <2>3
    <2>4. LineageValid'
      <3> SUFFICES ASSUME NEW d \in Existing'
                   PROVE  /\ Len(Generations(d)') \in 1..MAX_LINEAGE_GENERATIONS
                          /\ conversations'[d].active = Len(Generations(d)') - 1
                          /\ schema' = 1 => Len(Generations(d)') = 1
                          /\ \A i \in DOMAIN Generations(d)' :
                               Generations(d)'[i].cwd = Generations(d)'[1].cwd
        BY DEF LineageValid
      <3>1. CASE d = c
        <4>1. Len(Generations(d)') = 1
          BY <2>3, <3>1
        <4>2. 1 \in 1..MAX_LINEAGE_GENERATIONS
          BY LineageBoundAssumption
        <4>3. conversations'[d].active = Len(Generations(d)') - 1
          BY <2>a, <3>1
        <4>4. \A i \in DOMAIN Generations(d)' :
                Generations(d)'[i].cwd = Generations(d)'[1].cwd
          BY <2>3, <3>1
        <4> QED
          BY <4>1, <4>2, <4>3, <4>4
      <3>2. CASE d \in Existing
        <4>1. /\ Generations(d)' = Generations(d)
              /\ conversations'[d].active = conversations[d].active
          BY <2>1, <2>3, <3>2
        <4> QED
          BY <3>2, <4>1 DEF LineageValid
      <3> QED
        BY <2>1, <3>1, <3>2
    <2>5. TrustDomainValid'
      <3> SUFFICES ASSUME NEW d \in Existing', NEW i \in DOMAIN Generations(d)'
                   PROVE  LET gen == Generations(d)'[i] IN
                          /\ (gen.trust = Absent) <=> (gen.rollout = Absent)
                          /\ Len(Generations(d)') > 1 => gen.trust # Absent
                          /\ gen.trust = Generations(d)'[1].trust
                          /\ schema' = 1 => gen.trust = Absent
        BY DEF TrustDomainValid
      <3>1. CASE d = c
        <4>1. Generations(d)'[i] = FirstGeneration(b)
          BY <2>3, <3>1
        <4>2. Generations(d)'[1] = FirstGeneration(b)
          BY <2>3, <3>1
        <4>3. Len(Generations(d)') = 1
          BY <2>3, <3>1
        <4>4. ~(Len(Generations(d)') > 1)
          BY <4>3
        <4> QED
          BY <4>1, <4>2, <4>4 DEF FirstGeneration
      <3>2. CASE d \in Existing
        <4>1. Generations(d)' = Generations(d)
          BY <2>3, <3>2
        <4> QED
          BY <3>2, <4>1 DEF TrustDomainValid
      <3> QED
        BY <2>1, <3>1, <3>2
    <2>6. ThreadsBoundOnce'
      BY <1>2, <2>1, <2>3 DEF ThreadsBoundOnce, FirstGeneration, ThreadIsBound, Binds
    <2>7. HeadsValid'
      BY <1>0, <2>1, <2>3, AbsentAssumption
      DEF HeadsValid, ReadyHead, TypeOK, Existing, FirstGeneration
    <2>8. TransitionValid'
      <3>1. transition # Absent =>
              /\ transition.cwd # b.cwd /\ transition.conv \in Existing
              /\ heads'[transition.cwd] = heads[transition.cwd]
              /\ PendingIn(transition.cwd)' = {}
        BY <1>0, <2>1 DEF TransitionValid, Transitioning, TypeOK, Option, HandoffTransition
      <3> QED
        BY <2>1, <2>3, <3>1
        DEF TransitionValid, TargetGeneration, TargetOf, ReadyHead, ForkStarted
    <2> QED
      BY <2>1, <2>2, <2>4, <2>5, <2>6, <2>7, <2>8
  <1> QED
    BY <1>1, <1>2

(* What resolve_head hands out is well typed. *)
LEMMA ResolvedHeadTyped ==
  ASSUME DocumentInv, NEW w \in Workspace, heads[w] # Absent,
         heads[w].state = "ready"
  PROVE  /\ heads[w].conv \in Existing
         /\ heads[w].gen = conversations[heads[w].conv].active
         /\ heads[w].gen \in Nat
         /\ heads[w].gen + 1 = Len(Generations(heads[w].conv))
         /\ heads[w].gen + 1 \in DOMAIN Generations(heads[w].conv)
         /\ Generations(heads[w].conv)[heads[w].gen + 1] \in Generation
         /\ Generations(heads[w].conv)[heads[w].gen + 1].cwd = w
         /\ ResolvedHead(w) \in HeadBinding
  <1> DEFINE c == heads[w].conv
             g == heads[w].gen
  <1>1. /\ c \in Existing /\ g = conversations[c].active
        /\ Generations(c)[g + 1].cwd = w
    BY DEF HeadsValid
  <1>2. /\ c \in Conv
        /\ conversations[c] \in Conversation
        /\ Generations(c) \in Seq(Generation)
    BY <1>1, ExistingTyped
  <1>3. g \in Nat /\ g = Len(Generations(c)) - 1
    BY <1>1, <1>2 DEF Conversation, LineageValid
  <1>4. Len(Generations(c)) \in Nat
    BY <1>2
  <1>5. g + 1 = Len(Generations(c)) /\ g + 1 \in DOMAIN Generations(c)
    BY <1>2, <1>3, <1>4
  <1>6. Generations(c)[g + 1] \in Generation
    BY <1>2, <1>5
  <1>7. ResolvedHead(w) \in HeadBinding
    BY <1>2, <1>3, <1>6
    DEF ResolvedHead, BindingAt, HeadBinding, Generation, Conversation
  <1> QED
    BY <1>1, <1>3, <1>5, <1>6, <1>7

(* resolve_head only reads.                                                  *)
LEMMA ReadHeadInv ==
  ASSUME DocumentInv, NEW k \in Client, NEW w \in Workspace, ReadHead(k, w)
  PROVE  DocumentInv'
  <1>1. ResolvedHead(w) \in HeadBinding
    BY ResolvedHeadTyped DEF ReadHead, Resolves
  <1>2. TypeOK'
    BY <1>1 DEF ReadHead, TypeOK, document, Option
  <1>3. UNCHANGED <<schema, conversations, heads, pending, transition>>
    BY DEF ReadHead, document
  <1>4. ValidDocument'
    BY <1>3
    DEF LineageValid, TrustDomainValid, ThreadsBoundOnce, HeadsValid,
        PendingValid, TransitionValid, Existing, Generations, TargetGeneration,
        TargetOf, ReadyHead, ForkStarted, PendingIn
  <1> QED
    BY <1>2, <1>4

(* adopt keeps the document valid.                                           *)
LEMMA AdoptInv ==
  ASSUME DocumentInv, NEW k \in Client, NEW b \in BindingInput, NEW c \in Conv,
         Adopt(k, b, c)
  PROVE  DocumentInv'
  <1>1. TypedBinding(b)
    BY LifecycleAssumption DEF BindingInput, TypedBinding
  <1>2. /\ BindDocument(b, c)
        /\ UNCHANGED <<schema, pending, issued, transition>>
        /\ held' = [held EXCEPT ![k] = BoundHead(b, c)]
    BY DEF Adopt
  <1>3. \A w : PendingIn(w)' = PendingIn(w)
    BY <1>2 DEF PendingIn
  <1>4. /\ conversations' \in [Conv -> Option(Conversation)]
        /\ heads' \in [Workspace -> Option(WorkspaceHead)]
        /\ LineageValid' /\ TrustDomainValid' /\ ThreadsBoundOnce'
        /\ HeadsValid' /\ TransitionValid'
    BY <1>1, <1>2, <1>3, BindDocumentInv
  <1>5. BoundHead(b, c) \in HeadBinding
    BY <1>1, ExistingTyped
    DEF BoundHead, HeadBinding, TypedBinding, Conversation
  <1>6. TypeOK'
    BY <1>2, <1>4, <1>5 DEF TypeOK, Option
  <1>7. PendingValid'
    BY <1>2 DEF PendingValid
  <1> QED
    BY <1>4, <1>6, <1>7

(* refresh_adopted keeps the document valid.                                 *)
LEMMA RefreshAdoptedInv ==
  ASSUME DocumentInv, NEW k \in Client, NEW y \in BindLifecycle, NEW c \in Conv,
         RefreshAdopted(k, y, c)
  PROVE  DocumentInv'
  <1> DEFINE b == [profile |-> held[k].profile, thread |-> held[k].thread,
                   cwd |-> held[k].cwd, version |-> held[k].version,
                   lifecycle |-> y]
  <1>1. TypedBinding(b)
    BY LifecycleAssumption
    DEF RefreshAdopted, TypeOK, Option, HeadBinding, TypedBinding
  <1>2. /\ BindDocument(b, c)
        /\ UNCHANGED <<schema, pending, issued, transition, held>>
    BY DEF RefreshAdopted
  <1>3. \A w : PendingIn(w)' = PendingIn(w)
    BY <1>2 DEF PendingIn
  <1>4. /\ conversations' \in [Conv -> Option(Conversation)]
        /\ heads' \in [Workspace -> Option(WorkspaceHead)]
        /\ LineageValid' /\ TrustDomainValid' /\ ThreadsBoundOnce'
        /\ HeadsValid' /\ TransitionValid'
    <2> HIDE DEF b
    <2> QED
      BY <1>1, <1>2, <1>3, BindDocumentInv
  <1>5. TypeOK'
    BY <1>2, <1>4 DEF TypeOK
  <1>6. PendingValid'
    BY <1>2 DEF PendingValid
  <1> QED
    BY <1>4, <1>5, <1>6

(* finish_launch with an exact thread keeps the document valid, matching or not. *)
LEMMA FinishLaunchBindInv ==
  ASSUME DocumentInv, NEW l \in Launch, NEW b \in BindingInput, NEW c \in Conv,
         FinishLaunchBind(l, b, c)
  PROVE  DocumentInv'
  <1>1. /\ pending[l] # Absent
        /\ pending' = [pending EXCEPT ![l] = Absent]
        /\ UNCHANGED <<schema, issued, transition, held>>
    BY DEF FinishLaunchBind
  <1>2. /\ pending' \in [Launch -> Option(PendingLaunch)]
        /\ PendingValid'
        /\ \A m \in Launch : pending'[m] # Absent => pending'[m] = pending[m]
        /\ \A w : PendingIn(w) = {} => PendingIn(w)' = {}
    BY <1>1, RemovePending
  <1>3. CASE BindDocument(b, c)
    <2>1. TypedBinding(b)
      BY LifecycleAssumption DEF BindingInput, TypedBinding
    <2>2. /\ conversations' \in [Conv -> Option(Conversation)]
          /\ heads' \in [Workspace -> Option(WorkspaceHead)]
          /\ LineageValid' /\ TrustDomainValid' /\ ThreadsBoundOnce'
          /\ HeadsValid' /\ TransitionValid'
      BY <1>1, <1>2, <1>3, <2>1, BindDocumentInv
    <2> QED
      BY <1>1, <1>2, <2>2 DEF TypeOK
  <1>4. CASE MarkNeedsSelection(pending[l].cwd) /\ UNCHANGED conversations
    <2>1. pending[l].cwd \in Workspace /\ ~Transitioning(pending[l].cwd)
      BY <1>1, OwnedWorkspaceNotTransitioning
    <2>2. TypeOK'
      BY <1>1, <1>2, <1>4, <2>1, MarkNeedsSelectionTypes DEF TypeOK
    <2>3. HeadsValid'
      BY <1>4, <2>1, MarkedHeadsStayValid
    <2>4. TransitionValid'
      BY <1>1, <1>2, <1>4, <2>1, MarkedTransitionStaysValid
    <2> QED
      BY <1>1, <1>2, <1>4, <2>2, <2>3, <2>4, LineageClausesFrame
  <1> QED
    BY <1>3, <1>4 DEF FinishLaunchBind

------------------------------------------------------------------------------
(* The handoff journal *)

(* The source generation's metadata is written in place: everything else     *)
(* about every lineage stays as it was.                                      *)
LEMMA PrepareHandoffShape ==
  ASSUME DocumentInv, NEW k \in Client, NEW target \in Profile,
         NEW trust \in TrustDomain, NEW rollout \in Rollout,
         PrepareHandoff(k, target, trust, rollout)
  PROVE  LET e == held[k]
             n == e.gen + 1
         IN /\ e \in HeadBinding /\ e.conv \in Existing /\ ResolvedHead(e.cwd) = e
            /\ heads[e.cwd] # Absent /\ heads[e.cwd] = ReadyHead(e.conv, e.gen)
            /\ e.gen \in Nat /\ e.gen = conversations[e.conv].active
            /\ n = Len(Generations(e.conv)) /\ n \in DOMAIN Generations(e.conv)
            /\ Generations(e.conv)[n] \in Generation
            /\ Generations(e.conv)[n].cwd = e.cwd
            /\ Generations(e.conv)[n].profile = e.profile
  <1> DEFINE e == held[k]
             w == e.cwd
  <1>1. /\ e # Absent /\ Resolves(w) /\ ResolvedHead(w) = e
    BY DEF PrepareHandoff
  <1>2. e \in HeadBinding /\ w \in Workspace
    BY <1>1 DEF TypeOK, Option, HeadBinding
  <1>3. heads[w] # Absent /\ heads[w].state = "ready" /\ heads[w] \in WorkspaceHead
    BY <1>1, <1>2 DEF Resolves, TypeOK, Option
  <1>4. heads[w].conv = e.conv /\ heads[w].gen = e.gen
        /\ e.profile = Generations(heads[w].conv)[heads[w].gen + 1].profile
    BY <1>1 DEF ResolvedHead, BindingAt
  <1>5. heads[w] = ReadyHead(e.conv, e.gen)
    BY <1>3, <1>4 DEF ReadyHead, WorkspaceHead
  <1>6. /\ heads[w].conv \in Existing
        /\ heads[w].gen = conversations[heads[w].conv].active
        /\ heads[w].gen \in Nat
        /\ heads[w].gen + 1 = Len(Generations(heads[w].conv))
        /\ heads[w].gen + 1 \in DOMAIN Generations(heads[w].conv)
        /\ Generations(heads[w].conv)[heads[w].gen + 1] \in Generation
        /\ Generations(heads[w].conv)[heads[w].gen + 1].cwd = w
    BY <1>2, <1>3, ResolvedHeadTyped
  <1> QED
    BY <1>1, <1>2, <1>3, <1>4, <1>5, <1>6

(* A step that writes only the journal needs only the journal clauses.       *)
LEMMA JournalStepInv ==
  ASSUME DocumentInv, JournalOnly,
         transition' \in HandoffTransition, TransitionValid'
  PROVE  DocumentInv'
  <1>1. TypeOK'
    BY DEF JournalOnly, TypeOK, Option
  <1>2. HeadsValid'
    BY DEF JournalOnly, HeadsValid, Existing, Generations
  <1>3. PendingValid'
    BY DEF JournalOnly, PendingValid
  <1> QED
    BY <1>1, <1>2, <1>3, LineageClausesFrame DEF JournalOnly

(* The two phase changes up to source_stopped keep the document valid.       *)
LEMMA AdvancePhaseInv ==
  ASSUME DocumentInv, MarkSourceStopRequested \/ MarkSourceStopped
  PROVE  DocumentInv'
  <1> USE DEF MarkSourceStopRequested, MarkSourceStopped, InPhase
  <1>1. transition \in HandoffTransition
    BY DEF TypeOK, Option
  <1>2. transition' \in HandoffTransition /\ transition' # Absent
    BY <1>1, AbsentAssumption DEF HandoffTransition, HandoffPhase
  <1>3. TransitionValid'
    BY <1>1, <1>2
    DEF HandoffTransition, TransitionValid, JournalOnly, Generations, Existing,
        TargetGeneration, TargetOf, ReadyHead, ForkStarted, PendingIn
  <1> QED
    BY <1>2, <1>3, JournalStepInv

(* record_fork_intent keeps the document valid.                              *)
LEMMA RecordForkIntentInv ==
  ASSUME DocumentInv, NEW ids \in Seq(Thread), RecordForkIntent(ids)
  PROVE  DocumentInv'
  <1> DEFINE baseline == {ids[i] : i \in DOMAIN ids}
  <1>1. transition \in HandoffTransition /\ transition.phase = "source_stopped"
    BY DEF RecordForkIntent, InPhase, TypeOK, Option
  <1>2. baseline \in SUBSET Thread
    OBVIOUS
  <1>3. /\ JournalOnly /\ transition # Absent
        /\ transition' = [transition EXCEPT !.phase = "fork_requested",
                            !.baseline = baseline, !.attempts = 1]
    BY DEF RecordForkIntent, InPhase
  <1> HIDE DEF baseline
  <1>a. 1 \in 0..2 /\ "fork_requested" \in HandoffPhase
    BY DEF HandoffPhase
  <1>4. transition' \in HandoffTransition
    BY <1>1, <1>2, <1>3, <1>a DEF HandoffTransition
  <1>5. transition' # Absent
    BY <1>4, AbsentAssumption
  <1>6. /\ transition'.phase = "fork_requested" /\ transition'.attempts = 1
        /\ transition'.conv = transition.conv /\ transition'.source = transition.source
        /\ transition'.source_profile = transition.source_profile
        /\ transition'.target_profile = transition.target_profile
        /\ transition'.cwd = transition.cwd /\ transition'.trust = transition.trust
        /\ transition'.rollout = transition.rollout
        /\ transition'.observed = transition.observed
    BY <1>1, <1>3 DEF HandoffTransition
  <1>7. TransitionValid'
    BY <1>1, <1>3, <1>5, <1>6
    DEF TransitionValid, JournalOnly, Generations, Existing, TargetGeneration,
        TargetOf, ReadyHead, ForkStarted, PendingIn
  <1> QED
    BY <1>3, <1>4, <1>7, JournalStepInv

(* record_bounded_fork_retry keeps the document valid: the attempts stay in  *)
(* 1..2 because it moves only from 1.                                        *)
LEMMA RecordBoundedForkRetryInv ==
  ASSUME DocumentInv, RecordBoundedForkRetry
  PROVE  DocumentInv'
  <1> USE DEF RecordBoundedForkRetry, InPhase
  <1>1. transition \in HandoffTransition
    BY DEF TypeOK, Option
  <1>2. transition' \in HandoffTransition /\ transition' # Absent
    BY <1>1, AbsentAssumption DEF HandoffTransition
  <1>3. TransitionValid'
    BY <1>1, <1>2
    DEF HandoffTransition, TransitionValid, JournalOnly, Generations, Existing,
        TargetGeneration, TargetOf, ReadyHead, ForkStarted, PendingIn
  <1> QED
    BY <1>2, <1>3, JournalStepInv

(* observe_handoff_target keeps the document valid.                          *)
LEMMA ObserveHandoffTargetInv ==
  ASSUME DocumentInv, NEW t \in HandoffTarget, ObserveHandoffTarget(t)
  PROVE  DocumentInv'
  <1> USE DEF ObserveHandoffTarget, InPhase
  <1>1. transition \in HandoffTransition
    BY DEF TypeOK, Option
  <1>a. transition' \in HandoffTransition
    BY <1>1 DEF HandoffTransition, HandoffPhase, Option
  <1>2. transition' \in HandoffTransition /\ transition' # Absent
    BY <1>a, AbsentAssumption
  <1>3. t.thread # Generations(transition.conv)[transition.source + 1].thread
    BY DEF TransitionValid, ThreadIsBound, Binds
  <1>4. t # Absent
    BY AbsentAssumption
  <1>5. TransitionValid'
    BY <1>1, <1>2, <1>3, <1>4
    DEF HandoffTransition, TransitionValid, JournalOnly, Generations, Existing,
        TargetGeneration, TargetOf, ReadyHead, ForkStarted, PendingIn
  <1> QED
    BY <1>2, <1>5, JournalStepInv

(* prepare_handoff keeps the document valid: an earlier trust domain of the  *)
(* lineage must be repeated, and the frozen head is the one it was given.    *)
LEMMA PrepareHandoffInv ==
  ASSUME DocumentInv, NEW k \in Client, NEW target \in Profile,
         NEW trust \in TrustDomain, NEW rollout \in Rollout,
         PrepareHandoff(k, target, trust, rollout)
  PROVE  DocumentInv'
  <1>e. PICK e : e = held[k]
    OBVIOUS
  <1> DEFINE c == e.conv
             n == e.gen + 1
  <1>g. PICK gens : gens = Generations(c)
    OBVIOUS
  <1> DEFINE source == [gens[n] EXCEPT !.trust = trust, !.rollout = rollout]
  <1>1. /\ e \in HeadBinding /\ c \in Existing /\ ResolvedHead(e.cwd) = e
        /\ heads[e.cwd] # Absent /\ heads[e.cwd] = ReadyHead(c, e.gen)
        /\ e.gen \in Nat /\ e.gen = conversations[c].active
        /\ n = Len(gens) /\ n \in DOMAIN gens
        /\ gens[n] \in Generation /\ gens[n].cwd = e.cwd
        /\ gens[n].profile = e.profile
    BY <1>e, <1>g, PrepareHandoffShape
  <1>2. /\ target # e.profile
        /\ transition = Absent
        /\ PendingIn(e.cwd) = {}
        /\ SourceMetadataAgrees(gens[n], trust, rollout)
        /\ schema' = 2
        /\ transition' =
             [conv |-> c, source |-> e.gen, source_profile |-> e.profile,
              target_profile |-> target, cwd |-> e.cwd, trust |-> trust,
              rollout |-> rollout, phase |-> "prepared", baseline |-> {},
              attempts |-> 0, observed |-> Absent]
        /\ UNCHANGED <<heads, pending, issued, held>>
    BY <1>e, <1>g DEF PrepareHandoff
  <1>3. /\ c \in Conv /\ conversations[c] \in Conversation
        /\ gens \in Seq(Generation)
    BY <1>1, <1>g, ExistingTyped
  <1>4. /\ source \in Generation
        /\ source.trust = trust /\ source.rollout = rollout
        /\ source.profile = gens[n].profile /\ source.thread = gens[n].thread
        /\ source.cwd = gens[n].cwd
    BY <1>1 DEF Generation, Option
  <1>5. conversations' = [conversations EXCEPT ![c] =
          [conversations[c] EXCEPT !.generations = [gens EXCEPT ![n] = source]]]
    BY <1>e, <1>g DEF PrepareHandoff, Generations
  <1>6. /\ [gens EXCEPT ![n] = source] \in Seq(Generation)
        /\ Len([gens EXCEPT ![n] = source]) = Len(gens)
        /\ DOMAIN [gens EXCEPT ![n] = source] = DOMAIN gens
        /\ \A i \in DOMAIN gens : [gens EXCEPT ![n] = source][i] =
                                    IF i = n THEN source ELSE gens[i]
    <2> HIDE DEF source, n
    <2>1. n \in 1..Len(gens)
      BY <1>1, <1>3
    <2> QED
      BY <1>3, <1>4, <2>1, ExceptSeq
  <1> HIDE DEF source, n, c
  <1>7. /\ conversations'[c] \in Conversation
        /\ conversations'[c].generations = [gens EXCEPT ![n] = source]
        /\ conversations'[c].active = conversations[c].active
        /\ \A d \in Conv : d # c => conversations'[d] = conversations[d]
        /\ conversations' \in [Conv -> Option(Conversation)]
    BY <1>3, <1>5, <1>6 DEF TypeOK, Conversation, Option
  <1>8. Existing' = Existing
    BY <1>1, <1>7, AbsentAssumption DEF Existing
  <1>9. /\ \A d \in Existing : d # c => Generations(d)' = Generations(d)
        /\ \A d \in Existing : conversations'[d].active = conversations[d].active
        /\ \A d \in Existing : Len(Generations(d)') = Len(Generations(d))
        /\ \A d \in Existing : DOMAIN Generations(d)' = DOMAIN Generations(d)
        /\ \A d \in Existing : \A i \in DOMAIN Generations(d) :
             /\ Generations(d)'[i].cwd = Generations(d)[i].cwd
             /\ Generations(d)'[i].thread = Generations(d)[i].thread
             /\ Generations(d)'[i].profile = Generations(d)[i].profile
        /\ \A i \in DOMAIN gens : i # n => Generations(c)'[i] = gens[i]
        /\ Generations(c)'[n] = source
    BY <1>1, <1>4, <1>6, <1>7, <1>g DEF Generations, Existing
  <1>10. TypeOK'
    <2>1. transition' \in HandoffTransition
      BY <1>1, <1>2, <1>3 DEF HandoffTransition, HandoffPhase, HeadBinding, Option
    <2> QED
      BY <1>2, <1>7, <2>1 DEF TypeOK, Option
  <1>11. LineageValid'
    <2> SUFFICES ASSUME NEW d \in Existing
                 PROVE  /\ Len(Generations(d)') \in 1..MAX_LINEAGE_GENERATIONS
                        /\ conversations'[d].active = Len(Generations(d)') - 1
                        /\ \A i \in DOMAIN Generations(d)' :
                             Generations(d)'[i].cwd = Generations(d)'[1].cwd
      BY <1>2, <1>8 DEF LineageValid
    <2>1. /\ Len(Generations(d)) \in 1..MAX_LINEAGE_GENERATIONS
          /\ conversations[d].active = Len(Generations(d)) - 1
          /\ \A i \in DOMAIN Generations(d) :
               Generations(d)[i].cwd = Generations(d)[1].cwd
          /\ Generations(d) \in Seq(Generation)
      BY ExistingTyped DEF LineageValid
    <2>2. 1 \in DOMAIN Generations(d)
      BY <2>1
    <2> QED
      BY <1>9, <2>1, <2>2
  <1>12. TrustDomainValid'
    <2> SUFFICES ASSUME NEW d \in Existing, NEW i \in DOMAIN Generations(d)
                 PROVE  LET gen == Generations(d)'[i] IN
                        /\ (gen.trust = Absent) <=> (gen.rollout = Absent)
                        /\ Len(Generations(d)') > 1 => gen.trust # Absent
                        /\ gen.trust = Generations(d)'[1].trust
      BY <1>2, <1>8, <1>9 DEF TrustDomainValid
    <2>1. /\ (Generations(d)[i].trust = Absent) <=> (Generations(d)[i].rollout = Absent)
          /\ Len(Generations(d)) > 1 => Generations(d)[i].trust # Absent
          /\ Generations(d)[i].trust = Generations(d)[1].trust
      BY DEF TrustDomainValid
    <2>2. CASE d # c
      BY <1>9, <2>1, <2>2
    <2>3. CASE d = c
      <3>1. trust # Absent /\ rollout # Absent
        BY AbsentAssumption
      <3>2. 1 \in DOMAIN gens /\ Len(gens) \in Nat /\ DOMAIN gens = 1..Len(gens)
        BY <1>1, <1>3
      <3>3. CASE gens[n].trust = Absent
        <4>1. ~(Len(gens) > 1)
          BY <1>1, <3>3, <1>g DEF TrustDomainValid
        <4>2. i = 1 /\ n = 1
          BY <1>1, <2>3, <3>2, <4>1, <1>g
        <4> QED
          BY <1>4, <1>9, <2>3, <3>1, <4>2, <1>g
      <3>4. CASE gens[n].trust # Absent
        <4>1. gens[n].trust = trust /\ gens[n].rollout = rollout
          BY <1>2, <3>4 DEF SourceMetadataAgrees
        <4>2. /\ Generations(c)'[i].trust = gens[i].trust
              /\ Generations(c)'[i].rollout = gens[i].rollout
              /\ Generations(c)'[1].trust = gens[1].trust
          BY <1>4, <1>9, <2>3, <3>2, <4>1, <1>g
        <4> QED
          BY <1>9, <2>1, <2>3, <4>2, <1>g
      <3> QED
        BY <3>3, <3>4
    <2> QED
      BY <2>2, <2>3
  <1>13. ThreadsBoundOnce'
    BY <1>8, <1>9 DEF ThreadsBoundOnce
  <1>14. HeadsValid'
    <2> SUFFICES ASSUME NEW w \in Workspace, heads[w] # Absent
                 PROVE  /\ heads[w].state = "ready" =>
                            /\ heads[w].conv \in Existing
                            /\ heads[w].gen = conversations'[heads[w].conv].active
                            /\ Generations(heads[w].conv)'[heads[w].gen + 1].cwd = w
                        /\ (heads[w].conv = Absent) <=> (heads[w].gen = Absent)
      BY <1>2, <1>8 DEF HeadsValid
    <2>1. (heads[w].conv = Absent) <=> (heads[w].gen = Absent)
      BY DEF HeadsValid
    <2>2. ASSUME heads[w].state = "ready"
          PROVE  /\ heads[w].conv \in Existing
                 /\ heads[w].gen = conversations'[heads[w].conv].active
                 /\ Generations(heads[w].conv)'[heads[w].gen + 1].cwd = w
      <3>1. /\ heads[w].conv \in Existing
            /\ heads[w].gen = conversations[heads[w].conv].active
            /\ heads[w].gen + 1 \in DOMAIN Generations(heads[w].conv)
            /\ Generations(heads[w].conv)[heads[w].gen + 1].cwd = w
        BY <2>2, ResolvedHeadTyped
      <3> QED
        BY <1>2, <1>9, <3>1
    <2> QED
      BY <2>1, <2>2
  <1>15. PendingValid'
    BY <1>2 DEF PendingValid
  <1>16. TransitionValid'
    <2>1. PendingIn(e.cwd)' = {}
      BY <1>2 DEF PendingIn
    <2>2. transition'.phase = "prepared" /\ n = transition'.source + 1
      BY <1>2 DEF n
    <2>3. n \in DOMAIN Generations(c)'
      BY <1>1, <1>9, <1>g
    <2>4. conversations'[c].active = e.gen
      BY <1>1, <1>7
    <2>5. e.profile # target
      BY <1>2
    <2>6. heads'[e.cwd] = ReadyHead(c, e.gen)
      BY <1>1, <1>2
    <2> QED
      BY <1>1, <1>2, <1>4, <1>8, <1>9, <2>1, <2>2, <2>3, <2>4, <2>5, <2>6
      DEF TransitionValid, ForkStarted, ReadyHead
  <1> QED
    BY <1>10, <1>11, <1>12, <1>13, <1>14, <1>15, <1>16

(* commit_handoff keeps the document valid: the target is appended at the    *)
(* tail, its thread is bound nowhere else, and head and journal move together. *)
LEMMA CommitHandoffInv ==
  ASSUME DocumentInv, CommitHandoff
  PROVE  DocumentInv'
  <1>x. PICK x : x = transition
    OBVIOUS
  <1> DEFINE c == x.conv
             t == TargetOf(x)
             g == TargetGeneration(x)
  <1>g. PICK gens : gens = Generations(c)
    OBVIOUS
  <1>1. /\ x # Absent /\ x.phase = "fork_observed"
        /\ x.observed # Absent /\ ~ThreadIsBound(x.observed.thread)
        /\ c \in Existing
        /\ conversations[c].active = x.source
        /\ Len(gens) < MAX_LINEAGE_GENERATIONS
        /\ heads[x.cwd] = ReadyHead(c, x.source)
        /\ heads' = [heads EXCEPT ![x.cwd] = ReadyHead(c, g)]
        /\ transition' = [x EXCEPT !.phase = "committed_unattached"]
        /\ UNCHANGED <<schema, pending, issued, held>>
    BY <1>x, <1>g DEF CommitHandoff, InPhase
  <1>2. conversations' = [conversations EXCEPT ![c] =
          [generations |-> Append(gens, t), active |-> g,
           lifecycle |-> "interrupted"]]
    BY <1>x, <1>g DEF CommitHandoff, Generations
  <1>3. x \in HandoffTransition /\ x.observed \in HandoffTarget
    BY <1>x, <1>1 DEF TypeOK, Option, HandoffTransition
  <1>4. /\ c \in Conv /\ conversations[c] \in Conversation
        /\ gens \in Seq(Generation)
        /\ Len(gens) \in Nat \ {0} /\ DOMAIN gens = 1..Len(gens)
        /\ g = Len(gens) /\ x.source \in Nat /\ g \in Nat
    <2>1. /\ c \in Conv /\ conversations[c] \in Conversation
          /\ gens \in Seq(Generation)
      BY <1>1, <1>g, ExistingTyped
    <2>2. /\ Len(gens) \in 1..MAX_LINEAGE_GENERATIONS
          /\ conversations[c].active = Len(gens) - 1
      BY <1>1, <1>g DEF LineageValid
    <2> QED
      BY <1>1, <1>3, <2>1, <2>2 DEF TargetGeneration, HandoffTransition
  <1>5. /\ t \in Generation
        /\ t.thread = x.observed.thread /\ t.cwd = x.cwd /\ t.trust = x.trust
        /\ t.trust # Absent /\ t.rollout # Absent
    <2>1. x.observed.cwd = x.cwd
      BY <1>1, <1>x DEF TransitionValid
    <2>2. x.trust # Absent /\ x.observed.rollout # Absent
      BY <1>3, AbsentAssumption DEF HandoffTransition, HandoffTarget
    <2> QED
      BY <1>3, <2>1, <2>2
      DEF TargetOf, Generation, HandoffTransition, HandoffTarget, Option
  <1>6. /\ gens[x.source + 1].cwd = x.cwd
        /\ gens[x.source + 1].trust = x.trust
        /\ x.source + 1 \in DOMAIN gens
        /\ schema = 2
        /\ PendingIn(x.cwd) = {}
        /\ x.source_profile # x.target_profile
        /\ x.attempts \in 1..2
        /\ gens[x.source + 1].profile = x.source_profile
        /\ gens[x.source + 1].rollout = x.rollout
        /\ x.observed.thread # gens[x.source + 1].thread
        /\ x.observed.rollout.file # x.rollout.file
        /\ x.observed.cwd = x.cwd
    BY <1>1, <1>x, <1>g DEF TransitionValid, ForkStarted
  <1> HIDE DEF t, g
  <1>7. /\ Append(gens, t) \in Seq(Generation)
        /\ Len(Append(gens, t)) = Len(gens) + 1
        /\ DOMAIN Append(gens, t) = 1..(Len(gens) + 1)
        /\ \A i \in DOMAIN gens : Append(gens, t)[i] = gens[i]
        /\ Append(gens, t)[Len(gens) + 1] = t
    BY <1>4, <1>5, AppendProperties
  <1> HIDE DEF c
  <1>8. /\ conversations'[c] = [generations |-> Append(gens, t), active |-> g,
                                lifecycle |-> "interrupted"]
        /\ conversations'[c] \in Conversation
        /\ \A d \in Conv : d # c => conversations'[d] = conversations[d]
        /\ conversations' \in [Conv -> Option(Conversation)]
    BY <1>2, <1>4, <1>7 DEF TypeOK, Conversation, Option, Lifecycle
  <1>9. Existing' = Existing
    BY <1>1, <1>8, AbsentAssumption DEF Existing
  <1>10. /\ Generations(c)' = Append(gens, t)
         /\ conversations'[c].active = g
         /\ \A d \in Existing : d # c => /\ Generations(d)' = Generations(d)
                                         /\ conversations'[d].active = conversations[d].active
    BY <1>8 DEF Generations, Existing
  <1>11. TypeOK'
    <2>1. transition' \in HandoffTransition
      BY <1>1, <1>3 DEF HandoffTransition, HandoffPhase
    <2>2. ReadyHead(c, g) \in WorkspaceHead
      BY <1>4, ReadyHeadTyped
    <2>3. heads' \in [Workspace -> Option(WorkspaceHead)]
      BY <1>1, <2>2 DEF TypeOK, Option
    <2> QED
      BY <1>1, <1>8, <2>1, <2>3 DEF TypeOK, Option
  <1>12. LineageValid'
    <2> SUFFICES ASSUME NEW d \in Existing
                 PROVE  /\ Len(Generations(d)') \in 1..MAX_LINEAGE_GENERATIONS
                        /\ conversations'[d].active = Len(Generations(d)') - 1
                        /\ \A i \in DOMAIN Generations(d)' :
                             Generations(d)'[i].cwd = Generations(d)'[1].cwd
      BY <1>1, <1>6, <1>9 DEF LineageValid
    <2>1. CASE d # c
      <3>1. /\ Generations(d)' = Generations(d)
            /\ conversations'[d].active = conversations[d].active
        BY <1>10, <2>1
      <3> QED
        BY <3>1 DEF LineageValid
    <2>2. CASE d = c
      <3>1. \A i \in DOMAIN gens : gens[i].cwd = gens[1].cwd
        BY <1>1, <1>g DEF LineageValid
      <3>2. gens[1].cwd = x.cwd /\ 1 \in DOMAIN gens
        BY <1>4, <1>6, <3>1
      <3>3. \A i \in 1..(Len(gens) + 1) : Append(gens, t)[i].cwd = x.cwd
        BY <1>4, <1>5, <1>7, <3>1, <3>2
      <3>4. \A i \in DOMAIN Append(gens, t) :
              Append(gens, t)[i].cwd = Append(gens, t)[1].cwd
        BY <1>4, <1>7, <3>3
      <3>5. Len(Append(gens, t)) \in 1..MAX_LINEAGE_GENERATIONS
        BY <1>1, <1>4, <1>7, LineageBoundAssumption
      <3>6. g = Len(Append(gens, t)) - 1
        BY <1>4, <1>7
      <3> QED
        BY <1>10, <2>2, <3>4, <3>5, <3>6
    <2> QED
      BY <2>1, <2>2
  <1>13. TrustDomainValid'
    <2> SUFFICES ASSUME NEW d \in Existing, NEW i \in DOMAIN Generations(d)'
                 PROVE  LET gen == Generations(d)'[i] IN
                        /\ (gen.trust = Absent) <=> (gen.rollout = Absent)
                        /\ Len(Generations(d)') > 1 => gen.trust # Absent
                        /\ gen.trust = Generations(d)'[1].trust
      BY <1>1, <1>6, <1>9 DEF TrustDomainValid
    <2>1. CASE d # c
      <3>1. Generations(d)' = Generations(d)
        BY <1>10, <2>1
      <3> QED
        BY <3>1 DEF TrustDomainValid
    <2>2. CASE d = c
      <3>1. \A j \in DOMAIN gens :
              /\ (gens[j].trust = Absent) <=> (gens[j].rollout = Absent)
              /\ gens[j].trust = gens[1].trust
        BY <1>1, <1>g DEF TrustDomainValid
      <3>2. gens[1].trust = x.trust /\ 1 \in DOMAIN gens
        BY <1>4, <1>6, <3>1
      <3>3. x.trust # Absent
        BY <1>5
      <3>4. \A j \in 1..(Len(gens) + 1) :
              /\ Append(gens, t)[j].trust = x.trust
              /\ Append(gens, t)[j].rollout # Absent
        BY <1>4, <1>5, <1>7, <3>1, <3>2, <3>3
      <3>5. i \in 1..(Len(gens) + 1) /\ 1 \in 1..(Len(gens) + 1)
        BY <1>4, <1>7, <1>10, <2>2
      <3> QED
        BY <1>10, <2>2, <3>3, <3>4, <3>5
    <2> QED
      BY <2>1, <2>2
  <1>14. ThreadsBoundOnce'
    <2>1. \A d \in Existing : \A j \in DOMAIN Generations(d) :
            Generations(d)[j].thread # t.thread
      BY <1>1, <1>5 DEF ThreadIsBound, Binds
    <2> SUFFICES ASSUME NEW d \in Existing, NEW f \in Existing,
                        NEW i \in DOMAIN Generations(d)',
                        NEW j \in DOMAIN Generations(f)',
                        Generations(d)'[i].thread = Generations(f)'[j].thread
                 PROVE  d = f /\ i = j
      BY <1>9 DEF ThreadsBoundOnce
    <2>2. \A h \in Existing : \A m \in DOMAIN Generations(h)' :
            \/ /\ m \in DOMAIN Generations(h)
               /\ Generations(h)'[m] = Generations(h)[m]
            \/ h = c /\ m = Len(gens) + 1 /\ Generations(h)'[m] = t
      BY <1>4, <1>7, <1>10, <1>g
    <2> QED
      BY <2>1, <2>2 DEF ThreadsBoundOnce
  <1>15. HeadsValid'
    <2> SUFFICES ASSUME NEW w \in Workspace, heads'[w] # Absent
                 PROVE  /\ heads'[w].state = "ready" =>
                            /\ heads'[w].conv \in Existing
                            /\ heads'[w].gen = conversations'[heads'[w].conv].active
                            /\ conversations'[heads'[w].conv].generations
                                 [heads'[w].gen + 1].cwd = w
                        /\ (heads'[w].conv = Absent) <=> (heads'[w].gen = Absent)
      BY <1>9 DEF HeadsValid, Generations
    <2>1. CASE w = x.cwd
      <3>1. heads'[w] = ReadyHead(c, g)
        BY <1>1, <2>1 DEF TypeOK
      <3>2. /\ heads'[w].conv = c /\ heads'[w].gen = g
            /\ c # Absent /\ g # Absent
        BY <1>4, <3>1, AbsentAssumption DEF ReadyHead
      <3>3. conversations'[c].generations[g + 1].cwd = w
        BY <1>4, <1>5, <1>7, <1>8, <2>1
      <3> QED
        BY <1>1, <1>10, <3>2, <3>3
    <2>2. CASE w # x.cwd
      <3>1. heads'[w] = heads[w]
        BY <1>1, <2>2 DEF TypeOK
      <3>2. (heads[w].conv = Absent) <=> (heads[w].gen = Absent)
        BY <3>1 DEF HeadsValid
      <3>3. ASSUME heads[w].state = "ready"
            PROVE  /\ heads[w].conv \in Existing
                   /\ heads[w].gen = conversations'[heads[w].conv].active
                   /\ conversations'[heads[w].conv].generations
                        [heads[w].gen + 1].cwd = w
        <4>1. /\ heads[w].conv \in Existing
              /\ heads[w].gen = conversations[heads[w].conv].active
              /\ heads[w].gen + 1 = Len(Generations(heads[w].conv))
              /\ heads[w].gen + 1 \in DOMAIN Generations(heads[w].conv)
              /\ Generations(heads[w].conv)[heads[w].gen + 1].cwd = w
          BY <3>1, <3>3, ResolvedHeadTyped
        <4>2. heads[w].conv # c
          BY <1>4, <1>6, <1>g, <2>2, <4>1 DEF TargetGeneration, g
        <4>3. conversations'[heads[w].conv] = conversations[heads[w].conv]
          BY <1>8, <4>1, <4>2 DEF Existing
        <4> QED
          BY <4>1, <4>3 DEF Generations
      <3> QED
        BY <3>1, <3>2, <3>3
    <2> QED
      BY <2>1, <2>2
  <1>16. PendingValid'
    BY <1>1 DEF PendingValid
  <1>17. TransitionValid'
    <2>1. /\ transition' # Absent
          /\ transition'.phase = "committed_unattached"
          /\ transition'.conv = c /\ transition'.source = x.source
          /\ transition'.source_profile = x.source_profile
          /\ transition'.target_profile = x.target_profile
          /\ transition'.cwd = x.cwd /\ transition'.trust = x.trust
          /\ transition'.rollout = x.rollout /\ transition'.attempts = x.attempts
          /\ transition'.observed = x.observed
      <3>1. transition' \in HandoffTransition
        BY <1>1, <1>3 DEF HandoffTransition, HandoffPhase
      <3> QED
        BY <1>1, <1>3, <3>1, AbsentAssumption DEF HandoffTransition, c
    <2>2. PendingIn(transition.cwd)' = {}
      BY <1>1, <1>6, <2>1 DEF PendingIn
    <2>3. /\ conversations'[c].generations[x.source + 1] = gens[x.source + 1]
          /\ x.source + 1 \in DOMAIN conversations'[c].generations
      BY <1>4, <1>6, <1>7, <1>8
    <2>4. TargetGeneration(transition)' = g
      BY <2>1 DEF TargetGeneration, g
    <2>5. TargetOf(transition)' = t
      BY <2>1 DEF TargetOf, t
    <2>6. conversations'[c].generations[g + 1] = t
      BY <1>4, <1>7, <1>8
    <2>7. heads'[x.cwd] = ReadyHead(c, g)
      BY <1>1, <1>3 DEF TypeOK, HandoffTransition
    <2>8. /\ schema' = 2 /\ c \in Existing'
          /\ ForkStarted(transition)'
          /\ transition'.attempts \in 1..2
      BY <1>1, <1>6, <1>9, <2>1 DEF ForkStarted
    <2>9. ReadyHead(transition.conv, TargetGeneration(transition))' = ReadyHead(c, g)
      BY <2>1, <2>4 DEF ReadyHead
    <2>10. Generations(transition.conv)' = conversations'[c].generations
      BY <2>1 DEF Generations
    <2>11. ASSUME NEW gs, gs = Generations(transition.conv)'
           PROVE  /\ x.source + 1 \in DOMAIN gs
                  /\ gs[x.source + 1] = gens[x.source + 1]
                  /\ gs[g + 1] = t
      BY <2>3, <2>6, <2>10, <2>11
    <2> QED
      BY <1>1, <1>6, <1>10, <2>1, <2>2, <2>4, <2>5, <2>7, <2>8, <2>9, <2>11
      DEF TransitionValid
  <1> QED
    BY <1>11, <1>12, <1>13, <1>14, <1>15, <1>16, <1>17

(* finish_handoff_attachment keeps the document valid.                       *)
LEMMA FinishHandoffAttachmentInv ==
  ASSUME DocumentInv, NEW k \in Client, FinishHandoffAttachment(k)
  PROVE  DocumentInv'
  <1>1. /\ transition # Absent /\ heads[transition.cwd] # Absent
        /\ heads[transition.cwd].state = "ready"
        /\ transition' = Absent
        /\ held' = [held EXCEPT ![k] = ResolvedHead(transition.cwd)]
        /\ UNCHANGED <<schema, conversations, heads, pending, issued>>
    BY DEF FinishHandoffAttachment, InPhase
  <1>2. transition.cwd \in Workspace
    BY <1>1 DEF TypeOK, Option, HandoffTransition
  <1>3. ResolvedHead(transition.cwd) \in HeadBinding
    BY <1>1, <1>2, ResolvedHeadTyped
  <1>4. TypeOK'
    BY <1>1, <1>3 DEF TypeOK, Option
  <1>5. HeadsValid' /\ PendingValid' /\ TransitionValid'
    BY <1>1 DEF HeadsValid, PendingValid, TransitionValid, Existing, Generations
  <1> QED
    BY <1>1, <1>4, <1>5, LineageClausesFrame

------------------------------------------------------------------------------
(* The theorems *)

(* Every operation of the registry, and stuttering, keeps the document one   *)
(* that a load accepts.                                                      *)
LEMMA NextKeepsInv ==
  ASSUME DocumentInv, [Next]_vars
  PROVE  DocumentInv'
  <1>1. CASE LaunchNext
    BY <1>1, BeginLaunchInv, PrepareUntrackedInv, MarkAmbiguousInv, MarkPendingInv,
       FinishWithoutBindingInv, FinishLaunchBindInv
    DEF LaunchNext
  <1>2. CASE BindNext
    BY <1>2, AdoptInv, ReadHeadInv, RefreshAdoptedInv, MarkAmbiguousInv DEF BindNext
  <1>3. CASE HandoffNext
    BY <1>3, PrepareHandoffInv, AdvancePhaseInv, RecordForkIntentInv,
       BaselineAssumption, RecordBoundedForkRetryInv, ObserveHandoffTargetInv, CommitHandoffInv,
       FinishHandoffAttachmentInv
    DEF HandoffNext
  <1>4. CASE UNCHANGED vars
    BY <1>4 DEF vars, DocumentInv, TypeOK, ValidDocument, LineageValid,
       TrustDomainValid, ThreadsBoundOnce, HeadsValid, PendingValid,
       TransitionValid, Existing, Generations, PendingIn, ForkStarted,
       TargetGeneration, TargetOf, ReadyHead
  <1> QED
    BY <1>1, <1>2, <1>3, <1>4 DEF Next

(* The document keeps the types of conversations.rs, for any sets of         *)
(* profiles, workspaces, threads and callers and any lineage bound.          *)
THEOREM TypeCorrect == Spec => []TypeOK
  <1>1. Init => DocumentInv
    BY InitEstablishesInv
  <1>2. DocumentInv /\ [Next]_vars => DocumentInv'
    BY NextKeepsInv
  <1>3. DocumentInv => TypeOK
    BY DEF DocumentInv
  <1> QED
    BY <1>1, <1>2, <1>3, PTL DEF Spec

(* No operation of the registry ever builds a document that validate_document *)
(* refuses: apart from its limits on size, the check `save' makes before it   *)
(* publishes never fires, so every operation whose own guards pass commits.   *)
THEOREM DocumentAlwaysValid == Spec => []ValidDocument
  <1>1. Init => DocumentInv
    BY InitEstablishesInv
  <1>2. DocumentInv /\ [Next]_vars => DocumentInv'
    BY NextKeepsInv
  <1>3. DocumentInv => ValidDocument
    BY DEF DocumentInv
  <1> QED
    BY <1>1, <1>2, <1>3, PTL DEF Spec

------------------------------------------------------------------------------
(* The frozen workspace *)

(* A head of the active transition's workspace stays, or moves with the       *)
(* commit.                                                                    *)
HeadFrozen(w) ==
  Transitioning(w) /\ heads'[w] # heads[w] =>
    /\ transition.phase = "fork_observed"
    /\ transition'.phase = "committed_unattached"

(* Marking or binding another workspace leaves the frozen head alone. *)
LEMMA OtherHeadFrozen ==
  ASSUME DocumentInv, NEW w \in Workspace, NEW u \in Workspace, ~Transitioning(u),
         NEW h, heads' = [heads EXCEPT ![u] = h]
  PROVE  HeadFrozen(w)
  BY DEF TypeOK, HeadFrozen, Transitioning

(* So does mark_head_needs_selection. *)
LEMMA OtherMarkFrozen ==
  ASSUME DocumentInv, NEW w \in Workspace, NEW u \in Workspace, ~Transitioning(u),
         MarkNeedsSelection(u)
  PROVE  HeadFrozen(w)
  BY MarkNeedsSelectionTypes DEF HeadFrozen, Transitioning

(* And bind_document, which refuses the frozen workspace. *)
LEMMA BindFrozen ==
  ASSUME DocumentInv, NEW w \in Workspace, NEW b, TypedBinding(b), NEW c \in Conv,
         BindDocument(b, c)
  PROVE  HeadFrozen(w)
  <1>1. b.cwd \in Workspace /\ ~Transitioning(b.cwd)
    BY DEF TypedBinding, BindDocument, MayBind
  <1>2. \E h : heads' = [heads EXCEPT ![b.cwd] = h]
    BY DEF BindDocument
  <1> QED
    BY <1>1, <1>2, OtherHeadFrozen

(* Launches, finished or begun, never own the frozen workspace. *)
LEMMA LaunchFrozen ==
  ASSUME DocumentInv, NEW w \in Workspace, LaunchNext
  PROVE  HeadFrozen(w)
  <1>1. CASE UNCHANGED heads
    BY <1>1 DEF HeadFrozen
  <1>2. ASSUME NEW l \in Launch, NEW p \in Profile, NEW u \in Workspace,
               PrepareUntracked(l, p, u)
        PROVE  HeadFrozen(w)
    BY <1>2, OtherMarkFrozen DEF PrepareUntracked
  <1>3. ASSUME NEW u \in Workspace, BeginLaunchOverlapping(u)
        PROVE  HeadFrozen(w)
    BY <1>3, OtherMarkFrozen DEF BeginLaunchOverlapping
  <1>4. ASSUME NEW l \in Launch, pending[l] # Absent,
               MarkNeedsSelection(pending[l].cwd)
        PROVE  HeadFrozen(w)
    BY <1>4, OwnedWorkspaceNotTransitioning, OtherMarkFrozen
  <1>5. ASSUME NEW l \in Launch, FinishLaunchUnattributed(l) \/ FinishLaunchAmbiguous(l)
        PROVE  HeadFrozen(w)
    BY <1>1, <1>4, <1>5 DEF FinishLaunchUnattributed, FinishLaunchAmbiguous
  <1>6. ASSUME NEW l \in Launch, NEW b \in BindingInput, NEW c \in Conv,
               FinishLaunchBind(l, b, c)
        PROVE  HeadFrozen(w)
    <2>1. TypedBinding(b)
      BY LifecycleAssumption DEF BindingInput, TypedBinding
    <2>2. pending[l] # Absent
      BY <1>6 DEF FinishLaunchBind
    <2>3. BindDocument(b, c) \/ MarkNeedsSelection(pending[l].cwd)
      BY <1>6 DEF FinishLaunchBind
    <2> QED
      BY <1>4, <2>1, <2>2, <2>3, BindFrozen
  <1> QED
    BY <1>1, <1>2, <1>3, <1>5, <1>6
    DEF LaunchNext, BeginLaunch, MarkProviderStarted, MarkCaptureFailed,
        FinishLaunchNoThread

(* Neither does any exact binding. *)
LEMMA BindingsFrozen ==
  ASSUME DocumentInv, NEW w \in Workspace, BindNext
  PROVE  HeadFrozen(w)
  <1>1. ASSUME NEW k \in Client, NEW b \in BindingInput, NEW c \in Conv, Adopt(k, b, c)
        PROVE  HeadFrozen(w)
    <2>1. TypedBinding(b)
      BY LifecycleAssumption DEF BindingInput, TypedBinding
    <2> QED
      BY <1>1, <2>1, BindFrozen DEF Adopt
  <1>2. ASSUME NEW k \in Client, NEW y \in BindLifecycle, NEW c \in Conv,
               RefreshAdopted(k, y, c)
        PROVE  HeadFrozen(w)
    <2> DEFINE b == [profile |-> held[k].profile, thread |-> held[k].thread,
                     cwd |-> held[k].cwd, version |-> held[k].version, lifecycle |-> y]
    <2>1. held[k] \in HeadBinding
      BY <1>2 DEF RefreshAdopted, TypeOK, Option
    <2>2. TypedBinding(b)
      BY <2>1, LifecycleAssumption DEF HeadBinding, TypedBinding
    <2>3. BindDocument(b, c)
      BY <1>2 DEF RefreshAdopted
    <2> QED
      BY <2>2, <2>3, BindFrozen
  <1>3. ASSUME NEW u \in Workspace, MarkWorkspaceAmbiguous(u)
        PROVE  HeadFrozen(w)
    BY <1>3, OtherMarkFrozen DEF MarkWorkspaceAmbiguous
  <1>4. ASSUME NEW k \in Client, NEW u \in Workspace, ReadHead(k, u)
        PROVE  HeadFrozen(w)
    BY <1>4 DEF ReadHead, document, HeadFrozen
  <1> QED
    BY <1>1, <1>2, <1>3, <1>4 DEF BindNext

(* Of the handoff's own steps only the commit moves a head. *)
LEMMA HandoffFrozen ==
  ASSUME DocumentInv, NEW w \in Workspace, HandoffNext
  PROVE  HeadFrozen(w)
  <1>1. CASE CommitHandoff
    <2>1. transition \in HandoffTransition
      BY <1>1 DEF CommitHandoff, InPhase, TypeOK, Option
    <2>2. /\ transition.phase = "fork_observed"
          /\ transition'.phase = "committed_unattached"
      BY <1>1, <2>1 DEF CommitHandoff, InPhase, HandoffTransition
    <2> QED
      BY <2>2 DEF HeadFrozen
  <1>2. CASE UNCHANGED heads
    BY <1>2 DEF HeadFrozen
  <1>3. HandoffNext => CommitHandoff \/ UNCHANGED heads
    BY DEF HandoffNext, PrepareHandoff, MarkSourceStopRequested, MarkSourceStopped,
           RecordForkIntent, RecordBoundedForkRetry, ObserveHandoffTarget, JournalOnly,
           FinishHandoffAttachment
  <1> QED
    BY <1>1, <1>2, <1>3

(* While a handoff is in flight no operation of any caller moves the head of  *)
(* its workspace, except commit_handoff together with its journal.            *)
THEOREM WorkspaceFrozen == Spec => TransitionFreezesWorkspace
  <1>1. DocumentInv /\ [Next]_vars =>
          [\A w \in Workspace :
             Transitioning(w) /\ heads'[w] # heads[w] =>
               /\ transition.phase = "fork_observed"
               /\ transition'.phase = "committed_unattached"]_vars
    BY LaunchFrozen, BindingsFrozen, HandoffFrozen DEF Next, HeadFrozen
  <1>2. Init => DocumentInv
    BY InitEstablishesInv
  <1>3. DocumentInv /\ [Next]_vars => DocumentInv'
    BY NextKeepsInv
  <1> QED
    BY <1>1, <1>2, <1>3, PTL DEF Spec, TransitionFreezesWorkspace

------------------------------------------------------------------------------
(* Immutable history *)

(* What LineageImmutable says of one generation, and of one conversation. *)
GenerationKept(old, new) ==
  /\ [new EXCEPT !.trust = old.trust, !.rollout = old.rollout] = old
  /\ old.trust # Absent => new.trust = old.trust
  /\ old.rollout # Absent => new.rollout = old.rollout

LineageKept(c) ==
  /\ conversations'[c] # Absent
  /\ Len(Generations(c)) <= Len(conversations'[c].generations)
  /\ \A i \in DOMAIN Generations(c) :
       GenerationKept(Generations(c)[i], conversations'[c].generations[i])

(* A generation that is not written is kept. *)
LEMMA SameGenerationKept ==
  ASSUME NEW old \in Generation
  PROVE  GenerationKept(old, old)
  BY DEF Generation, GenerationKept

(* A lineage that is not written is kept. *)
LEMMA SameLineageKept ==
  ASSUME DocumentInv, NEW c \in Existing, conversations'[c] # Absent,
         conversations'[c].generations = Generations(c)
  PROVE  LineageKept(c)
  BY ExistingTyped, SameGenerationKept DEF LineageKept

(* bind_document writes a lifecycle, or a conversation that was not there. *)
LEMMA BindKeepsLineages ==
  ASSUME DocumentInv, NEW b, TypedBinding(b), NEW c \in Conv, BindDocument(b, c),
         NEW d \in Existing
  PROVE  LineageKept(d)
  <1>1. CASE ThreadIsBound(b.thread)
    BY <1>1, RebindShape, SameLineageKept DEF Existing, Generations
  <1>2. CASE ~ThreadIsBound(b.thread)
    BY <1>2, NewConversationShape, SameLineageKept DEF Existing, Generations
  <1> QED
    BY <1>1, <1>2

(* prepare_handoff writes metadata that was absent, or the same again. *)
LEMMA PrepareKeepsLineages ==
  ASSUME DocumentInv, NEW k \in Client, NEW target \in Profile,
         NEW trust \in TrustDomain, NEW rollout \in Rollout,
         PrepareHandoff(k, target, trust, rollout), NEW d \in Existing
  PROVE  LineageKept(d)
  <1> DEFINE e == held[k]
             n == e.gen + 1
             gen == Generations(e.conv)[n]
             written == [gen EXCEPT !.trust = trust, !.rollout = rollout]
  <1>1. /\ e.conv \in Existing /\ n \in DOMAIN Generations(e.conv)
        /\ gen \in Generation
    BY PrepareHandoffShape
  <1>2. /\ conversations' = [conversations EXCEPT ![e.conv].generations[n] =
              [@ EXCEPT !.trust = trust, !.rollout = rollout]]
        /\ SourceMetadataAgrees(gen, trust, rollout)
    BY DEF PrepareHandoff
  <1>3. CASE d # e.conv
    <2>1. conversations'[d] = conversations[d]
      BY <1>2, <1>3, ExistingTyped DEF TypeOK
    <2> QED
      BY <2>1, SameLineageKept DEF Existing, Generations
  <1>4. CASE d = e.conv
    <2>1. /\ conversations[d] \in Conversation /\ Generations(d) \in Seq(Generation)
          /\ d \in Conv
      BY ExistingTyped
    <2>2. conversations'[d] =
            [conversations[d] EXCEPT !.generations = [Generations(d) EXCEPT ![n] = written]]
      BY <1>2, <1>4, <2>1 DEF TypeOK, Generations, Conversation
    <2>3. conversations'[d].generations = [Generations(d) EXCEPT ![n] = written]
      BY <2>1, <2>2 DEF Conversation
    <2>4. conversations'[d] \in Conversation
      <3>1. written \in Generation
        BY <1>1 DEF Generation, Option
      <3> QED
        BY <2>1, <2>2, <3>1 DEF Conversation
    <2>5. conversations'[d] # Absent
      BY <2>4, AbsentAssumption
    <2>6. GenerationKept(gen, written)
      BY <1>1, <1>2 DEF Generation, SourceMetadataAgrees, GenerationKept
    <2>7. Len(conversations'[d].generations) = Len(Generations(d))
      BY <2>1, <2>3
    <2> HIDE DEF written
    <2>8. ASSUME NEW i \in DOMAIN Generations(d)
          PROVE  GenerationKept(Generations(d)[i], conversations'[d].generations[i])
      <3>1. CASE i = n
        <4>1. conversations'[d].generations[i] = written /\ Generations(d)[i] = gen
          BY <1>4, <2>1, <2>3, <3>1
        <4> QED
          BY <2>6, <4>1
      <3>2. CASE i # n
        <4>1. conversations'[d].generations[i] = Generations(d)[i]
          BY <2>1, <2>3, <3>2
        <4>2. Generations(d)[i] \in Generation
          BY ExistingTyped
        <4> QED
          BY <4>1, <4>2, SameGenerationKept
      <3> QED
        BY <3>1, <3>2
    <2> QED
      BY <2>1, <2>5, <2>7, <2>8 DEF LineageKept
  <1> QED
    BY <1>3, <1>4

(* commit_handoff appends the target at the tail. *)
LEMMA CommitKeepsLineages ==
  ASSUME DocumentInv, CommitHandoff, NEW d \in Existing
  PROVE  LineageKept(d)
  <1> DEFINE c == transition.conv
             t == TargetOf(transition)
             g == TargetGeneration(transition)
  <1>1. c \in Existing
    BY DEF CommitHandoff
  <1>2. conversations' = [conversations EXCEPT ![c] =
          [generations |-> Append(Generations(c), t), active |-> g,
           lifecycle |-> "interrupted"]]
    BY DEF CommitHandoff, Generations
  <1>3. /\ d \in Conv /\ Generations(d) \in Seq(Generation)
        /\ \A i \in DOMAIN Generations(d) :
             i \in 1..Len(Generations(d)) /\ Generations(d)[i] \in Generation
    BY ExistingTyped
  <1>4. CASE d # c
    <2>1. conversations'[d] = conversations[d]
      BY <1>2, <1>3, <1>4 DEF TypeOK
    <2> QED
      BY <2>1, SameLineageKept DEF Existing, Generations
  <1>5. CASE d = c
    <2>1. t \in Generation
      <3>1. /\ transition \in HandoffTransition
            /\ transition.observed \in HandoffTarget
        BY DEF CommitHandoff, InPhase, TypeOK, Option, HandoffTransition
      <3> QED
        BY <3>1 DEF TargetOf, HandoffTransition, HandoffTarget, Generation, Option
    <2> HIDE DEF t
    <2>2. conversations'[d].generations = Append(Generations(d), t)
      BY <1>2, <1>3, <1>5 DEF TypeOK
    <2>3. conversations'[d] # Absent
      <3>1. Append(Generations(d), t) \in Seq(Generation)
        BY <1>3, <2>1
      <3>2. g \in Nat
        BY DEF CommitHandoff, InPhase, TypeOK, Option, HandoffTransition, TargetGeneration
      <3>3. conversations'[d] \in Conversation
        BY <1>2, <1>3, <1>5, <3>1, <3>2 DEF TypeOK, Conversation, Lifecycle
      <3> QED
        BY <3>3, AbsentAssumption
    <2>4. /\ Len(Append(Generations(d), t)) = Len(Generations(d)) + 1
          /\ \A i \in 1..Len(Generations(d)) :
               Append(Generations(d), t)[i] = Generations(d)[i]
      BY <1>3, <2>1, AppendProperties
    <2>5. Len(Generations(d)) \in Nat
      BY <1>3
    <2> QED
      BY <1>3, <2>2, <2>3, <2>4, <2>5, SameGenerationKept DEF LineageKept
  <1> QED
    BY <1>4, <1>5

(* Every step keeps every lineage. *)
LEMMA StepKeepsLineages ==
  ASSUME DocumentInv, Next, NEW d \in Existing
  PROVE  LineageKept(d)
  <1>1. CASE UNCHANGED conversations
    BY <1>1, SameLineageKept DEF Existing, Generations
  <1>2. ASSUME NEW b \in BindingInput, NEW c \in Conv, BindDocument(b, c)
        PROVE  LineageKept(d)
    <2>1. TypedBinding(b)
      BY LifecycleAssumption DEF BindingInput, TypedBinding
    <2> QED
      BY <1>2, <2>1, BindKeepsLineages
  <1>3. ASSUME NEW k \in Client, NEW y \in BindLifecycle, NEW c \in Conv,
               RefreshAdopted(k, y, c)
        PROVE  LineageKept(d)
    <2> DEFINE b == [profile |-> held[k].profile, thread |-> held[k].thread,
                     cwd |-> held[k].cwd, version |-> held[k].version, lifecycle |-> y]
    <2>1. held[k] \in HeadBinding
      BY <1>3 DEF RefreshAdopted, TypeOK, Option
    <2>2. TypedBinding(b)
      BY <2>1, LifecycleAssumption DEF HeadBinding, TypedBinding
    <2>3. BindDocument(b, c)
      BY <1>3 DEF RefreshAdopted
    <2> QED
      BY <2>2, <2>3, BindKeepsLineages
  <1>4. LaunchNext =>
          \/ UNCHANGED conversations
          \/ \E b \in BindingInput, c \in Conv : BindDocument(b, c)
    BY DEF LaunchNext, BeginLaunch, PrepareUntracked, BeginLaunchOverlapping,
           MarkProviderStarted, MarkCaptureFailed, FinishLaunchUnattributed,
           FinishLaunchBind, FinishLaunchNoThread, FinishLaunchAmbiguous
  <1>5. BindNext =>
          \/ UNCHANGED conversations
          \/ \E b \in BindingInput, c \in Conv : BindDocument(b, c)
          \/ \E k \in Client, y \in BindLifecycle, c \in Conv : RefreshAdopted(k, y, c)
    BY DEF BindNext, Adopt, ReadHead, document, MarkWorkspaceAmbiguous
  <1>6. HandoffNext =>
          \/ UNCHANGED conversations
          \/ CommitHandoff
          \/ \E k \in Client, p \in Profile, t \in TrustDomain, r \in Rollout :
               PrepareHandoff(k, p, t, r)
    BY DEF HandoffNext, MarkSourceStopRequested, MarkSourceStopped, RecordForkIntent,
           RecordBoundedForkRetry, ObserveHandoffTarget, JournalOnly,
           FinishHandoffAttachment
  <1> QED
    BY <1>1, <1>2, <1>3, <1>4, <1>5, <1>6, CommitKeepsLineages, PrepareKeepsLineages
    DEF Next

(* No operation rewrites the history of a conversation: generations keep      *)
(* their profile, thread, workspace and version for ever, handoff metadata is *)
(* written once, and lineages grow only at their tail.                        *)
THEOREM HistoryImmutable == Spec => LineageImmutable
  <1>1. DocumentInv /\ [Next]_vars =>
          [\A c \in Existing :
             /\ conversations'[c] # Absent
             /\ Len(Generations(c)) <= Len(conversations'[c].generations)
             /\ \A i \in DOMAIN Generations(c) :
                  LET old == Generations(c)[i]
                      new == conversations'[c].generations[i]
                  IN /\ [new EXCEPT !.trust = old.trust, !.rollout = old.rollout] = old
                     /\ old.trust # Absent => new.trust = old.trust
                     /\ old.rollout # Absent => new.rollout = old.rollout]_vars
    BY StepKeepsLineages DEF LineageKept, GenerationKept
  <1>2. Init => DocumentInv
    BY InitEstablishesInv
  <1>3. DocumentInv /\ [Next]_vars => DocumentInv'
    BY NextKeepsInv
  <1> QED
    BY <1>1, <1>2, <1>3, PTL DEF Spec, LineageImmutable

------------------------------------------------------------------------------
(* Sticky ambiguity *)

(* A step that makes an ambiguous workspace ready. *)
AmbiguityLifted(w) == NeedsSelection(w) /\ ~NeedsSelection(w)'

(* mark_head_needs_selection lifts no ambiguity. *)
LEMMA MarkLiftsNothing ==
  ASSUME DocumentInv, NEW w \in Workspace, NEW u \in Workspace, MarkNeedsSelection(u)
  PROVE  ~AmbiguityLifted(w)
  <1>1. CASE w # u
    BY <1>1 DEF AmbiguityLifted, NeedsSelection, MarkNeedsSelection, DocumentInv, TypeOK
  <1>2. CASE w = u
    BY <1>2, MarkNeedsSelectionTypes DEF AmbiguityLifted, NeedsSelection
  <1> QED
    BY <1>1, <1>2

(* bind_document makes its own workspace ready and touches no other. *)
LEMMA BindLiftsOwn ==
  ASSUME DocumentInv, NEW w \in Workspace, NEW b, TypedBinding(b), NEW c \in Conv,
         BindDocument(b, c), AmbiguityLifted(w)
  PROVE  w = b.cwd
  BY DEF AmbiguityLifted, NeedsSelection, BindDocument, TypedBinding, DocumentInv, TypeOK

(* A launch that finishes binds only in a workspace that is not ambiguous. *)
LEMMA LaunchLiftsNothing ==
  ASSUME DocumentInv, NEW w \in Workspace, LaunchNext
  PROVE  ~AmbiguityLifted(w)
  <1>1. CASE UNCHANGED heads
    BY <1>1 DEF AmbiguityLifted, NeedsSelection
  <1>2. ASSUME NEW u \in Workspace, MarkNeedsSelection(u)
        PROVE  ~AmbiguityLifted(w)
    BY <1>2, MarkLiftsNothing
  <1>3. ASSUME NEW l \in Launch, pending[l] # Absent
        PROVE  pending[l].cwd \in Workspace
    BY <1>3 DEF DocumentInv, TypeOK, Option, PendingLaunch
  <1>4. ASSUME NEW l \in Launch, FinishLaunchUnattributed(l) \/ FinishLaunchAmbiguous(l)
        PROVE  ~AmbiguityLifted(w)
    BY <1>1, <1>2, <1>3, <1>4 DEF FinishLaunchUnattributed, FinishLaunchAmbiguous
  <1>5. ASSUME NEW l \in Launch, NEW b \in BindingInput, NEW c \in Conv,
               FinishLaunchBind(l, b, c)
        PROVE  ~AmbiguityLifted(w)
    <2>1. TypedBinding(b)
      BY LifecycleAssumption DEF BindingInput, TypedBinding
    <2>2. CASE BindDocument(b, c) /\ b.cwd = pending[l].cwd
      <3>1. ~NeedsSelection(b.cwd)
        BY <1>5, <2>2 DEF FinishLaunchBind, Attributable
      <3> QED
        BY <2>1, <2>2, <3>1, BindLiftsOwn DEF AmbiguityLifted
    <2>3. CASE MarkNeedsSelection(pending[l].cwd)
      BY <1>2, <1>3, <1>5, <2>3 DEF FinishLaunchBind
    <2> QED
      BY <1>5, <2>2, <2>3 DEF FinishLaunchBind
  <1> QED
    BY <1>1, <1>2, <1>4, <1>5
    DEF LaunchNext, BeginLaunch, PrepareUntracked, BeginLaunchOverlapping,
        MarkProviderStarted, MarkCaptureFailed, FinishLaunchNoThread

(* Of the exact bindings only an adoption of that very workspace lifts its    *)
(* ambiguity: a refresh first finds its head ready.                           *)
LEMMA OnlyAdoptionLifts ==
  ASSUME DocumentInv, NEW w \in Workspace, BindNext, AmbiguityLifted(w)
  PROVE  /\ PendingIn(w) = {}
         /\ \E k \in Client, b \in BindingInput, c \in Conv : b.cwd = w /\ Adopt(k, b, c)
  <1>1. ASSUME NEW k \in Client, NEW b \in BindingInput, NEW c \in Conv, Adopt(k, b, c)
        PROVE  PendingIn(w) = {} /\ b.cwd = w
    <2>1. TypedBinding(b)
      BY LifecycleAssumption DEF BindingInput, TypedBinding
    <2>2. w = b.cwd
      BY <1>1, <2>1, BindLiftsOwn DEF Adopt
    <2> QED
      BY <1>1, <2>2 DEF Adopt, Unowned
  <1>2. ASSUME NEW k \in Client, NEW y \in BindLifecycle, NEW c \in Conv,
               RefreshAdopted(k, y, c)
        PROVE  FALSE
    <2> DEFINE b == [profile |-> held[k].profile, thread |-> held[k].thread,
                     cwd |-> held[k].cwd, version |-> held[k].version, lifecycle |-> y]
    <2>1. held[k] \in HeadBinding
      BY <1>2 DEF RefreshAdopted, DocumentInv, TypeOK, Option
    <2>2. TypedBinding(b)
      BY <2>1, LifecycleAssumption DEF HeadBinding, TypedBinding
    <2>3. BindDocument(b, c)
      BY <1>2 DEF RefreshAdopted
    <2>4. w = b.cwd
      BY <2>2, <2>3, BindLiftsOwn
    <2>5. ~NeedsSelection(held[k].cwd)
      BY <1>2 DEF RefreshAdopted, StillHead, Resolves, NeedsSelection
    <2> QED
      BY <2>4, <2>5 DEF AmbiguityLifted
  <1>3. ASSUME NEW u \in Workspace, MarkWorkspaceAmbiguous(u)
        PROVE  FALSE
    BY <1>3, MarkLiftsNothing DEF MarkWorkspaceAmbiguous
  <1>4. ASSUME NEW k \in Client, NEW u \in Workspace, ReadHead(k, u)
        PROVE  FALSE
    BY <1>4 DEF ReadHead, document, AmbiguityLifted, NeedsSelection
  <1> QED
    BY <1>1, <1>2, <1>3, <1>4 DEF BindNext

(* The handoff commits only over a ready head. *)
LEMMA HandoffLiftsNothing ==
  ASSUME DocumentInv, NEW w \in Workspace, HandoffNext
  PROVE  ~AmbiguityLifted(w)
  <1>1. CASE CommitHandoff
    <2>1. heads[transition.cwd].state = "ready"
      BY <1>1 DEF CommitHandoff, ReadyHead
    <2>2. \A u \in Workspace \ {transition.cwd} : heads'[u] = heads[u]
      BY <1>1 DEF CommitHandoff, DocumentInv, TypeOK
    <2> QED
      BY <2>1, <2>2 DEF AmbiguityLifted, NeedsSelection
  <1>2. CASE UNCHANGED heads
    BY <1>2 DEF AmbiguityLifted, NeedsSelection
  <1>3. HandoffNext => CommitHandoff \/ UNCHANGED heads
    BY DEF HandoffNext, PrepareHandoff, MarkSourceStopRequested, MarkSourceStopped,
           RecordForkIntent, RecordBoundedForkRetry, ObserveHandoffTarget, JournalOnly,
           FinishHandoffAttachment
  <1> QED
    BY <1>1, <1>2, <1>3

(* Once a workspace needs selection, no late launch, no refresh by an older   *)
(* exact process and no handoff makes it ready again: only adopt does, with   *)
(* no launch pending there.                                                   *)
THEOREM AmbiguitySticky == Spec => AmbiguityIsSticky
  <1>1. DocumentInv /\ [Next]_vars =>
          [\A w \in Workspace :
             NeedsSelection(w) /\ ~NeedsSelection(w)' =>
               /\ PendingIn(w) = {}
               /\ \E k \in Client, b \in BindingInput, c \in Conv :
                    b.cwd = w /\ Adopt(k, b, c)]_vars
    BY LaunchLiftsNothing, OnlyAdoptionLifts, HandoffLiftsNothing
    DEF Next, AmbiguityLifted
  <1>2. Init => DocumentInv
    BY InitEstablishesInv
  <1>3. DocumentInv /\ [Next]_vars => DocumentInv'
    BY NextKeepsInv
  <1> QED
    BY <1>1, <1>2, <1>3, PTL DEF Spec, AmbiguityIsSticky

=============================================================================
