--------------------------- MODULE Handoff_proofs ---------------------------
(***************************************************************************)
(* Proofs about Handoff, for any numbers of drivers, profiles, workspaces, *)
(* threads and conversations: the registry stays valid under the failover  *)
(* processes, an attached generation is the head, and a transition forks   *)
(* its conversation at most once in its workspace.                         *)
(***************************************************************************)
EXTENDS Handoff, Conversations_proofs, FiniteSetTheorems

HIDE DEF DocumentInv, ValidDocument, Unowned

------------------------------------------------------------------------------
(* The inductive invariant *)

(* Where a driver holds the coordinator lock, and where it holds the lease   *)
(* of its target.                                                            *)
Locked == {"step", "baseline", "fork", "asked", "attached"}
Targeting == {"reserved", "driving", "step", "baseline", "fork", "asked"}

Existence(S) == \A t \in S : ThreadExists(t)

KnownGenerations ==
  \A c \in Existing : \A i \in DOMAIN Generations(c) : ThreadExists(Generations(c)[i].thread)

Known == {t \in Thread : ThreadExists(t)}

ProviderKnown(p) ==
  /\ running[p] # Absent => ThreadExists(running[p].thread)
  /\ server[p] # Absent =>
       /\ ThreadExists(server[p].source)
       /\ server[p].made # Absent =>
            /\ ThreadExists(server[p].made)
            /\ threads[server[p].made].for = server[p].for

JournalKnown ==
  transition # Absent =>
    /\ transition.observed # Absent => ThreadExists(transition.observed.thread)
    /\ Existence(transition.baseline)

(* Every thread that the registry, the journal, a generation, an app-server  *)
(* or a driver names is one the provider has, and there are finitely many.   *)
ThreadsKnown ==
  /\ IsFiniteSet(Known)
  /\ KnownGenerations
  /\ JournalKnown
  /\ \A p \in Profile : ProviderKnown(p)

(* A profile's lease has one holder: a driver, a generation, or an           *)
(* app-server; a driver shares it only with the app-server it waits for.     *)
LeasesExclusive ==
  \A k \in Client : \A p \in driver[k].leases :
    /\ \A j \in Client : p \in driver[j].leases => j = k
    /\ running[p] = Absent
    /\ server[p] # Absent => At(k, "asked") /\ driver[k].target = p

Id(x) == <<x.conv, x.source>>

(* The forks of a transition in its own workspace. *)
LocalForks(x) == {t \in ForksOf(x) : threads[t].cwd = x.cwd}

(* What a driver has in hand at each place. *)
DriverTyped(d) ==
  /\ d.pc # "idle" => d.profile \in Profile /\ d.thread \in Thread /\ ThreadExists(d.thread)
  /\ d.pc \in {"selecting", "recovery_source", "attached"} \cup Targeting =>
       d.print \in Fingerprint
  /\ d.pc \in {"recovering", "recovery_source", "attached"} \cup Targeting =>
       d.target \in Profile
  /\ d.pc \in Targeting => d.target \in d.leases
  /\ d.pc \in Locked \ {"attached"} => d.steps < MAX_HANDOFF_STEPS

(* What a driver may rely on at each place. *)
DriverInStep(k) ==
  LET d == driver[k] IN
  /\ (coordinator = k) <=> (d.pc \in Locked)
  /\ d.pc \notin {"running", "attached"} => ChildOf(k) = {}
  /\ d.pc = "baseline" =>
       /\ InPhase("source_stopped")
       /\ \A i \in DOMAIN d.listing : ThreadExists(d.listing[i])
  /\ d.pc = "fork" =>
       /\ InPhase("fork_requested")
       /\ requests < transition.attempts
       /\ ForThisTarget(k) /\ WorkingDirectory(k) = transition.cwd =>
            LocalForks(transition) = {}
  /\ d.pc = "asked" =>
       /\ InPhase("fork_requested")
       /\ ForThisTarget(k)
       /\ server[d.target] # Absent
       /\ server[d.target].for = Id(transition)
  /\ d.pc = "attached" =>
       /\ InPhase("committed_unattached")
       /\ ForThisTarget(k)
       /\ \A p \in ChildOf(k) : running[p].thread = transition.observed.thread
       /\ \A j \in Client \ {k} : driver[j].direct = Absent
  /\ d.direct # Absent =>
       /\ d.pc \in {"driving", "step", "attached"}
       /\ transition # Absent
       /\ ForThisTarget(k)
       /\ d.direct \in ForksOf(transition)

(* A fork belongs to the transition in flight or to a generation that the    *)
(* conversation has left behind.                                             *)
ForAccounted(f) ==
  /\ f[1] \in Existing
  /\ f[2] < conversations[f[1]].active \/ (transition # Absent /\ f = Id(transition))

ForksFiled ==
  /\ \A t \in Thread : ThreadExists(t) /\ threads[t].for # Absent => ForAccounted(threads[t].for)
  /\ \A p \in Profile : server[p] # Absent => ForAccounted(server[p].for)

(* The app-server that may still make a fork in the workspace of x. *)
MayStillFork(x) ==
  \E p \in Profile :
    /\ server[p] # Absent /\ server[p].for = Id(x) /\ server[p].made = Absent
    /\ threads[server[p].source].cwd = x.cwd

(* The forks of the transition in flight. *)
ForksCounted ==
  LET x == transition IN
  transition # Absent =>
    /\ requests <= x.attempts
    /\ ~ForkStarted(x) =>
         /\ ForksOf(x) = {}
         /\ \A p \in Profile : server[p] # Absent => server[p].for # Id(x)
    /\ \A t \in ForksOf(x) : threads[t].profile = x.target_profile /\ t \notin x.baseline
    /\ \A p \in Profile : server[p] # Absent /\ server[p].for = Id(x) => p = x.target_profile
    /\ \A t, u \in LocalForks(x) : t = u
    /\ MayStillFork(x) => LocalForks(x) = {}

HandoffInv ==
  /\ HandoffTypeOK
  /\ ValidDocument
  /\ ThreadsKnown
  /\ LeasesExclusive
  /\ \A k \in Client : DriverTyped(driver[k])
  /\ \A k \in Client : DriverInStep(k)
  /\ ForksFiled
  /\ ForksCounted

------------------------------------------------------------------------------
(* What the operations of the registry do to lineages and journal *)

(* Conversations stay, and their active generations never move back. *)
LineagesAdvance ==
  \A c \in Existing :
    /\ c \in Existing'
    /\ conversations[c].active \in Nat /\ conversations'[c].active \in Nat
    /\ conversations[c].active <= conversations'[c].active

LEMMA SameLineages ==
  ASSUME TypeOK, UNCHANGED <<conversations, threads>>
  PROVE  /\ LineagesAdvance
         /\ KnownGenerations => KnownGenerations'
<1>1. \A c \in Existing : conversations[c].active \in Nat
  BY ExistingTyped DEF Conversation
<1> QED BY <1>1 DEF LineagesAdvance, KnownGenerations, Existing, Generations, ThreadExists

(* adopt of an existing thread adds at most a conversation of that thread. *)
LEMMA AdoptMoves ==
  ASSUME DocumentInv, KnownGenerations, NEW k \in Client, NEW b \in BindingInput,
         NEW c \in Conv, Adopt(k, b, c), ThreadExists(b.thread), threads' = threads
  PROVE  LineagesAdvance /\ KnownGenerations' /\ transition' = transition
<1>1. TypedBinding(b)
  BY LifecycleAssumption DEF BindingInput, TypedBinding
<1>2. BindDocument(b, c) /\ transition' = transition
  BY DEF Adopt
<1>3. \A d \in Existing : conversations[d].active \in Nat
  BY ExistingTyped DEF Conversation, DocumentInv
<1>4. CASE ThreadIsBound(b.thread)
  <2>1. /\ Existing' = Existing
        /\ \A d \in Existing : /\ Generations(d)' = Generations(d)
                               /\ conversations'[d].active = conversations[d].active
    BY <1>1, <1>2, <1>4, RebindShape
  <2> QED BY <1>2, <1>3, <2>1 DEF LineagesAdvance, KnownGenerations, ThreadExists
<1>5. CASE ~ThreadIsBound(b.thread)
  <2>1. /\ c \notin Existing
        /\ Existing' = Existing \cup {c}
        /\ \A d \in Existing : conversations'[d] = conversations[d]
        /\ conversations'[c].generations = <<FirstGeneration(b)>>
    BY <1>1, <1>2, <1>5, NewConversationShape
  <2>2. \A i \in DOMAIN conversations'[c].generations :
          conversations'[c].generations[i].thread = b.thread
    BY <2>1 DEF FirstGeneration
  <2> QED BY <1>2, <1>3, <2>1, <2>2
          DEF LineagesAdvance, KnownGenerations, ThreadExists, Generations
<1> QED BY <1>4, <1>5

(* prepare_handoff names the active generation as its source. *)
LEMMA PrepareMoves ==
  ASSUME DocumentInv, KnownGenerations, NEW k \in Client, NEW target \in Profile,
         NEW trust \in TrustDomain, NEW rollout \in Rollout,
         PrepareHandoff(k, target, trust, rollout), threads' = threads
  PROVE  /\ LineagesAdvance /\ KnownGenerations'
         /\ transition = Absent /\ transition' # Absent
         /\ transition'.conv \in Existing /\ transition'.conv \in Conv
         /\ transition'.source \in Nat
         /\ transition'.source = conversations[transition'.conv].active
         /\ transition'.target_profile = target
         /\ transition'.phase = "prepared" /\ transition'.attempts = 0
         /\ transition'.observed = Absent /\ transition'.baseline = {}
<1> DEFINE e == held[k]
           n == e.gen + 1
           written == [Generations(e.conv)[n] EXCEPT !.trust = trust, !.rollout = rollout]
<1>1. /\ e \in HeadBinding /\ e.conv \in Existing
      /\ e.gen \in Nat /\ e.gen = conversations[e.conv].active
      /\ n \in DOMAIN Generations(e.conv)
      /\ Generations(e.conv)[n] \in Generation
  BY PrepareHandoffShape
<1>2. /\ conversations' = [conversations EXCEPT ![e.conv].generations[n] =
            [@ EXCEPT !.trust = trust, !.rollout = rollout]]
      /\ transition = Absent
      /\ transition' =
           [conv |-> e.conv, source |-> e.gen, source_profile |-> e.profile,
            target_profile |-> target, cwd |-> e.cwd, trust |-> trust,
            rollout |-> rollout, phase |-> "prepared", baseline |-> {},
            attempts |-> 0, observed |-> Absent]
  BY DEF PrepareHandoff
<1>3. transition' # Absent
  <2>1. DocumentInv'
    BY PrepareHandoffInv
  <2>2. transition' \in HandoffTransition
    BY <1>1, <1>2 DEF HandoffTransition, HeadBinding, HandoffPhase, Option
  <2> QED BY <2>2, AbsentAssumption
<1>4. e.conv \in Conv /\ conversations[e.conv] \in Conversation
      /\ Generations(e.conv) \in Seq(Generation)
  BY <1>1, ExistingTyped DEF DocumentInv
<1>5. /\ \A d \in Conv : d # e.conv => conversations'[d] = conversations[d]
      /\ conversations'[e.conv].active = conversations[e.conv].active
      /\ DOMAIN conversations'[e.conv].generations = DOMAIN Generations(e.conv)
      /\ \A i \in DOMAIN Generations(e.conv) :
           conversations'[e.conv].generations[i].thread = Generations(e.conv)[i].thread
      /\ conversations'[e.conv] # Absent
  <2>1. conversations'[e.conv] =
          [conversations[e.conv] EXCEPT !.generations =
             [Generations(e.conv) EXCEPT ![n] = written]]
    BY <1>2, <1>4 DEF DocumentInv, TypeOK, Generations, Conversation
  <2>2. conversations'[e.conv].generations = [Generations(e.conv) EXCEPT ![n] = written]
    BY <1>4, <2>1 DEF Conversation
  <2>3. \A d \in Conv : d # e.conv => conversations'[d] = conversations[d]
    BY <1>2, <1>4 DEF DocumentInv, TypeOK
  <2>4. conversations'[e.conv].active = conversations[e.conv].active
    BY <1>4, <2>1 DEF Conversation
  <2>5. DOMAIN conversations'[e.conv].generations = DOMAIN Generations(e.conv)
    BY <2>2
  <2>6. written.thread = Generations(e.conv)[n].thread
    BY <1>1 DEF Generation
  <2>7. \A i \in DOMAIN Generations(e.conv) :
          conversations'[e.conv].generations[i].thread = Generations(e.conv)[i].thread
    BY <1>1, <1>4, <2>2, <2>6
  <2>8. DocumentInv' /\ transition'.conv \in Existing'
    BY <1>3, PrepareHandoffInv DEF DocumentInv, ValidDocument, TransitionValid
  <2>9. conversations'[e.conv] # Absent
    BY <1>2, <2>8 DEF Existing
  <2> QED BY <2>3, <2>4, <2>5, <2>7, <2>9
<1>6. \A d \in Existing : conversations[d].active \in Nat
  BY ExistingTyped DEF Conversation, DocumentInv
<1>7. LineagesAdvance
  BY <1>5, <1>6 DEF LineagesAdvance, Existing
<1>8. KnownGenerations'
  BY <1>1, <1>5 DEF KnownGenerations, ThreadExists, Generations, Existing
<1> QED BY <1>1, <1>2, <1>3, <1>4, <1>7, <1>8

(* What a journal step keeps: which handoff it is. *)
SameHandoff ==
  /\ transition # Absent /\ transition' # Absent
  /\ Id(transition)' = Id(transition)
  /\ transition'.target_profile = transition.target_profile
  /\ transition'.cwd = transition.cwd

(* The phases before the commit write only the journal. *)
LEMMA JournalMoves ==
  ASSUME DocumentInv,
         \/ MarkSourceStopRequested \/ MarkSourceStopped \/ RecordBoundedForkRetry
         \/ \E ids \in Seq(Thread) : RecordForkIntent(ids)
         \/ \E t \in HandoffTarget : ObserveHandoffTarget(t)
  PROVE  /\ SameHandoff
         /\ conversations' = conversations
         /\ DocumentInv'
<1>1. transition \in HandoffTransition /\ transition # Absent
  BY DEF MarkSourceStopRequested, MarkSourceStopped, RecordBoundedForkRetry,
         RecordForkIntent, ObserveHandoffTarget, InPhase, DocumentInv, TypeOK, Option
<1>2. DocumentInv'
  BY AdvancePhaseInv, RecordBoundedForkRetryInv, RecordForkIntentInv,
     ObserveHandoffTargetInv
<1>3. conversations' = conversations
  BY DEF MarkSourceStopRequested, MarkSourceStopped, RecordBoundedForkRetry,
         RecordForkIntent, ObserveHandoffTarget, JournalOnly
<1>4. /\ transition' \in HandoffTransition
      /\ transition'.conv = transition.conv /\ transition'.source = transition.source
      /\ transition'.target_profile = transition.target_profile
      /\ transition'.cwd = transition.cwd
  <2>1. CASE MarkSourceStopRequested \/ MarkSourceStopped \/ RecordBoundedForkRetry
    BY <1>1, <2>1 DEF MarkSourceStopRequested, MarkSourceStopped,
       RecordBoundedForkRetry, HandoffTransition, HandoffPhase
  <2>2. ASSUME NEW ids \in Seq(Thread), RecordForkIntent(ids)
        PROVE  <1>4!:
    <3> DEFINE b == {ids[i] : i \in DOMAIN ids}
    <3>1. b \in SUBSET Thread
      OBVIOUS
    <3>2. transition' = [transition EXCEPT !.phase = "fork_requested",
                           !.baseline = b, !.attempts = 1]
      BY <2>2 DEF RecordForkIntent
    <3> HIDE DEF b
    <3>3. "fork_requested" \in HandoffPhase /\ 1 \in 0 .. 2
      BY DEF HandoffPhase
    <3> QED BY <1>1, <3>1, <3>2, <3>3 DEF HandoffTransition
  <2>3. ASSUME NEW t \in HandoffTarget, ObserveHandoffTarget(t)
        PROVE  <1>4!:
    BY <1>1, <2>3 DEF ObserveHandoffTarget, HandoffTransition, HandoffPhase, Option
  <2> QED BY <2>1, <2>2, <2>3
<1>5. transition' # Absent
  BY <1>4, AbsentAssumption
<1> QED BY <1>1, <1>2, <1>3, <1>4, <1>5 DEF SameHandoff, Id

(* commit_handoff binds the observed thread and moves its conversation on. *)
LEMMA CommitMoves ==
  ASSUME DocumentInv, KnownGenerations, CommitHandoff, threads' = threads,
         ThreadExists(transition.observed.thread)
  PROVE  /\ LineagesAdvance /\ KnownGenerations' /\ DocumentInv'
         /\ SameHandoff
         /\ transition' = [transition EXCEPT !.phase = "committed_unattached"]
<1> DEFINE x == transition
<1>1. /\ x \in HandoffTransition /\ x # Absent /\ x.conv \in Existing
      /\ conversations[x.conv].active = x.source
      /\ conversations' = [conversations EXCEPT ![x.conv] =
           [generations |-> Append(@.generations, TargetOf(x)),
            active |-> TargetGeneration(x), lifecycle |-> "interrupted"]]
      /\ transition' = [transition EXCEPT !.phase = "committed_unattached"]
  BY DEF CommitHandoff, InPhase, DocumentInv, TypeOK, Option
<1>2. DocumentInv'
  BY CommitHandoffInv
<1>3. transition' # Absent /\ transition' \in HandoffTransition
  BY <1>1, AbsentAssumption DEF HandoffTransition, HandoffPhase
<1>4. SameHandoff
  BY <1>1, <1>3 DEF SameHandoff, Id, HandoffTransition
<1>5. x.conv \in Conv /\ Generations(x.conv) \in Seq(Generation) /\ x.source \in Nat
  BY <1>1, ExistingTyped DEF DocumentInv, HandoffTransition
<1>6. /\ conversations'[x.conv].generations = Append(Generations(x.conv), TargetOf(x))
      /\ conversations'[x.conv].active = x.source + 1
      /\ \A d \in Conv : d # x.conv => conversations'[d] = conversations[d]
  BY <1>1, <1>5 DEF DocumentInv, TypeOK, Generations, TargetGeneration
<1>7. x.conv \in Existing'
  BY <1>2, <1>3, <1>4 DEF DocumentInv, ValidDocument, TransitionValid, SameHandoff, Id
<1>8. \A d \in Existing : conversations[d].active \in Nat
  BY ExistingTyped DEF Conversation, DocumentInv
<1>9. LineagesAdvance
  BY <1>1, <1>5, <1>6, <1>7, <1>8 DEF LineagesAdvance, Existing
<1>10. KnownGenerations'
  <2>1. TargetOf(x).thread = x.observed.thread
    BY DEF TargetOf
  <2>2. \A i \in DOMAIN Append(Generations(x.conv), TargetOf(x)) :
          \/ Append(Generations(x.conv), TargetOf(x))[i] = TargetOf(x)
          \/ /\ i \in DOMAIN Generations(x.conv)
             /\ Append(Generations(x.conv), TargetOf(x))[i] = Generations(x.conv)[i]
    BY <1>5
  <2> QED BY <1>1, <1>6, <2>1, <2>2 DEF KnownGenerations, ThreadExists, Generations, Existing
<1> QED BY <1>1, <1>2, <1>4, <1>9, <1>10

------------------------------------------------------------------------------
(* What a step leaves alone *)

(* Threads are never deleted, and what a fork was made for never changes. *)
ThreadsKept ==
  \A t \in Thread : ThreadExists(t) =>
    /\ ThreadExists(t)'
    /\ threads'[t].for = threads[t].for
    /\ threads'[t].cwd = threads[t].cwd
    /\ threads'[t].profile = threads[t].profile

LEMMA SameThreadsKept == UNCHANGED threads => ThreadsKept
BY DEF ThreadsKept, ThreadExists

(* Who holds the coordinator lock, and that nobody else is in a step. *)
LEMMA OneInStep ==
  ASSUME HandoffInv, NEW k \in Client, driver[k].pc \in Locked
  PROVE  /\ coordinator = k
         /\ \A j \in Client \ {k} : coordinator # j /\ driver[j].pc \notin Locked
BY DEF HandoffInv, DriverInStep

(* A driver that takes no part in a step is still in step with the rest. *)
LEMMA BystanderInStep ==
  ASSUME HandoffInv, NEW j \in Client,
         driver'[j] = driver[j],
         (coordinator' = j) <=> (coordinator = j),
         \A p \in ChildOf(j)' : p \in ChildOf(j) /\ running'[p].thread = running[p].thread,
         ThreadsKept,
         \/ transition' = transition
         \/ coordinator # j /\ (driver[j].direct # Absent => SameHandoff),
         coordinator = j =>
           /\ requests' = requests
           /\ driver[j].pc = "fork" /\ ForThisTarget(j) =>
                \A t \in LocalForks(transition)' : t \in LocalForks(transition)
           /\ driver[j].pc = "asked" =>
                /\ server'[driver[j].target] # Absent
                /\ server'[driver[j].target].for = server[driver[j].target].for
           /\ \A i \in Client \ {j} : driver'[i].direct \in {Absent, driver[i].direct}
  PROVE  DriverInStep(j)'
<1> DEFINE d == driver[j]
<1>1. DriverInStep(j) /\ DriverTyped(d) /\ d \in Driver
  BY DEF HandoffInv, HandoffTypeOK
<1>2. (coordinator' = j) <=> (d.pc \in Locked)
  BY <1>1 DEF DriverInStep
<1>3. d.pc \notin {"running", "attached"} => ChildOf(j)' = {}
  BY <1>1 DEF DriverInStep
<1>4. d.pc = "baseline" =>
        /\ InPhase("source_stopped")'
        /\ \A i \in DOMAIN d.listing : ThreadExists(d.listing[i])'
  <2> SUFFICES ASSUME d.pc = "baseline" PROVE <1>4!2
    OBVIOUS
  <2>1. coordinator = j /\ transition' = transition
    BY <1>1 DEF DriverInStep, Locked
  <2>2. InPhase("source_stopped") /\ \A i \in DOMAIN d.listing : ThreadExists(d.listing[i])
    BY <1>1 DEF DriverInStep
  <2>3. \A i \in DOMAIN d.listing : d.listing[i] \in Thread
    BY <1>1 DEF Driver
  <2> QED BY <2>1, <2>2, <2>3 DEF InPhase, ThreadsKept
<1>5. d.pc = "fork" =>
        /\ InPhase("fork_requested")'
        /\ requests' < transition'.attempts
        /\ ForThisTarget(j)' /\ WorkingDirectory(j)' = transition'.cwd =>
             LocalForks(transition)' = {}
  <2> SUFFICES ASSUME d.pc = "fork" PROVE <1>5!2
    OBVIOUS
  <2>1. coordinator = j /\ transition' = transition /\ requests' = requests
    BY <1>1 DEF DriverInStep, Locked
  <2>2. /\ InPhase("fork_requested") /\ requests < transition.attempts
        /\ ForThisTarget(j) /\ WorkingDirectory(j) = transition.cwd =>
             LocalForks(transition) = {}
    BY <1>1 DEF DriverInStep
  <2>3. WorkingDirectory(j)' = WorkingDirectory(j)
    BY <1>1 DEF DriverTyped, ThreadsKept, WorkingDirectory
  <2>4. ForThisTarget(j)' => ForThisTarget(j)
    BY <2>1 DEF ForThisTarget
  <2> QED BY <2>1, <2>2, <2>3, <2>4 DEF InPhase
<1>6. d.pc = "asked" =>
        /\ InPhase("fork_requested")'
        /\ ForThisTarget(j)'
        /\ server'[d.target] # Absent
        /\ server'[d.target].for = Id(transition)'
  BY <1>1 DEF DriverInStep, Locked, InPhase, ForThisTarget, Id
<1>7. d.pc = "attached" =>
        /\ InPhase("committed_unattached")'
        /\ ForThisTarget(j)'
        /\ \A p \in ChildOf(j)' : running'[p].thread = transition'.observed.thread
        /\ \A i \in Client \ {j} : driver'[i].direct = Absent
  BY <1>1 DEF DriverInStep, Locked, InPhase, ForThisTarget
<1>8. d.direct # Absent =>
        /\ d.pc \in {"driving", "step", "attached"}
        /\ transition' # Absent
        /\ ForThisTarget(j)'
        /\ d.direct \in ForksOf(transition)'
  <2> SUFFICES ASSUME d.direct # Absent PROVE <1>8!2
    OBVIOUS
  <2>1. /\ d.pc \in {"driving", "step", "attached"}
        /\ transition # Absent /\ ForThisTarget(j) /\ d.direct \in ForksOf(transition)
    BY <1>1 DEF DriverInStep
  <2>2. /\ transition' # Absent /\ transition'.target_profile = transition.target_profile
        /\ Id(transition)' = Id(transition)
    BY <2>1 DEF SameHandoff, Id
  <2>3. d.direct \in ForksOf(transition)'
    BY <2>1, <2>2 DEF ForksOf, ThreadsKept, Id
  <2> QED BY <2>1, <2>2, <2>3 DEF ForThisTarget
<1> QED BY <1>2, <1>3, <1>4, <1>5, <1>6, <1>7, <1>8, Zenon DEF DriverInStep

(* Leases change hands only when they are free. *)
LEMMA LeasesMove ==
  ASSUME HandoffInv, NEW k \in Client, NEW d \in Driver,
         driver' = [driver EXCEPT ![k] = d],
         \A p \in d.leases :
           /\ p \in driver[k].leases \/ Free(p)
           /\ running'[p] = Absent
           /\ server'[p] # Absent => d.pc = "asked" /\ d.target = p,
         \A j \in Client \ {k} : \A p \in driver[j].leases :
           running'[p] \in {running[p], Absent} /\ server'[p] \in {server[p], Absent}
  PROVE  LeasesExclusive'
<1>1. driver \in [Client -> Driver] /\ LeasesExclusive
  BY DEF HandoffInv, HandoffTypeOK
<1>2. driver'[k] = d /\ \A j \in Client \ {k} : driver'[j] = driver[j]
  BY <1>1
<1>3. ASSUME NEW j \in Client, NEW p \in driver'[j].leases
      PROVE  /\ \A i \in Client : p \in driver'[i].leases => i = j
             /\ running'[p] = Absent
             /\ server'[p] # Absent => driver'[j].pc = "asked" /\ driver'[j].target = p
  <2>1. CASE j = k
    BY <1>1, <1>2, <1>3, <2>1 DEF LeasesExclusive, Free
  <2>2. CASE j # k
    BY <1>1, <1>2, <1>3, <2>2 DEF LeasesExclusive, Free, At
  <2> QED BY <2>1, <2>2
<1> QED BY <1>3 DEF LeasesExclusive, At

(* A step of driver k that leaves the provider alone. *)
LEMMA DriverMoves ==
  ASSUME HandoffInv, NEW k \in Client, NEW d \in Driver,
         driver' = [driver EXCEPT ![k] = d], UNCHANGED <<provider, kills>>,
         requests' \in Nat, coordinator' \in Option(Client),
         \A j \in Client \ {k} : (coordinator' = j) <=> (coordinator = j),
         DocumentInv', KnownGenerations', JournalKnown',
         \/ transition' = transition /\ requests' = requests
         \/ \A j \in Client \ {k} :
              coordinator # j /\ (driver[j].direct # Absent => SameHandoff),
         driver[k].pc # "asked",
         \A p \in d.leases : p \in driver[k].leases \/ Free(p),
         d.direct \in {Absent, driver[k].direct},
         DriverTyped(d), DriverInStep(k)', ForksFiled', ForksCounted'
  PROVE  HandoffInv'
<1> USE DEF provider
<1>1. HandoffTypeOK /\ ThreadsKnown /\ LeasesExclusive /\ driver \in [Client -> Driver]
  BY DEF HandoffInv, HandoffTypeOK
<1>2. driver'[k] = d /\ \A j \in Client \ {k} : driver'[j] = driver[j]
  BY <1>1
<1>3. HandoffTypeOK'
  BY <1>1 DEF HandoffTypeOK, DocumentInv
<1>4. ValidDocument'
  BY DEF DocumentInv
<1>5. ThreadsKnown'
  <2>1. Known' = Known /\ \A p \in Profile : ProviderKnown(p) => ProviderKnown(p)'
    BY DEF Known, ProviderKnown, ThreadExists
  <2> QED BY <1>1, <2>1 DEF ThreadsKnown
<1>6. LeasesExclusive'
  <2>1. \A p \in d.leases : running[p] = Absent /\ server[p] = Absent
    BY <1>1 DEF LeasesExclusive, Free, At
  <2> QED BY <2>1, LeasesMove
<1>7. \A j \in Client : DriverTyped(driver[j])'
  BY <1>1, <1>2 DEF HandoffInv, DriverTyped, ThreadExists
<1>8. ASSUME NEW j \in Client \ {k} PROVE DriverInStep(j)'
  <2>1. \A p \in ChildOf(j)' : p \in ChildOf(j) /\ running'[p].thread = running[p].thread
    BY DEF ChildOf
  <2>2. ThreadsKept
    BY SameThreadsKept
  <2>3. transition' = transition => LocalForks(transition)' = LocalForks(transition)
    BY DEF LocalForks, ForksOf, ThreadExists
  <2>4. \A i \in Client : driver'[i].direct \in {Absent, driver[i].direct}
    BY <1>2
  <2>5. driver[j].pc = "asked" => server[driver[j].target] # Absent
    BY DEF HandoffInv, DriverInStep
  <2> QED BY <1>2, <2>1, <2>2, <2>3, <2>4, <2>5, BystanderInStep
<1> QED BY <1>3, <1>4, <1>5, <1>6, <1>7, <1>8 DEF HandoffInv

(* The types of what provider threads and app-servers record. *)
LEMMA ForsTyped ==
  ASSUME HandoffTypeOK
  PROVE  /\ \A t \in Thread : ThreadExists(t) =>
              threads[t] \in ProviderThread /\ threads[t].for \in Option(Conv \X Nat)
         /\ \A p \in Profile : server[p] # Absent =>
              server[p] \in AppServer /\ server[p].for \in Conv \X Nat
BY DEF HandoffTypeOK, ThreadExists, ProviderThread, AppServer, Option

(* Forks stay filed while lineages advance and the handoff stays the same. *)
LEMMA ForksStayFiled ==
  ASSUME HandoffTypeOK, ForksFiled, LineagesAdvance, UNCHANGED <<threads, server>>,
         \/ transition' = transition
         \/ SameHandoff
         \/ transition = Absent
  PROVE  ForksFiled'
<1>1. \A f \in Conv \X Nat : ForAccounted(f) => ForAccounted(f)'
  BY DEF ForAccounted, LineagesAdvance, SameHandoff, Id
<1>2. \A t \in Thread : ThreadExists(t) /\ threads[t].for # Absent => ForAccounted(threads[t].for)'
  BY <1>1, ForsTyped DEF ForksFiled, Option
<1>3. \A p \in Profile : server[p] # Absent => ForAccounted(server[p].for)'
  BY <1>1, ForsTyped DEF ForksFiled
<1> QED BY <1>2, <1>3 DEF ForksFiled, ThreadExists

(* A step of driver k that leaves provider and journal alone. *)
LEMMA DriverOnlyMoves ==
  ASSUME HandoffInv, NEW k \in Client, NEW d \in Driver,
         driver' = [driver EXCEPT ![k] = d], UNCHANGED <<provider, requests, kills>>,
         coordinator' \in Option(Client),
         \A j \in Client \ {k} : (coordinator' = j) <=> (coordinator = j),
         DocumentInv', LineagesAdvance, KnownGenerations', transition' = transition,
         driver[k].pc # "asked",
         \A p \in d.leases : p \in driver[k].leases \/ Free(p),
         d.direct \in {Absent, driver[k].direct},
         DriverTyped(d), DriverInStep(k)'
  PROVE  HandoffInv'
<1>1. ForksFiled'
  BY ForksStayFiled DEF HandoffInv, provider
<1>2. ForksCounted'
  BY DEF HandoffInv, ForksCounted, ForkStarted, ForksOf, LocalForks, MayStillFork, Id,
         ThreadExists, provider
<1>3. JournalKnown'
  BY DEF HandoffInv, ThreadsKnown, JournalKnown, ThreadExists, Existence, provider
<1>4. requests \in Nat
  BY DEF HandoffInv, HandoffTypeOK
<1> QED BY <1>1, <1>2, <1>3, <1>4, DriverMoves

(* A driver outside a step that remembers no fork is trivially in step. *)
LEMMA UnlockedInStep ==
  ASSUME NEW k \in Client, NEW d, driver'[k] = d, d.pc \notin Locked, coordinator' # k,
         d.pc = "running" \/ ChildOf(k)' = {}, d.direct = Absent
  PROVE  DriverInStep(k)'
BY Zenon DEF DriverInStep, Locked

LEMMA IdleTyped == Idle \in Driver /\ DriverTyped(Idle)
<1>1. Idle \in Driver
  BY HandoffAssumption DEF Idle, Driver, DriverState, Option
<1> QED BY <1>1 DEF Idle, DriverTyped, Targeting, Locked

(* What holds of a driver before its step. *)
LEMMA DriverFacts ==
  ASSUME HandoffInv, NEW k \in Client
  PROVE  /\ driver[k] \in Driver /\ driver \in [Client -> Driver]
         /\ DriverTyped(driver[k]) /\ DriverInStep(k)
         /\ coordinator \in Option(Client)
         /\ driver[k].pc \notin Locked => coordinator # k
         /\ driver[k].pc \notin {"running", "attached"} => ChildOf(k) = {}
         /\ driver[k].pc \notin {"driving", "step", "attached"} => driver[k].direct = Absent
         /\ DocumentInv
         /\ k # Absent
<1>1. driver[k] \in Driver /\ driver \in [Client -> Driver]
      /\ DriverTyped(driver[k]) /\ DriverInStep(k)
      /\ coordinator \in Option(Client) /\ DocumentInv
  BY DEF HandoffInv, HandoffTypeOK, DocumentInv
<1> QED BY <1>1, HandoffAbsentAssumption DEF DriverInStep

(* A driver that is not in a step moves to another place outside one. *)
LEMMA OutsideMoves ==
  ASSUME HandoffInv, NEW k \in Client, NEW d \in Driver,
         driver' = [driver EXCEPT ![k] = d],
         UNCHANGED <<provider, coordinator, requests, kills>>,
         DocumentInv', LineagesAdvance, KnownGenerations', transition' = transition,
         driver[k].pc \notin Locked, d.pc \notin Locked,
         ChildOf(k) = {} \/ d.pc = "running",
         \A p \in d.leases : p \in driver[k].leases \/ Free(p),
         d.direct = Absent, DriverTyped(d)
  PROVE  HandoffInv'
<1>1. /\ coordinator # k /\ coordinator \in Option(Client)
      /\ driver \in [Client -> Driver]
      /\ driver[k].pc # "asked"
  BY DriverFacts DEF Locked
<1>2. driver'[k] = d
  BY <1>1
<1>3. ChildOf(k)' = ChildOf(k)
  BY DEF ChildOf, provider
<1>4. DriverInStep(k)'
  BY <1>1, <1>2, <1>3, UnlockedInStep
<1> QED BY <1>1, <1>4, DriverOnlyMoves

(* The registry as it was. *)
LEMMA SameRegistry ==
  ASSUME HandoffInv, RegistryUnchanged
  PROVE  DocumentInv' /\ transition' = transition /\ held' = held
         /\ (UNCHANGED threads => LineagesAdvance /\ KnownGenerations')
<1>1. TypeOK /\ ValidDocument /\ KnownGenerations
  BY DEF HandoffInv, HandoffTypeOK, ThreadsKnown
<1>2. DocumentInv'
  BY <1>1 DEF DocumentInv, RegistryUnchanged, vars, TypeOK, ValidDocument, LineageValid,
     TrustDomainValid, ThreadsBoundOnce, HeadsValid, PendingValid, TransitionValid,
     Existing, Generations, TargetGeneration, TargetOf, ReadyHead, ForkStarted, PendingIn
<1> QED BY <1>1, <1>2, SameLineages DEF RegistryUnchanged, vars

------------------------------------------------------------------------------
(* Running a generation, and from exhaustion to a prepared transition *)

LEMMA AdoptThreadKeepsInv ==
  ASSUME HandoffInv, NEW k \in Client, NEW t \in Thread, NEW c \in Conv,
         AdoptThread(k, t, c)
  PROVE  HandoffInv'
<1>1. PICK b \in BindingInput : b.thread = t /\ Adopt(k, b, c)
  BY DEF AdoptThread
<1>2. ThreadExists(t) /\ UNCHANGED <<provider, coordinator, driver, requests, kills>>
      /\ At(k, "idle")
  BY DEF AdoptThread
<1>3. DocumentInv /\ KnownGenerations
  BY DriverFacts DEF HandoffInv, ThreadsKnown
<1>4. DocumentInv'
  BY <1>1, <1>3, AdoptInv
<1>5. LineagesAdvance /\ KnownGenerations' /\ transition' = transition
  BY <1>1, <1>2, <1>3, AdoptMoves DEF provider
<1>6. /\ driver[k] \in Driver /\ DriverTyped(driver[k]) /\ driver \in [Client -> Driver]
      /\ driver[k].pc \notin Locked /\ ChildOf(k) = {} /\ driver[k].direct = Absent
  BY <1>2, DriverFacts DEF At, Locked
<1>7. driver' = [driver EXCEPT ![k] = driver[k]]
  BY <1>2, <1>6
<1> QED BY <1>2, <1>4, <1>5, <1>6, <1>7, OutsideMoves

(* What reading the head of a workspace gives a driver. *)
LEMMA ReadHeadMoves ==
  ASSUME HandoffInv, NEW k \in Client, NEW w \in Workspace, ReadHead(k, w),
         UNCHANGED threads
  PROVE  /\ DocumentInv' /\ LineagesAdvance /\ KnownGenerations' /\ transition' = transition
         /\ held'[k] \in HeadBinding
         /\ ThreadExists(held'[k].thread)
<1>1. DocumentInv /\ KnownGenerations /\ held \in [Client -> Option(HeadBinding)] /\ TypeOK
  BY DEF HandoffInv, HandoffTypeOK, DocumentInv, ThreadsKnown, TypeOK
<1>2. heads[w] # Absent /\ heads[w].state = "ready" /\ held'[k] = ResolvedHead(w)
      /\ UNCHANGED document
  BY <1>1 DEF ReadHead, Resolves
<1>3. DocumentInv'
  BY <1>1, ReadHeadInv
<1>4. LineagesAdvance /\ KnownGenerations' /\ transition' = transition
  BY <1>1, <1>2, SameLineages DEF document
<1>5. /\ heads[w].conv \in Existing /\ heads[w].gen \in Nat
      /\ heads[w].gen + 1 = Len(Generations(heads[w].conv))
      /\ ResolvedHead(w) \in HeadBinding
  BY <1>1, <1>2, ResolvedHeadTyped
<1>6. Generations(heads[w].conv) \in Seq(Generation)
  BY <1>1, <1>5, ExistingTyped
<1>7. heads[w].gen + 1 \in DOMAIN Generations(heads[w].conv)
  BY <1>5, <1>6
<1>8. ResolvedHead(w).thread = Generations(heads[w].conv)[heads[w].gen + 1].thread
  BY DEF ResolvedHead, BindingAt
<1>9. ThreadExists(ResolvedHead(w).thread)
  BY <1>1, <1>5, <1>7, <1>8 DEF KnownGenerations
<1> QED BY <1>2, <1>3, <1>4, <1>5, <1>9

LEMMA ResolveHeadKeepsInv ==
  ASSUME HandoffInv, NEW k \in Client, NEW w \in Workspace, ResolveHead(k, w)
  PROVE  HandoffInv'
<1> DEFINE d == [Idle EXCEPT !.pc = "resolved", !.profile = held'[k].profile,
                             !.thread = held'[k].thread, !.from = held'[k].gen]
<1>1. /\ At(k, "idle") /\ driver' = [driver EXCEPT ![k] = d]
      /\ ReadHead(k, w) /\ UNCHANGED <<provider, coordinator, requests, kills>>
  BY DEF ResolveHead, Become
<1>2. /\ DocumentInv' /\ LineagesAdvance /\ KnownGenerations' /\ transition' = transition
      /\ held'[k] \in HeadBinding /\ ThreadExists(held'[k].thread)
  BY <1>1, ReadHeadMoves DEF provider
<1>3. d \in Driver /\ DriverTyped(d)
  BY <1>2, IdleTyped DEF Driver, DriverState, Option, HeadBinding, DriverTyped, Targeting,
     Locked
<1>4. d.pc \notin Locked /\ d.direct = Absent /\ d.leases = {}
  BY DEF Idle, Locked
<1>5. driver[k].pc \notin Locked /\ ChildOf(k) = {}
  BY <1>1, DriverFacts DEF At, Locked
<1> HIDE DEF d
<1> QED BY <1>1, <1>2, <1>3, <1>4, <1>5, OutsideMoves

LEMMA ResumeExactKeepsInv ==
  ASSUME HandoffInv, NEW k \in Client, NEW t \in Thread, ResumeExact(k, t)
  PROVE  HandoffInv'
<1> DEFINE d == [Idle EXCEPT !.pc = "resolved", !.profile = threads[t].profile,
                             !.thread = t, !.failover = FALSE]
<1>1. /\ At(k, "idle") /\ driver' = [driver EXCEPT ![k] = d] /\ ThreadExists(t)
      /\ RegistryUnchanged /\ UNCHANGED <<provider, coordinator, requests, kills>>
  BY DEF ResumeExact, Become
<1>2. /\ DocumentInv' /\ LineagesAdvance /\ KnownGenerations' /\ transition' = transition
  BY <1>1, SameRegistry DEF provider
<1>3. threads[t].profile \in Profile
  BY <1>1, ForsTyped DEF HandoffInv, ProviderThread
<1>4. d \in Driver /\ DriverTyped(d)
  <2>1. d \in Driver
    BY <1>3, IdleTyped DEF Driver, DriverState, Option
  <2>2. d.pc = "resolved" /\ d.profile = threads[t].profile /\ d.thread = t
    BY DEF Idle
  <2> HIDE DEF d
  <2> QED BY <1>1, <1>3, <2>1, <2>2 DEF DriverTyped, Targeting, Locked
<1>5. d.pc \notin Locked /\ d.direct = Absent /\ d.leases = {}
  BY DEF Idle, Locked
<1>6. driver[k].pc \notin Locked /\ ChildOf(k) = {}
  BY <1>1, DriverFacts DEF At, Locked
<1> HIDE DEF d
<1> QED BY <1>1, <1>2, <1>4, <1>5, <1>6, OutsideMoves

LEMMA GenerationReapedKeepsInv ==
  ASSUME HandoffInv, NEW k \in Client, NEW exhausted \in BOOLEAN,
         GenerationReaped(k, exhausted)
  PROVE  HandoffInv'
<1> DEFINE d == IF exhausted THEN [driver[k] EXCEPT !.pc = "exhausted"] ELSE Idle
<1>1. /\ At(k, "running") /\ driver' = [driver EXCEPT ![k] = d] /\ ChildOf(k) = {}
      /\ RegistryUnchanged /\ UNCHANGED <<provider, coordinator, requests, kills>>
  BY DEF GenerationReaped, Become
<1>2. /\ DocumentInv' /\ LineagesAdvance /\ KnownGenerations' /\ transition' = transition
  BY <1>1, SameRegistry DEF provider
<1>3. driver[k] \in Driver /\ DriverTyped(driver[k]) /\ driver[k].direct = Absent
      /\ driver[k].pc \notin Locked /\ driver[k].pc = "running"
  BY <1>1, DriverFacts DEF At, Locked
<1>4. d \in Driver /\ DriverTyped(d)
  BY <1>3, IdleTyped DEF Driver, DriverState, DriverTyped, Targeting, Locked
<1>5. d.pc \notin Locked /\ d.direct = Absent /\ d.leases \subseteq driver[k].leases
  BY <1>3 DEF Idle, Locked, Driver
<1> HIDE DEF d
<1> QED BY <1>1, <1>2, <1>3, <1>4, <1>5, OutsideMoves

LEMMA LockSourceKeepsInv ==
  ASSUME HandoffInv, NEW k \in Client, NEW w \in Workspace, LockSource(k, w)
  PROVE  HandoffInv'
<1> DEFINE old == driver[k]
           d == [old EXCEPT !.pc = "selecting", !.leases = {old.profile},
                            !.print = threads[old.thread].print]
<1>1. /\ At(k, "exhausted") /\ driver' = [driver EXCEPT ![k] = d] /\ Free(old.profile)
      /\ ReadHead(k, w) /\ UNCHANGED <<provider, coordinator, requests, kills>>
  BY DEF LockSource, Become
<1>2. /\ DocumentInv' /\ LineagesAdvance /\ KnownGenerations' /\ transition' = transition
  BY <1>1, ReadHeadMoves DEF provider
<1>3. /\ old \in Driver /\ old.pc = "exhausted" /\ old.direct = Absent
      /\ old.pc \notin Locked /\ ChildOf(k) = {}
      /\ old.profile \in Profile /\ old.thread \in Thread /\ ThreadExists(old.thread)
  BY <1>1, DriverFacts DEF At, Locked, DriverTyped
<1>4. threads[old.thread].print \in Fingerprint
  BY <1>3, ForsTyped DEF HandoffInv, ProviderThread
<1>5. d \in Driver /\ DriverTyped(d)
  BY <1>3, <1>4 DEF Driver, DriverState, Option, DriverTyped, Targeting, Locked
<1>6. d.pc \notin Locked /\ d.direct = Absent /\ \A p \in d.leases : Free(p)
  BY <1>1, <1>3 DEF Locked, Driver
<1> HIDE DEF d
<1> QED BY <1>1, <1>2, <1>3, <1>5, <1>6, OutsideMoves

LEMMA ReserveTargetKeepsInv ==
  ASSUME HandoffInv, NEW k \in Client, NEW p \in Profile, ReserveTarget(k, p)
  PROVE  HandoffInv'
<1> DEFINE old == driver[k]
           d == [old EXCEPT !.pc = "reserved", !.target = p, !.leases = @ \cup {p}]
<1>1. /\ At(k, "selecting") /\ driver' = [driver EXCEPT ![k] = d] /\ Free(p)
      /\ RegistryUnchanged /\ UNCHANGED <<provider, coordinator, requests, kills>>
  BY DEF ReserveTarget, Become
<1>2. /\ DocumentInv' /\ LineagesAdvance /\ KnownGenerations' /\ transition' = transition
  BY <1>1, SameRegistry DEF provider
<1>3. /\ old \in Driver /\ old.pc = "selecting" /\ old.direct = Absent
      /\ old.pc \notin Locked /\ ChildOf(k) = {} /\ DriverTyped(old)
  BY <1>1, DriverFacts DEF At, Locked
<1>5. d \in Driver /\ DriverTyped(d)
  BY <1>3 DEF Driver, DriverState, Option, DriverTyped, Targeting, Locked
<1>6. d.pc \notin Locked /\ d.direct = Absent /\ \A q \in d.leases : q \in old.leases \/ Free(q)
  BY <1>1, <1>3 DEF Locked, Driver
<1> HIDE DEF d
<1> QED BY <1>1, <1>2, <1>3, <1>5, <1>6, OutsideMoves

(* The source of the transition is a generation the provider knows. *)
LEMMA SourceKnown ==
  ASSUME HandoffInv, transition # Absent
  PROVE  LET gen == Generations(transition.conv)[transition.source + 1] IN
         /\ transition \in HandoffTransition /\ transition.conv \in Existing
         /\ gen \in Generation
         /\ ThreadExists(gen.thread)
<1>1. TypeOK /\ DocumentInv /\ KnownGenerations /\ transition \in HandoffTransition
  BY DEF HandoffInv, HandoffTypeOK, DocumentInv, ThreadsKnown, TypeOK, Option
<1>2. transition.conv \in Existing
      /\ transition.source + 1 \in DOMAIN Generations(transition.conv)
  BY <1>1 DEF DocumentInv, ValidDocument, TransitionValid
<1>3. Generations(transition.conv) \in Seq(Generation)
  BY <1>1, <1>2, ExistingTyped
<1> QED BY <1>1, <1>2, <1>3 DEF KnownGenerations

LEMMA BeginRecoveryKeepsInv ==
  ASSUME HandoffInv, NEW k \in Client, NEW g \in 0 .. (MAX_LINEAGE_GENERATIONS - 1),
         BeginRecovery(k, g)
  PROVE  HandoffInv'
<1> DEFINE gen == Generations(transition.conv)[transition.source + 1]
           d == [Idle EXCEPT !.pc = "recovering", !.profile = gen.profile,
                             !.thread = gen.thread, !.target = transition.target_profile,
                             !.from = g]
<1>1. /\ At(k, "idle") /\ driver' = [driver EXCEPT ![k] = d] /\ transition # Absent
      /\ RegistryUnchanged /\ UNCHANGED <<provider, coordinator, requests, kills>>
  BY DEF BeginRecovery, Become
<1>2. /\ DocumentInv' /\ LineagesAdvance /\ KnownGenerations' /\ transition' = transition
  BY <1>1, SameRegistry DEF provider
<1>3. /\ transition \in HandoffTransition /\ gen \in Generation /\ ThreadExists(gen.thread)
  BY <1>1, SourceKnown
<1>4. gen.profile \in Profile /\ gen.thread \in Thread
      /\ transition.target_profile \in Profile /\ g \in Nat
  BY <1>3, LineageBoundAssumption DEF Generation, HandoffTransition
<1> HIDE DEF gen
<1>5. d \in Driver /\ DriverTyped(d)
  BY <1>3, <1>4, IdleTyped DEF Driver, DriverState, Option, DriverTyped, Targeting, Locked
<1>6. d.pc \notin Locked /\ d.direct = Absent /\ d.leases = {}
  BY DEF Idle, Locked
<1>7. driver[k].pc \notin Locked /\ ChildOf(k) = {}
  BY <1>1, DriverFacts DEF At, Locked
<1> HIDE DEF d
<1> QED BY <1>1, <1>2, <1>5, <1>6, <1>7, OutsideMoves

LEMMA LockRecoverySourceKeepsInv ==
  ASSUME HandoffInv, NEW k \in Client, LockRecoverySource(k)
  PROVE  HandoffInv'
<1> DEFINE old == driver[k]
           d == [old EXCEPT !.pc = "recovery_source", !.leases = {old.profile},
                            !.print = threads[old.thread].print]
<1>1. /\ At(k, "recovering") /\ driver' = [driver EXCEPT ![k] = d] /\ Free(old.profile)
      /\ RegistryUnchanged /\ UNCHANGED <<provider, coordinator, requests, kills>>
  BY DEF LockRecoverySource, Become
<1>2. /\ DocumentInv' /\ LineagesAdvance /\ KnownGenerations' /\ transition' = transition
  BY <1>1, SameRegistry DEF provider
<1>3. /\ old \in Driver /\ old.pc = "recovering" /\ old.direct = Absent
      /\ old.pc \notin Locked /\ ChildOf(k) = {} /\ DriverTyped(old)
      /\ old.profile \in Profile /\ old.thread \in Thread /\ ThreadExists(old.thread)
  BY <1>1, DriverFacts DEF At, Locked, DriverTyped
<1>4. threads[old.thread].print \in Fingerprint
  BY <1>3, ForsTyped DEF HandoffInv, ProviderThread
<1>5. d \in Driver /\ DriverTyped(d)
  BY <1>3, <1>4 DEF Driver, DriverState, Option, DriverTyped, Targeting, Locked
<1>6. d.pc \notin Locked /\ d.direct = Absent /\ \A p \in d.leases : Free(p)
  BY <1>1, <1>3 DEF Locked, Driver
<1> HIDE DEF d
<1> QED BY <1>1, <1>2, <1>3, <1>5, <1>6, OutsideMoves

LEMMA ReserveRecoveryTargetKeepsInv ==
  ASSUME HandoffInv, NEW k \in Client, ReserveRecoveryTarget(k)
  PROVE  HandoffInv'
<1> DEFINE old == driver[k]
           d == [old EXCEPT !.pc = "driving", !.leases = @ \cup {old.target}]
<1>1. /\ At(k, "recovery_source") /\ driver' = [driver EXCEPT ![k] = d] /\ Free(old.target)
      /\ RegistryUnchanged /\ UNCHANGED <<provider, coordinator, requests, kills>>
  BY DEF ReserveRecoveryTarget, Become
<1>2. /\ DocumentInv' /\ LineagesAdvance /\ KnownGenerations' /\ transition' = transition
  BY <1>1, SameRegistry DEF provider
<1>3. /\ old \in Driver /\ old.pc = "recovery_source" /\ old.direct = Absent
      /\ old.pc \notin Locked /\ ChildOf(k) = {} /\ DriverTyped(old)
  BY <1>1, DriverFacts DEF At, Locked
<1>5. d \in Driver /\ DriverTyped(d)
  BY <1>3 DEF Driver, DriverState, Option, DriverTyped, Targeting, Locked
<1>6. d.pc \notin Locked /\ d.direct = Absent /\ \A q \in d.leases : q \in old.leases \/ Free(q)
  BY <1>1, <1>3 DEF Locked, Driver
<1> HIDE DEF d
<1> QED BY <1>1, <1>2, <1>3, <1>5, <1>6, OutsideMoves

(* A prepared transition starts with no fork: what the provider has, or an   *)
(* app-server may still make, belongs to generations left behind.            *)
LEMMA PrepareKeepsInv ==
  ASSUME HandoffInv, NEW k \in Client, Prepare(k)
  PROVE  HandoffInv'
<1> DEFINE old == driver[k]
           d == [old EXCEPT !.pc = "driving", !.steps = 0]
           x == transition'
<1>1. /\ At(k, "reserved") /\ driver' = [driver EXCEPT ![k] = d] /\ coordinator = Absent
      /\ PrepareHandoff(k, old.target, TrustedDomain, Minted(k))
      /\ requests' = 0 /\ UNCHANGED <<provider, coordinator, kills>>
  BY DEF Prepare, Become
<1>2. /\ old \in Driver /\ old.pc = "reserved" /\ old.direct = Absent
      /\ old.pc \notin Locked /\ ChildOf(k) = {} /\ DriverTyped(old) /\ DocumentInv
      /\ driver \in [Client -> Driver] /\ k # Absent
  BY <1>1, DriverFacts DEF At, Locked
<1>3. old.target \in Profile /\ Minted(k) \in Rollout /\ TrustedDomain \in TrustDomain
  BY <1>2, HandoffAssumption DEF DriverTyped, Minted, Rollout, Targeting
<1>4. KnownGenerations
  BY DEF HandoffInv, ThreadsKnown
<1>5. /\ LineagesAdvance /\ KnownGenerations' /\ DocumentInv'
      /\ transition = Absent /\ x # Absent
      /\ x.conv \in Existing /\ x.conv \in Conv /\ x.source \in Nat
      /\ x.source = conversations[x.conv].active
      /\ x.phase = "prepared" /\ x.attempts = 0
      /\ x.observed = Absent /\ x.baseline = {}
  BY <1>1, <1>2, <1>3, <1>4, PrepareMoves, PrepareHandoffInv DEF provider
<1>6. JournalKnown'
  BY <1>5 DEF JournalKnown, Existence
<1>7. \A j \in Client : driver[j].direct = Absent
  BY <1>5 DEF HandoffInv, DriverInStep
<1>8. ~ForAccounted(Id(x))
  BY <1>5 DEF ForAccounted, Id
<1>9. ForksFiled'
  BY <1>1, <1>5, ForksStayFiled DEF HandoffInv, provider
<1>10. ForksCounted'
  <2>1. ForksOf(transition)' = {}
    <3> SUFFICES ASSUME NEW t \in Thread, ThreadExists(t), threads[t].for = Id(x)
                 PROVE  FALSE
      BY <1>1 DEF ForksOf, ThreadExists, Id, provider
    <3>1. Id(x) # Absent
      BY <1>5, HandoffAbsentAssumption DEF Id
    <3> QED BY <1>8, <3>1 DEF HandoffInv, ForksFiled
  <2>2. \A p \in Profile : server'[p] # Absent => server'[p].for # Id(x)
    BY <1>1, <1>8 DEF HandoffInv, ForksFiled, provider
  <2>3. LocalForks(transition)' = {}
    BY <2>1 DEF LocalForks
  <2>4. Id(transition)' = Id(x)
    BY DEF Id
  <2>5. ~MayStillFork(transition)'
    BY <2>2, <2>4 DEF MayStillFork
  <2> HIDE DEF x
  <2> QED BY <1>1, <1>5, <2>1, <2>2, <2>3, <2>4, <2>5 DEF ForksCounted, x
<1>11. d \in Driver /\ DriverTyped(d)
  <2>1. 0 \in 0 .. MAX_HANDOFF_STEPS
    BY HandoffAssumption
  <2> QED BY <1>2, <2>1 DEF Driver, DriverState, Option, DriverTyped, Targeting, Locked
<1>12. d.pc = "driving" /\ d.leases = old.leases /\ d.direct = Absent
  BY <1>2 DEF Driver
<1> HIDE DEF d
<1>13. DriverInStep(k)'
  <2>1. ChildOf(k)' = {}
    BY <1>1, <1>2 DEF ChildOf, provider
  <2> QED BY <1>1, <1>2, <1>12, <2>1, UnlockedInStep DEF Locked
<1>14. \A j \in Client : coordinator # j /\ coordinator' # j
  BY <1>1, HandoffAbsentAssumption
<1> QED BY <1>1, <1>2, <1>5, <1>6, <1>7, <1>9, <1>10, <1>11, <1>12, <1>13, <1>14, DriverMoves
        DEF Option

------------------------------------------------------------------------------
(* Driving the transition *)

(* The fork a driver remembers is still a fork of the same handoff. *)
LEMMA DirectStays ==
  ASSUME HandoffInv, NEW k \in Client, NEW d, driver'[k] = d,
         d.direct \in {Absent, driver[k].direct}, d.target = driver[k].target,
         ThreadsKept, transition' = transition \/ SameHandoff
  PROVE  d.direct # Absent =>
           transition' # Absent /\ ForThisTarget(k)' /\ d.direct \in ForksOf(transition)'
<1> SUFFICES ASSUME d.direct # Absent
             PROVE  transition' # Absent /\ ForThisTarget(k)' /\ d.direct \in ForksOf(transition)'
  OBVIOUS
<1>1. transition # Absent /\ ForThisTarget(k) /\ d.direct \in ForksOf(transition)
  BY DEF HandoffInv, DriverInStep
<1>2. transition' # Absent /\ transition'.target_profile = transition.target_profile
      /\ Id(transition)' = Id(transition)
  BY <1>1 DEF SameHandoff, Id
<1> QED BY <1>1, <1>2 DEF ForksOf, ThreadsKept, Id, ForThisTarget

LEMMA BeginStepKeepsInv ==
  ASSUME HandoffInv, NEW k \in Client, BeginStep(k)
  PROVE  HandoffInv'
<1> DEFINE old == driver[k]
           d == [old EXCEPT !.pc = "step"]
<1>1. /\ old.pc = "driving" /\ driver' = [driver EXCEPT ![k] = d]
      /\ old.steps < MAX_HANDOFF_STEPS /\ coordinator = Absent /\ coordinator' = k
      /\ RegistryUnchanged /\ UNCHANGED <<provider, requests, kills>>
  BY DEF BeginStep, Become, At
<1>2. /\ DocumentInv' /\ LineagesAdvance /\ KnownGenerations' /\ transition' = transition
  BY <1>1, SameRegistry DEF provider
<1>3. /\ old \in Driver /\ ChildOf(k) = {} /\ DriverTyped(old) /\ driver \in [Client -> Driver]
  BY <1>1, DriverFacts
<1>4. d \in Driver /\ DriverTyped(d)
  BY <1>1, <1>3 DEF Driver, DriverState, Option, DriverTyped, Targeting, Locked
<1>5. d.pc = "step" /\ d.direct = old.direct /\ d.leases = old.leases /\ d.target = old.target
      /\ driver'[k] = d
  BY <1>1, <1>3 DEF Driver
<1> HIDE DEF d
<1>6. ChildOf(k)' = {}
  BY <1>1, <1>3 DEF ChildOf, provider
<1>7. d.direct # Absent =>
        transition' # Absent /\ ForThisTarget(k)' /\ d.direct \in ForksOf(transition)'
  BY <1>1, <1>2, <1>5, SameThreadsKept, DirectStays DEF provider
<1>8. DriverInStep(k)'
  BY <1>1, <1>5, <1>6, <1>7, Zenon DEF DriverInStep, Locked
<1>9. \A j \in Client \ {k} : coordinator # j /\ coordinator' # j
  BY <1>1, HandoffAbsentAssumption
<1> QED BY <1>1, <1>2, <1>4, <1>5, <1>8, <1>9, DriverOnlyMoves DEF Option

(* The inventory of a profile is finite, so its listings are sequences. *)
LEMMA ListingTyped ==
  ASSUME HandoffInv, NEW p, NEW w, NEW ids \in Listings(InventoryOf(p, w))
  PROVE  /\ ids \in Seq(Thread)
         /\ \A i \in DOMAIN ids : ids[i] \in InventoryOf(p, w) /\ ThreadExists(ids[i])
<1> DEFINE S == InventoryOf(p, w)
<1>1. S \subseteq {t \in Thread : ThreadExists(t)} /\ S \subseteq Thread
  BY DEF InventoryOf
<1>2. IsFiniteSet(S)
  BY <1>1, FS_Subset DEF HandoffInv, ThreadsKnown, Known
<1>3. Cardinality(S) \in Nat
  BY <1>2, FS_CardinalityType
<1>4. ids \in [1 .. Cardinality(S) -> S]
  BY DEF Listings
<1>5. ids \in Seq(S)
  BY <1>3, <1>4
<1> QED BY <1>1, <1>4, <1>5 DEF InventoryOf

LEMMA CaptureTargetBaselineKeepsInv ==
  ASSUME HandoffInv, NEW k \in Client, CaptureTargetBaseline(k)
  PROVE  HandoffInv'
<1> DEFINE old == driver[k]
<1>1. /\ old.pc = "step" /\ InPhase("source_stopped")
      /\ RegistryUnchanged /\ UNCHANGED <<provider, coordinator, requests, kills>>
  BY DEF CaptureTargetBaseline, At
<1>2. PICK ids \in Listings(InventoryOf(old.target, WorkingDirectory(k))) :
        driver' = [driver EXCEPT ![k] = [old EXCEPT !.pc = "baseline", !.listing = ids]]
  BY DEF CaptureTargetBaseline, Become
<1> DEFINE d == [old EXCEPT !.pc = "baseline", !.listing = ids]
<1>3. ids \in Seq(Thread) /\ \A i \in DOMAIN ids : ThreadExists(ids[i])
  BY ListingTyped
<1>4. /\ DocumentInv' /\ LineagesAdvance /\ KnownGenerations' /\ transition' = transition
  BY <1>1, SameRegistry DEF provider
<1>5. /\ old \in Driver /\ ChildOf(k) = {} /\ DriverTyped(old) /\ driver \in [Client -> Driver]
      /\ coordinator = k
  BY <1>1, DriverFacts, OneInStep DEF Locked
<1>6. d \in Driver /\ DriverTyped(d)
  BY <1>1, <1>3, <1>5 DEF Driver, DriverState, Option, DriverTyped, Targeting, Locked
<1>7. d.pc = "baseline" /\ d.direct = old.direct /\ d.leases = old.leases /\ d.listing = ids
      /\ driver'[k] = d
  BY <1>2, <1>5 DEF Driver
<1> HIDE DEF d
<1>8. old.direct = Absent
  <2>1. ~ForkStarted(transition) /\ transition # Absent
    BY <1>1 DEF InPhase, ForkStarted
  <2>2. ForksOf(transition) = {}
    BY <2>1 DEF HandoffInv, ForksCounted
  <2> QED BY <2>2 DEF HandoffInv, DriverInStep
<1>9. ChildOf(k)' = {}
  BY <1>1, <1>5 DEF ChildOf, provider
<1>10. InPhase("source_stopped")' /\ \A i \in DOMAIN ids : ThreadExists(ids[i])'
  BY <1>1, <1>3, <1>4 DEF InPhase, ThreadExists, provider
<1>11. DriverInStep(k)'
  BY <1>1, <1>5, <1>7, <1>8, <1>9, <1>10, Zenon DEF DriverInStep, Locked
<1> QED BY <1>1, <1>2, <1>4, <1>5, <1>6, <1>7, <1>11, DriverOnlyMoves DEF Option, d

(* A driver that stops lets go of everything. *)
LEMMA GiveUpKeepsInv ==
  ASSUME HandoffInv, NEW k \in Client, GiveUp(k)
  PROVE  HandoffInv'
<1>1. /\ driver[k].pc \notin {"idle", "running", "asked", "attached"}
      /\ driver' = [driver EXCEPT ![k] = Idle] /\ Release(k)
      /\ RegistryUnchanged /\ UNCHANGED <<provider, requests, kills>>
  BY DEF GiveUp, Become
<1>2. /\ DocumentInv' /\ LineagesAdvance /\ KnownGenerations' /\ transition' = transition
  BY <1>1, SameRegistry DEF provider
<1>3. /\ coordinator \in Option(Client) /\ ChildOf(k) = {} /\ driver \in [Client -> Driver]
      /\ k # Absent
  BY <1>1, DriverFacts
<1>4. /\ coordinator' # k /\ coordinator' \in Option(Client)
      /\ \A j \in Client \ {k} : (coordinator' = j) <=> (coordinator = j)
  BY <1>1, <1>3, HandoffAbsentAssumption DEF Release, Option
<1>5. ChildOf(k)' = {}
  BY <1>1, <1>3 DEF ChildOf, provider
<1>6. Idle.pc = "idle" /\ Idle.leases = {} /\ Idle.direct = Absent /\ driver'[k] = Idle
  BY <1>1, <1>3 DEF Idle
<1>7. DriverInStep(k)'
  BY <1>4, <1>5, <1>6, UnlockedInStep DEF Locked
<1> QED BY <1>1, <1>2, <1>4, <1>6, <1>7, IdleTyped, DriverOnlyMoves

(* A journal step of the driver that holds the coordinator lock. *)
LEMMA StepMoves ==
  ASSUME HandoffInv, NEW k \in Client, NEW d \in Driver,
         driver[k].pc \in {"step", "baseline"},
         driver' = [driver EXCEPT ![k] = d], UNCHANGED <<provider, requests, kills>>,
         coordinator' \in {k, Absent},
         DocumentInv', LineagesAdvance, KnownGenerations', JournalKnown', SameHandoff,
         d.leases = driver[k].leases, d.direct \in {Absent, driver[k].direct},
         DriverTyped(d), DriverInStep(k)', ForksCounted'
  PROVE  HandoffInv'
<1>1. \A j \in Client \ {k} : coordinator # j /\ coordinator' # j
  BY OneInStep, HandoffAbsentAssumption DEF Locked
<1>2. ForksFiled'
  BY ForksStayFiled DEF HandoffInv, provider
<1>3. requests' \in Nat /\ coordinator' \in Option(Client)
  BY DEF HandoffInv, HandoffTypeOK, Option
<1> QED BY <1>1, <1>2, <1>3, DriverMoves

(* The counts of forks survive a journal step that forgets none of them. *)
LEMMA ForksStayCounted ==
  ASSUME HandoffInv, SameHandoff, UNCHANGED <<provider, requests>>,
         requests <= transition'.attempts,
         ForkStarted(transition) => ForkStarted(transition'),
         \A t \in ForksOf(transition) : t \notin transition'.baseline
  PROVE  ForksCounted'
<1>1. transition # Absent /\ ForksCounted
  BY DEF HandoffInv, SameHandoff
<1>2. ForksOf(transition)' = ForksOf(transition) /\ LocalForks(transition)' = LocalForks(transition)
  BY DEF ForksOf, LocalForks, SameHandoff, Id, ThreadExists, provider
<1>3. MayStillFork(transition)' <=> MayStillFork(transition)
  BY DEF MayStillFork, SameHandoff, Id, provider
<1>4. /\ server' = server /\ threads' = threads /\ Id(transition)' = Id(transition)
      /\ transition'.target_profile = transition.target_profile
  BY DEF SameHandoff, provider
<1>5. ForkStarted(transition)' <=> ForkStarted(transition')
  BY DEF ForkStarted
<1> QED BY <1>1, <1>2, <1>3, <1>4, <1>5 DEF ForksCounted

LEMMA AdvancedTyped ==
  ASSUME NEW k \in Client, driver[k] \in Driver, DriverTyped(driver[k]),
         driver[k].pc \in Locked \ {"attached"}, NEW r \in Option(Thread)
  PROVE  LET d == Advanced([driver[k] EXCEPT !.direct = r]) IN
         /\ d \in Driver /\ DriverTyped(d) /\ d.pc = "driving" /\ d.direct = r
         /\ d.leases = driver[k].leases /\ d.target = driver[k].target
<1> DEFINE d == Advanced([driver[k] EXCEPT !.direct = r])
<1>1. driver[k].steps + 1 \in 0 .. MAX_HANDOFF_STEPS
  BY HandoffAssumption DEF Driver, DriverTyped
<1>2. d \in Driver
  BY <1>1 DEF Driver, DriverState, Advanced
<1>3. /\ d.pc = "driving" /\ d.direct = r /\ d.leases = driver[k].leases
      /\ d.target = driver[k].target /\ d.profile = driver[k].profile
      /\ d.thread = driver[k].thread /\ d.print = driver[k].print
  BY DEF Driver, Advanced
<1> HIDE DEF d
<1>4. DriverTyped(d)
  BY <1>3 DEF DriverTyped, Locked, Targeting
<1> QED BY <1>2, <1>3, <1>4 DEF d

(* A journal step that ends the driver's turn. *)
LEMMA AdvanceMoves ==
  ASSUME HandoffInv, NEW k \in Client, At(k, "step"),
         NEW r \in {Absent, driver[k].direct},
         driver' = [driver EXCEPT ![k] = Advanced([driver[k] EXCEPT !.direct = r])],
         coordinator' = Absent, UNCHANGED <<provider, requests, kills>>,
         DocumentInv', LineagesAdvance, KnownGenerations', JournalKnown', SameHandoff,
         ForksCounted'
  PROVE  HandoffInv'
<1> DEFINE d == Advanced([driver[k] EXCEPT !.direct = r])
<1>1. /\ driver[k] \in Driver /\ driver \in [Client -> Driver] /\ ChildOf(k) = {} /\ k # Absent
      /\ DriverTyped(driver[k]) /\ driver[k].pc = "step"
  BY DriverFacts DEF At
<1>2. r \in Option(Thread)
  BY <1>1 DEF Driver, Option
<1>3. /\ d \in Driver /\ DriverTyped(d) /\ d.pc = "driving" /\ d.direct = r
      /\ d.leases = driver[k].leases /\ d.target = driver[k].target /\ driver'[k] = d
  BY <1>1, <1>2, AdvancedTyped DEF Locked
<1> HIDE DEF d
<1>4. ChildOf(k)' = {}
  BY <1>1 DEF ChildOf, provider
<1>5. d.direct # Absent =>
        transition' # Absent /\ ForThisTarget(k)' /\ d.direct \in ForksOf(transition)'
  BY <1>3, SameThreadsKept, DirectStays DEF provider
<1>6. DriverInStep(k)'
  BY <1>1, <1>3, <1>4, <1>5, Zenon DEF DriverInStep, Locked
<1> QED BY <1>1, <1>3, <1>6, StepMoves DEF d

(* Advance keeps the fork the driver remembers. *)
LEMMA AdvanceKeepsDirect ==
  ASSUME HandoffInv, NEW k \in Client, Advance(k)
  PROVE  /\ coordinator' = Absent
         /\ driver' = [driver EXCEPT ![k] =
                         Advanced([driver[k] EXCEPT !.direct = driver[k].direct])]
<1>1. driver[k] \in Driver
  BY DriverFacts
<1>2. [driver[k] EXCEPT !.direct = driver[k].direct] = driver[k]
  BY <1>1 DEF Driver
<1> QED BY <1>2 DEF Advance, Become

LEMMA StopSourceKeepsInv ==
  ASSUME HandoffInv, NEW k \in Client, PersistSourceStopIntent(k) \/ StopAndReapSource(k)
  PROVE  HandoffInv'
<1>1. /\ At(k, "step") /\ Advance(k) /\ UNCHANGED <<provider, requests, kills>>
      /\ MarkSourceStopRequested \/ MarkSourceStopped
  BY DEF PersistSourceStopIntent, StopAndReapSource
<1>2. DocumentInv /\ TypeOK /\ KnownGenerations /\ ForksCounted /\ JournalKnown
  BY DEF HandoffInv, HandoffTypeOK, DocumentInv, ThreadsKnown, JournalKnown
<1>3. SameHandoff /\ conversations' = conversations /\ DocumentInv'
  BY <1>1, <1>2, JournalMoves
<1>4. /\ transition \in HandoffTransition /\ ~ForkStarted(transition)
      /\ transition' = [transition EXCEPT !.phase = "source_stop_requested"]
         \/ transition' = [transition EXCEPT !.phase = "source_stopped"]
  BY <1>1, <1>2 DEF MarkSourceStopRequested, MarkSourceStopped, InPhase, TypeOK, Option,
     ForkStarted
<1>5. /\ transition'.attempts = transition.attempts
      /\ transition'.baseline = transition.baseline
      /\ transition'.observed = transition.observed
  BY <1>4 DEF HandoffTransition
<1>6. ForksCounted'
  <2>1. requests <= transition.attempts /\ ForksOf(transition) = {}
    BY <1>2, <1>3, <1>4 DEF ForksCounted, SameHandoff
  <2> QED BY <1>1, <1>3, <1>4, <1>5, <2>1, ForksStayCounted
<1>7. JournalKnown'
  BY <1>1, <1>2, <1>3, <1>5 DEF JournalKnown, SameHandoff, Existence, ThreadExists, provider
<1>8. LineagesAdvance /\ KnownGenerations'
  BY <1>1, <1>2, <1>3, SameLineages DEF provider
<1> QED BY <1>1, <1>3, <1>6, <1>7, <1>8, AdvanceKeepsDirect, AdvanceMoves

LEMMA CommitKeepsInv ==
  ASSUME HandoffInv, NEW k \in Client, CommitObservedTarget(k)
  PROVE  HandoffInv'
<1>1. At(k, "step") /\ Advance(k) /\ UNCHANGED <<provider, requests, kills>> /\ CommitHandoff
  BY DEF CommitObservedTarget
<1>2. DocumentInv /\ TypeOK /\ KnownGenerations /\ ForksCounted /\ JournalKnown
  BY DEF HandoffInv, HandoffTypeOK, DocumentInv, ThreadsKnown, JournalKnown
<1>3. /\ transition \in HandoffTransition /\ transition # Absent /\ transition.observed # Absent
  BY <1>1, <1>2 DEF CommitHandoff, InPhase, TypeOK, Option
<1>4. /\ LineagesAdvance /\ KnownGenerations' /\ DocumentInv' /\ SameHandoff
      /\ transition' = [transition EXCEPT !.phase = "committed_unattached"]
  BY <1>1, <1>2, <1>3, CommitMoves DEF JournalKnown, provider
<1>5. /\ transition'.attempts = transition.attempts
      /\ transition'.baseline = transition.baseline
      /\ transition'.observed = transition.observed
      /\ ForkStarted(transition')
  BY <1>3, <1>4 DEF HandoffTransition, ForkStarted
<1>6. ForksCounted'
  <2>1. requests <= transition.attempts
        /\ \A t \in ForksOf(transition) : t \notin transition.baseline
    BY <1>2, <1>3 DEF ForksCounted
  <2> QED BY <1>1, <1>4, <1>5, <2>1, ForksStayCounted
<1>7. JournalKnown'
  BY <1>1, <1>2, <1>3, <1>5 DEF JournalKnown, Existence, ThreadExists, provider
<1> QED BY <1>1, <1>4, <1>6, <1>7, AdvanceKeepsDirect, AdvanceMoves

LEMMA IntendForkKeepsInv ==
  ASSUME HandoffInv, NEW k \in Client, IntendFork(k)
  PROVE  HandoffInv'
<1> DEFINE old == driver[k]
           d == [old EXCEPT !.pc = "fork", !.listing = << >>]
<1>1. /\ old.pc = "baseline" /\ driver' = [driver EXCEPT ![k] = d]
      /\ RecordForkIntent(old.listing) /\ UNCHANGED <<provider, coordinator, requests, kills>>
  BY DEF IntendFork, Become, At
<1>2. DocumentInv /\ TypeOK /\ KnownGenerations /\ ForksCounted /\ requests \in Nat
  BY DEF HandoffInv, HandoffTypeOK, DocumentInv, ThreadsKnown
<1>3. /\ old \in Driver /\ DriverTyped(old) /\ DriverInStep(k) /\ coordinator = k
      /\ ChildOf(k) = {} /\ old.direct = Absent /\ driver \in [Client -> Driver]
      /\ old.listing \in Seq(Thread) /\ \A i \in DOMAIN old.listing : ThreadExists(old.listing[i])
  BY <1>1, DriverFacts, OneInStep DEF Locked, DriverInStep, Driver
<1>4. SameHandoff /\ conversations' = conversations /\ DocumentInv'
  BY <1>1, <1>2, <1>3, JournalMoves
<1>5. /\ transition \in HandoffTransition /\ transition # Absent
      /\ transition.phase = "source_stopped" /\ transition.attempts = 0
      /\ transition' = [transition EXCEPT !.phase = "fork_requested",
                          !.baseline = {old.listing[i] : i \in DOMAIN old.listing},
                          !.attempts = 1]
  BY <1>1, <1>2 DEF RecordForkIntent, InPhase, TypeOK, Option
<1>6. transition.observed = Absent
  BY <1>2, <1>5 DEF DocumentInv, ValidDocument, TransitionValid
<1>7. /\ transition'.attempts = 1 /\ transition'.phase = "fork_requested"
      /\ transition'.observed = Absent
      /\ Existence(transition'.baseline)
  <2> DEFINE b == {old.listing[i] : i \in DOMAIN old.listing}
  <2>1. Existence(b)
    BY <1>3 DEF Existence
  <2>2. transition' = [transition EXCEPT !.phase = "fork_requested", !.baseline = b,
                                         !.attempts = 1]
    BY <1>5
  <2> HIDE DEF b
  <2>3. transition'.baseline = b
    BY <1>5, <2>2 DEF HandoffTransition
  <2> QED BY <1>5, <1>6, <2>1, <2>2, <2>3 DEF HandoffTransition
<1>8. requests <= 0 /\ ForksOf(transition) = {}
  BY <1>2, <1>5 DEF ForksCounted, ForkStarted
<1>9. ForksCounted'
  BY <1>1, <1>2, <1>4, <1>7, <1>8, ForksStayCounted DEF ForkStarted
<1>10. JournalKnown'
  BY <1>1, <1>7 DEF JournalKnown, Existence, ThreadExists, provider
<1>11. LineagesAdvance /\ KnownGenerations'
  BY <1>1, <1>2, <1>4, SameLineages DEF provider
<1>12. d \in Driver
  <2>1. << >> \in Seq(Thread)
    OBVIOUS
  <2> QED BY <1>3, <2>1 DEF Driver, DriverState
<1>13. /\ d.pc = "fork" /\ d.direct = Absent /\ d.leases = old.leases /\ driver'[k] = d
      /\ d.profile = old.profile /\ d.thread = old.thread /\ d.print = old.print
      /\ d.target = old.target /\ d.steps = old.steps
  BY <1>1, <1>3 DEF Driver
<1> HIDE DEF d
<1>14. DriverTyped(d)
  BY <1>1, <1>3, <1>13 DEF DriverTyped, Targeting, Locked
<1>15. DriverInStep(k)'
  <2>1. InPhase("fork_requested")' /\ requests' < transition'.attempts
    BY <1>1, <1>2, <1>4, <1>7, <1>8 DEF InPhase, SameHandoff
  <2>2. LocalForks(transition)' = {}
    BY <1>1, <1>4, <1>8 DEF LocalForks, ForksOf, SameHandoff, Id, ThreadExists, provider
  <2>3. ChildOf(k)' = {}
    BY <1>1, <1>3 DEF ChildOf, provider
  <2> QED BY <1>1, <1>3, <1>13, <2>1, <2>2, <2>3, Zenon DEF DriverInStep, Locked
<1> QED BY <1>1, <1>3, <1>4, <1>9, <1>10, <1>11, <1>12, <1>13, <1>14, <1>15, StepMoves DEF d

(* What a driver takes for the fork is a thread the provider has. *)
LEMMA CandidateKnown ==
  ASSUME HandoffInv, NEW k \in Client, NEW t \in Candidates(k)
  PROVE  ThreadExists(t)
BY DEF Candidates, InventoryOf, HandoffInv, DriverInStep, ForksOf

LEMMA ReconcileAdoptKeepsInv ==
  ASSUME HandoffInv, NEW k \in Client, NEW t \in Thread, ReconcileAdopt(k, t)
  PROVE  HandoffInv'
<1> DEFINE r == TargetFor(t)
<1>1. /\ At(k, "step") /\ transition # Absent /\ transition.phase = "fork_requested"
      /\ t \in Candidates(k) /\ ObserveHandoffTarget(r) /\ coordinator' = Absent
      /\ driver' = [driver EXCEPT ![k] = Advanced([driver[k] EXCEPT !.direct = Absent])]
      /\ UNCHANGED <<provider, requests, kills>>
  BY DEF ReconcileAdopt, Become, InPhase
<1>2. DocumentInv /\ TypeOK /\ KnownGenerations /\ ForksCounted /\ JournalKnown
  BY DEF HandoffInv, HandoffTypeOK, DocumentInv, ThreadsKnown, JournalKnown
<1>3. ThreadExists(t)
  BY <1>1, CandidateKnown
<1>4. r \in HandoffTarget /\ r.thread = t
  <2>1. threads[t].cwd \in Workspace /\ threads[t].print \in Fingerprint
    BY <1>3, ForsTyped DEF HandoffInv, ProviderThread
  <2>2. Generations(transition.conv)[transition.source + 1].version \in Version
    BY <1>1, SourceKnown DEF Generation
  <2> QED BY <2>1, <2>2, HandoffAssumption DEF TargetFor, HandoffTarget, Rollout
<1> HIDE DEF r
<1>5. SameHandoff /\ conversations' = conversations /\ DocumentInv'
  BY <1>1, <1>2, <1>4, JournalMoves
<1>6. /\ transition \in HandoffTransition
      /\ transition' = [transition EXCEPT !.observed = r, !.phase = "fork_observed"]
  BY <1>1, <1>2 DEF ObserveHandoffTarget, TypeOK, Option
<1>7. /\ transition'.attempts = transition.attempts
      /\ transition'.baseline = transition.baseline
      /\ transition'.observed = r /\ transition'.phase = "fork_observed"
  BY <1>6 DEF HandoffTransition
<1>8. ForksCounted'
  <2>1. requests <= transition.attempts
        /\ \A u \in ForksOf(transition) : u \notin transition.baseline
    BY <1>1, <1>2 DEF ForksCounted
  <2> QED BY <1>1, <1>5, <1>7, <2>1, ForksStayCounted DEF ForkStarted
<1>9. JournalKnown'
  BY <1>1, <1>2, <1>3, <1>4, <1>7 DEF JournalKnown, Existence, ThreadExists, provider
<1>10. LineagesAdvance /\ KnownGenerations'
  BY <1>1, <1>2, <1>5, SameLineages DEF provider
<1> QED BY <1>1, <1>5, <1>8, <1>9, <1>10, AdvanceMoves

(* A retry is journalled only when the first request left no fork behind. *)
LEMMA ReconcileRetryKeepsInv ==
  ASSUME HandoffInv, NEW k \in Client, ReconcileRetry(k)
  PROVE  HandoffInv'
<1> DEFINE old == driver[k]
           d == [old EXCEPT !.pc = "fork", !.direct = Absent]
<1>1. /\ old.pc = "step" /\ driver' = [driver EXCEPT ![k] = d]
      /\ transition # Absent /\ transition.phase = "fork_requested"
      /\ Candidates(k) = {} /\ RecordBoundedForkRetry
      /\ UNCHANGED <<provider, coordinator, requests, kills>>
  BY DEF ReconcileRetry, Become, At, InPhase
<1>2. DocumentInv /\ TypeOK /\ KnownGenerations /\ ForksCounted /\ JournalKnown
      /\ requests \in Nat
  BY DEF HandoffInv, HandoffTypeOK, DocumentInv, ThreadsKnown, JournalKnown
<1>3. /\ old \in Driver /\ DriverTyped(old) /\ DriverInStep(k) /\ coordinator = k
      /\ ChildOf(k) = {} /\ driver \in [Client -> Driver]
  BY <1>1, DriverFacts, OneInStep DEF Locked
<1>4. SameHandoff /\ conversations' = conversations /\ DocumentInv'
  BY <1>1, <1>2, JournalMoves
<1>5. /\ transition \in HandoffTransition /\ transition.attempts = 1
      /\ transition' = [transition EXCEPT !.attempts = 2]
  BY <1>1, <1>2 DEF RecordBoundedForkRetry, TypeOK, Option
<1>6. /\ transition'.attempts = 2 /\ transition'.phase = "fork_requested"
      /\ transition'.observed = transition.observed
      /\ transition'.baseline = transition.baseline
  BY <1>1, <1>5 DEF HandoffTransition
<1>7. requests <= 1 /\ \A t \in ForksOf(transition) :
        threads[t].profile = transition.target_profile /\ t \notin transition.baseline
  BY <1>1, <1>2, <1>5 DEF ForksCounted
<1>8. ForksCounted'
  BY <1>1, <1>2, <1>4, <1>6, <1>7, ForksStayCounted DEF ForkStarted
<1>9. JournalKnown'
  BY <1>1, <1>2, <1>6 DEF JournalKnown, Existence, ThreadExists, provider
<1>10. LineagesAdvance /\ KnownGenerations'
  BY <1>1, <1>2, <1>4, SameLineages DEF provider
<1>11. old.direct = Absent
  <2> SUFFICES ASSUME old.direct # Absent PROVE FALSE
    OBVIOUS
  <2>1. old.direct \in ForksOf(transition)
    BY <1>3 DEF DriverInStep
  <2> QED BY <1>1, <1>7, <2>1 DEF Candidates
<1>12. ForThisTarget(k) /\ WorkingDirectory(k) = transition.cwd => LocalForks(transition) = {}
  BY <1>1, <1>7, <1>11 DEF ForThisTarget, LocalForks, Candidates, InventoryOf, ForksOf
<1>13. /\ d.pc = "fork" /\ d.direct = Absent /\ d.leases = old.leases /\ driver'[k] = d
      /\ d.profile = old.profile /\ d.thread = old.thread /\ d.print = old.print
      /\ d.target = old.target /\ d.steps = old.steps /\ d \in Driver
  BY <1>1, <1>3 DEF Driver, DriverState, Option
<1> HIDE DEF d
<1>14. DriverTyped(d)
  BY <1>1, <1>3, <1>13 DEF DriverTyped, Targeting, Locked
<1>15. DriverInStep(k)'
  <2>1. InPhase("fork_requested")' /\ requests' < transition'.attempts
    BY <1>1, <1>2, <1>4, <1>6, <1>7 DEF InPhase, SameHandoff
  <2>2. LocalForks(transition)' = LocalForks(transition)
    BY <1>1, <1>4 DEF LocalForks, ForksOf, SameHandoff, Id, ThreadExists, provider
  <2>3. ChildOf(k)' = {}
    BY <1>1, <1>3 DEF ChildOf, provider
  <2>4. ForThisTarget(k)' /\ WorkingDirectory(k)' = transition'.cwd =>
          LocalForks(transition)' = {}
    BY <1>1, <1>4, <1>12, <1>13, <2>2 DEF ForThisTarget, WorkingDirectory, SameHandoff, provider
  <2> QED BY <1>1, <1>3, <1>13, <2>1, <2>3, <2>4, Zenon DEF DriverInStep, Locked
<1> QED BY <1>1, <1>3, <1>4, <1>8, <1>9, <1>10, <1>13, <1>14, <1>15, StepMoves DEF d

(* The forks of a handoff that is over belong to the generation left behind. *)
LEMMA FinishAttachKeepsInv ==
  ASSUME HandoffInv, NEW k \in Client, FinishAttach(k)
  PROVE  HandoffInv'
<1> DEFINE old == driver[k]
           d == [Idle EXCEPT !.pc = "running", !.profile = old.target,
                             !.thread = transition.observed.thread, !.from = old.from]
<1>1. /\ old.pc = "attached" /\ driver' = [driver EXCEPT ![k] = d] /\ ChildOf(k) = {}
      /\ FinishHandoffAttachment(k) /\ coordinator' = Absent
      /\ UNCHANGED <<provider, requests, kills>>
  BY DEF FinishAttach, Become, At
<1>2. DocumentInv /\ TypeOK /\ KnownGenerations /\ JournalKnown /\ requests \in Nat
  BY DEF HandoffInv, HandoffTypeOK, DocumentInv, ThreadsKnown, JournalKnown
<1>3. /\ transition # Absent /\ transition.phase = "committed_unattached"
      /\ transition' = Absent /\ UNCHANGED conversations
  BY <1>1 DEF FinishHandoffAttachment, InPhase
<1>4. DocumentInv'
  BY <1>1, <1>2, FinishHandoffAttachmentInv
<1>5. LineagesAdvance /\ KnownGenerations'
  BY <1>1, <1>2, <1>3, SameLineages DEF provider
<1>6. /\ old \in Driver /\ DriverTyped(old) /\ DriverInStep(k) /\ driver \in [Client -> Driver]
      /\ \A j \in Client \ {k} : coordinator # j /\ driver[j].direct = Absent
  BY <1>1, DriverFacts, OneInStep DEF Locked, DriverInStep
<1>7. /\ transition.observed # Absent /\ transition \in HandoffTransition
      /\ transition.conv \in Existing
      /\ conversations[transition.conv].active = transition.source + 1
  BY <1>2, <1>3 DEF DocumentInv, ValidDocument, TransitionValid, TypeOK, Option,
     TargetGeneration
<1>8. transition.observed.thread \in Thread /\ ThreadExists(transition.observed.thread)
  BY <1>2, <1>3, <1>7 DEF JournalKnown, HandoffTransition, HandoffTarget, Option
<1>9. ForksFiled'
  <2>1. \A f \in Conv \X Nat : ForAccounted(f) => ForAccounted(f)'
    BY <1>3, <1>7 DEF ForAccounted, Id, Existing, HandoffTransition
  <2>2. \A t \in Thread : ThreadExists(t) /\ threads[t].for # Absent => ForAccounted(threads[t].for)'
    BY <1>1, <2>1, ForsTyped DEF HandoffInv, ForksFiled, Option, provider
  <2>3. \A p \in Profile : server[p] # Absent => ForAccounted(server[p].for)'
    BY <1>1, <2>1, ForsTyped DEF HandoffInv, ForksFiled, provider
  <2> QED BY <1>1, <2>2, <2>3 DEF ForksFiled, ThreadExists, provider
<1>10. ForksCounted' /\ JournalKnown'
  BY <1>3 DEF ForksCounted, JournalKnown
<1>11. old.target \in Profile /\ old.from \in Nat
  BY <1>1, <1>6 DEF DriverTyped, Driver
<1>12. d \in Driver
  BY <1>8, <1>11, IdleTyped DEF Driver, DriverState, Option
<1>13. /\ d.pc = "running" /\ d.profile = old.target /\ d.leases = {} /\ d.direct = Absent
       /\ d.thread = transition.observed.thread /\ driver'[k] = d
  BY <1>1, <1>6 DEF Idle
<1> HIDE DEF d
<1>14. DriverTyped(d)
  BY <1>8, <1>11, <1>13 DEF DriverTyped, Targeting, Locked
<1>15. \A j \in Client : coordinator' # j
  BY <1>1, HandoffAbsentAssumption
<1>16. DriverInStep(k)'
  BY <1>13, <1>15, UnlockedInStep DEF Locked
<1>17. coordinator' \in Option(Client)
  BY <1>1 DEF Option
<1> QED BY <1>1, <1>2, <1>4, <1>5, <1>6, <1>9, <1>10, <1>12, <1>13, <1>14, <1>15, <1>16,
           <1>17, DriverMoves DEF d

------------------------------------------------------------------------------
(* Steps that change what the provider runs *)

(* The registry is left alone, so what it names is still known. *)
LEMMA ProviderMoves ==
  ASSUME HandoffInv, RegistryUnchanged, ThreadsKept,
         threads' \in [Thread -> Option(ProviderThread)],
         running' \in [Profile -> Option(RunningGeneration)],
         server' \in [Profile -> Option(AppServer)],
         coordinator' \in Option(Client), driver' \in [Client -> Driver],
         requests' \in Nat, kills' \in 0 .. MaxKills,
         IsFiniteSet(Known'), \A p \in Profile : ProviderKnown(p)',
         LeasesExclusive', \A k \in Client : DriverTyped(driver[k])',
         \A k \in Client : DriverInStep(k)', ForksFiled', ForksCounted'
  PROVE  HandoffInv'
<1>1. DocumentInv' /\ transition' = transition /\ conversations' = conversations
  BY SameRegistry DEF RegistryUnchanged, vars
<1>2. TypeOK /\ DocumentInv /\ KnownGenerations /\ JournalKnown
  BY DEF HandoffInv, HandoffTypeOK, DocumentInv, ThreadsKnown, JournalKnown
<1>3. HandoffTypeOK' /\ ValidDocument'
  BY <1>1 DEF HandoffTypeOK, DocumentInv
<1>4. KnownGenerations'
  <2>1. \A c \in Existing : \A i \in DOMAIN Generations(c) : Generations(c)[i].thread \in Thread
    BY <1>2, ExistingTyped DEF Generation
  <2> QED BY <1>1, <1>2, <2>1 DEF KnownGenerations, ThreadsKept, Existing, Generations
<1>5. JournalKnown'
  <2> SUFFICES ASSUME transition # Absent PROVE JournalKnown'
    BY <1>1 DEF JournalKnown
  <2>1. /\ transition.observed # Absent => transition.observed.thread \in Thread
        /\ transition.baseline \subseteq Thread
    BY <1>2 DEF TypeOK, Option, HandoffTransition, HandoffTarget
  <2> QED BY <1>1, <1>2, <2>1 DEF JournalKnown, Existence, ThreadsKept
<1>6. ThreadsKnown'
  BY <1>4, <1>5 DEF ThreadsKnown
<1> QED BY <1>3, <1>6 DEF HandoffInv

(* Every driver stays typed when one moves and no thread is lost. *)
LEMMA DriversStayTyped ==
  ASSUME HandoffInv, NEW k \in Client, NEW d \in Driver, ThreadsKept,
         driver' = [driver EXCEPT ![k] = d], DriverTyped(d)
  PROVE  /\ driver' \in [Client -> Driver] /\ driver'[k] = d
         /\ \A j \in Client \ {k} : driver'[j] = driver[j]
         /\ \A j \in Client : DriverTyped(driver[j])'
<1>1. driver \in [Client -> Driver]
  BY DEF HandoffInv, HandoffTypeOK
<1>2. driver' \in [Client -> Driver] /\ driver'[k] = d
      /\ \A j \in Client \ {k} : driver'[j] = driver[j]
  BY <1>1
<1>3. \A j \in Client : DriverTyped(driver'[j])
  BY <1>2 DEF HandoffInv
<1>4. ASSUME NEW j \in Client PROVE DriverTyped(driver[j])'
  BY <1>3 DEF DriverTyped, ThreadsKept
<1> QED BY <1>2, <1>4

(* The forks do not depend on drivers or running generations. *)
LEMMA ForksUntouched ==
  ASSUME HandoffInv, UNCHANGED <<threads, server, requests, conversations, transition>>
  PROVE  ForksFiled' /\ ForksCounted'
BY DEF HandoffInv, ForksFiled, ForAccounted, Existing, ForksCounted, ForkStarted, ForksOf,
       LocalForks, MayStillFork, Id, ThreadExists

(* A step of driver k that changes only what runs. *)
LEMMA RunningMoves ==
  ASSUME HandoffInv, RegistryUnchanged, NEW k \in Client, NEW d \in Driver,
         driver' = [driver EXCEPT ![k] = d],
         UNCHANGED <<threads, server, requests>>, kills' \in 0 .. MaxKills,
         coordinator' \in Option(Client),
         \A j \in Client \ {k} : (coordinator' = j) <=> (coordinator = j),
         running' \in [Profile -> Option(RunningGeneration)],
         \A p \in Profile : running'[p] # Absent => ThreadExists(running'[p].thread),
         \A j \in Client \ {k} : \A p \in ChildOf(j)' :
           p \in ChildOf(j) /\ running'[p].thread = running[p].thread,
         \A p \in d.leases : p \in driver[k].leases /\ running'[p] = Absent,
         \A j \in Client \ {k} : \A p \in driver[j].leases : running'[p] \in {running[p], Absent},
         driver[k].pc = "asked" => d.leases = {},
         d.direct \in {Absent, driver[k].direct},
         DriverTyped(d), DriverInStep(k)'
  PROVE  HandoffInv'
<1>1. ThreadsKept
  BY SameThreadsKept
<1>2. HandoffTypeOK /\ ThreadsKnown /\ LeasesExclusive
  BY DEF HandoffInv
<1>3. /\ driver' \in [Client -> Driver] /\ driver'[k] = d
      /\ \A j \in Client \ {k} : driver'[j] = driver[j]
      /\ \A j \in Client : DriverTyped(driver[j])'
  BY <1>1, DriversStayTyped
<1>4. transition' = transition /\ conversations' = conversations
  BY DEF RegistryUnchanged, vars
<1>5. ForksFiled' /\ ForksCounted'
  BY <1>4, ForksUntouched
<1>6. LeasesExclusive'
  <2>1. \A p \in d.leases : server[p] = Absent
    BY <1>2 DEF LeasesExclusive, At
  <2> QED BY <2>1, LeasesMove
<1>7. ASSUME NEW j \in Client \ {k} PROVE DriverInStep(j)'
  <2>1. LocalForks(transition)' = LocalForks(transition)
    BY <1>4 DEF LocalForks, ForksOf, ThreadExists
  <2>2. \A i \in Client : driver'[i].direct \in {Absent, driver[i].direct}
    BY <1>3
  <2>3. driver[j].pc = "asked" => server[driver[j].target] # Absent
    BY DEF HandoffInv, DriverInStep
  <2> QED BY <1>1, <1>3, <1>4, <2>1, <2>2, <2>3, BystanderInStep
<1>8. IsFiniteSet(Known')
  <2>1. Known' = Known
    BY DEF Known, ThreadExists
  <2> QED BY <1>2, <2>1 DEF ThreadsKnown
<1>9. \A p \in Profile : ProviderKnown(p)'
  BY <1>2 DEF ThreadsKnown, ProviderKnown, ThreadExists
<1>10. /\ threads' \in [Thread -> Option(ProviderThread)]
       /\ server' \in [Profile -> Option(AppServer)] /\ requests' \in Nat
  BY <1>2 DEF HandoffTypeOK
<1> QED BY <1>1, <1>3, <1>5, <1>6, <1>7, <1>8, <1>9, <1>10, ProviderMoves

LEMMA SpawnGenerationKeepsInv ==
  ASSUME HandoffInv, NEW k \in Client, SpawnGeneration(k)
  PROVE  HandoffInv'
<1> DEFINE old == driver[k]
           d == [old EXCEPT !.pc = "running"]
           g == [thread |-> old.thread, parent |-> k]
<1>1. /\ old.pc = "resolved" /\ Free(old.profile) /\ driver' = [driver EXCEPT ![k] = d]
      /\ running' = [running EXCEPT ![old.profile] = g]
      /\ RegistryUnchanged /\ UNCHANGED <<threads, server, coordinator, requests, kills>>
  BY DEF SpawnGeneration, Become, At
<1>2. /\ old \in Driver /\ DriverTyped(old) /\ coordinator # k /\ ChildOf(k) = {}
      /\ coordinator \in Option(Client) /\ driver \in [Client -> Driver]
      /\ old.direct = Absent
  BY <1>1, DriverFacts DEF Locked
<1>3. old.profile \in Profile /\ old.thread \in Thread /\ ThreadExists(old.thread)
  BY <1>1, <1>2 DEF DriverTyped
<1>4. running \in [Profile -> Option(RunningGeneration)] /\ kills \in 0 .. MaxKills
      /\ LeasesExclusive /\ \A p \in Profile : ProviderKnown(p)
  BY DEF HandoffInv, HandoffTypeOK, ThreadsKnown
<1>5. g \in RunningGeneration /\ g.thread = old.thread /\ g.parent = k
  BY <1>3 DEF RunningGeneration, Option
<1> HIDE DEF g
<1>6. running' \in [Profile -> Option(RunningGeneration)]
      /\ running'[old.profile] = g
      /\ \A p \in Profile \ {old.profile} : running'[p] = running[p]
  BY <1>1, <1>3, <1>4, <1>5 DEF Option
<1>7. \A p \in Profile : running'[p] # Absent => ThreadExists(running'[p].thread)
  BY <1>3, <1>4, <1>5, <1>6 DEF ProviderKnown
<1>8. \A j \in Client \ {k} : \A p \in ChildOf(j)' :
        p \in ChildOf(j) /\ running'[p].thread = running[p].thread
  BY <1>5, <1>6 DEF ChildOf
<1>9. d \in Driver
  BY <1>2 DEF Driver, DriverState
<1>10. /\ d.pc = "running" /\ d.direct = Absent /\ d.leases = old.leases /\ driver'[k] = d
       /\ d.profile = old.profile /\ d.thread = old.thread
  BY <1>1, <1>2 DEF Driver
<1> HIDE DEF d
<1>11. DriverTyped(d)
  BY <1>3, <1>10 DEF DriverTyped, Targeting, Locked
<1>12. DriverInStep(k)'
  BY <1>1, <1>2, <1>10, UnlockedInStep DEF Locked
<1>13. \A j \in Client : \A p \in driver[j].leases : p \in Profile /\ p # old.profile
  BY <1>1, <1>2 DEF Free, Driver
<1>14. \A p \in d.leases : p \in old.leases /\ running'[p] = Absent
  BY <1>4, <1>6, <1>10, <1>13 DEF LeasesExclusive
<1>15. \A j \in Client \ {k} : \A p \in driver[j].leases : running'[p] \in {running[p], Absent}
  BY <1>6, <1>13
<1>16. driver[k].pc # "asked" /\ kills' \in 0 .. MaxKills /\ coordinator' \in Option(Client)
  BY <1>1, <1>2, <1>4
<1>17. \A j \in Client \ {k} : (coordinator' = j) <=> (coordinator = j)
  BY <1>1
<1> QED BY <1>1, <1>6, <1>7, <1>8, <1>9, <1>10, <1>11, <1>12, <1>14, <1>15, <1>16, <1>17,
           RunningMoves

(* Only the driver that holds the target's lease remembers its fork. *)
LEMMA OthersRememberNothing ==
  ASSUME HandoffInv, NEW k \in Client, driver[k].pc \in Locked, ForThisTarget(k),
         driver[k].target \in driver[k].leases
  PROVE  \A j \in Client \ {k} : driver[j].direct = Absent
<1> SUFFICES ASSUME NEW j \in Client \ {k}, driver[j].direct # Absent PROVE FALSE
  OBVIOUS
<1>1. driver[j].pc \notin Locked /\ driver[j].pc \in {"driving", "step", "attached"}
      /\ ForThisTarget(j)
  BY OneInStep DEF HandoffInv, DriverInStep
<1>2. driver[j].pc = "driving"
  BY <1>1 DEF Locked
<1>3. driver[j].target \in driver[j].leases
  BY <1>2 DEF HandoffInv, DriverTyped, Targeting
<1>4. driver[j].target = driver[k].target
  BY <1>1 DEF ForThisTarget
<1> QED BY <1>3, <1>4 DEF HandoffInv, LeasesExclusive

LEMMA AttachKeepsInv ==
  ASSUME HandoffInv, NEW k \in Client, Attach(k)
  PROVE  HandoffInv'
<1> DEFINE old == driver[k]
           d == [old EXCEPT !.pc = "attached", !.leases = @ \ {old.target}]
           g == [thread |-> transition.observed.thread, parent |-> k]
<1>1. /\ old.pc = "step" /\ transition # Absent /\ transition.phase = "committed_unattached"
      /\ ForThisTarget(k) /\ old.target \in old.leases
      /\ driver' = [driver EXCEPT ![k] = d] /\ running' = [running EXCEPT ![old.target] = g]
      /\ RegistryUnchanged /\ UNCHANGED <<threads, server, coordinator, requests, kills>>
  BY DEF Attach, Become, At, InPhase
<1>2. /\ old \in Driver /\ DriverTyped(old) /\ coordinator = k /\ ChildOf(k) = {}
      /\ driver \in [Client -> Driver] /\ old.target \in Profile
  BY <1>1, DriverFacts, OneInStep DEF Locked, DriverTyped, Targeting
<1>3. /\ running \in [Profile -> Option(RunningGeneration)] /\ kills \in 0 .. MaxKills
      /\ LeasesExclusive /\ \A p \in Profile : ProviderKnown(p)
      /\ JournalKnown /\ DocumentInv /\ TypeOK
  BY DEF HandoffInv, HandoffTypeOK, ThreadsKnown, DocumentInv
<1>4. transition.observed # Absent /\ transition \in HandoffTransition
  BY <1>1, <1>3 DEF DocumentInv, ValidDocument, TransitionValid, TypeOK, Option
<1>5. transition.observed.thread \in Thread /\ ThreadExists(transition.observed.thread)
  BY <1>1, <1>3, <1>4 DEF JournalKnown, HandoffTransition, HandoffTarget, Option
<1>6. g \in RunningGeneration /\ g.thread = transition.observed.thread /\ g.parent = k
  BY <1>5 DEF RunningGeneration, Option
<1> HIDE DEF g
<1>7. running' \in [Profile -> Option(RunningGeneration)]
      /\ running'[old.target] = g
      /\ \A p \in Profile \ {old.target} : running'[p] = running[p]
  BY <1>1, <1>2, <1>3, <1>6 DEF Option
<1>8. \A p \in Profile : running'[p] # Absent => ThreadExists(running'[p].thread)
  BY <1>3, <1>5, <1>6, <1>7 DEF ProviderKnown
<1>9. \A j \in Client \ {k} : \A p \in ChildOf(j)' :
        p \in ChildOf(j) /\ running'[p].thread = running[p].thread
  BY <1>6, <1>7 DEF ChildOf
<1>10. d \in Driver
  BY <1>2 DEF Driver, DriverState
<1>11. /\ d.pc = "attached" /\ d.direct = old.direct /\ d.leases = old.leases \ {old.target}
       /\ d.profile = old.profile /\ d.thread = old.thread /\ d.print = old.print
       /\ d.target = old.target /\ driver'[k] = d
  BY <1>1, <1>2 DEF Driver
<1> HIDE DEF d
<1>12. DriverTyped(d)
  BY <1>1, <1>2, <1>11 DEF DriverTyped, Targeting, Locked
<1>13. transition' = transition
  BY <1>1 DEF RegistryUnchanged, vars
<1>14. DriverInStep(k)'
  <2>1. InPhase("committed_unattached")' /\ ForThisTarget(k)'
    BY <1>1, <1>11, <1>13 DEF InPhase, ForThisTarget
  <2>2. \A p \in ChildOf(k)' : running'[p].thread = transition'.observed.thread
    BY <1>2, <1>6, <1>7, <1>13 DEF ChildOf
  <2>3. \A j \in Client \ {k} : driver'[j].direct = Absent
    BY <1>1, <1>2, OthersRememberNothing DEF Locked
  <2>4. d.direct # Absent =>
          transition' # Absent /\ ForThisTarget(k)' /\ d.direct \in ForksOf(transition)'
    BY <1>1, <1>11, <1>13, SameThreadsKept, DirectStays
  <2> QED BY <1>1, <1>2, <1>11, <2>1, <2>2, <2>3, <2>4, Zenon DEF DriverInStep, Locked
<1>15. \A j \in Client \ {k} : \A p \in driver[j].leases : p \in Profile /\ p # old.target
  BY <1>1, <1>2, <1>3 DEF LeasesExclusive, Driver
<1>16. \A p \in d.leases : p \in old.leases /\ running'[p] = Absent
  BY <1>2, <1>3, <1>7, <1>11 DEF LeasesExclusive, Driver
<1>17. \A j \in Client \ {k} : \A p \in driver[j].leases : running'[p] \in {running[p], Absent}
  BY <1>7, <1>15
<1>18. driver[k].pc # "asked" /\ kills' \in 0 .. MaxKills /\ coordinator' \in Option(Client)
  BY <1>1, <1>2, <1>3 DEF Option
<1>19. \A j \in Client \ {k} : (coordinator' = j) <=> (coordinator = j)
  BY <1>1
<1> QED BY <1>1, <1>7, <1>8, <1>9, <1>10, <1>11, <1>12, <1>14, <1>16, <1>17, <1>18, <1>19,
           RunningMoves

(* A killed driver's children live on without it. *)
LEMMA KillKeepsInv ==
  ASSUME HandoffInv, NEW k \in Client, Kill(k)
  PROVE  HandoffInv'
<1>1. /\ kills < MaxKills /\ kills' = kills + 1
      /\ running' = [p \in Profile |->
           IF p \in ChildOf(k) THEN [running[p] EXCEPT !.parent = Absent] ELSE running[p]]
      /\ Release(k) /\ driver' = [driver EXCEPT ![k] = Idle]
      /\ RegistryUnchanged /\ UNCHANGED <<threads, server, requests>>
  BY DEF Kill, Become
<1>2. /\ coordinator \in Option(Client) /\ driver \in [Client -> Driver] /\ k # Absent
      /\ driver[k] \in Driver
  BY DriverFacts
<1>3. /\ running \in [Profile -> Option(RunningGeneration)] /\ kills \in 0 .. MaxKills
      /\ LeasesExclusive /\ \A p \in Profile : ProviderKnown(p)
  BY DEF HandoffInv, HandoffTypeOK, ThreadsKnown
<1>4. kills' \in 0 .. MaxKills
  BY <1>1, <1>3, HandoffAssumption
<1>5. \A p \in ChildOf(k) : /\ running[p] \in RunningGeneration /\ running'[p] \in RunningGeneration
                            /\ running'[p].thread = running[p].thread
                            /\ running'[p].parent = Absent
  <2> TAKE p \in ChildOf(k)
  <2>1. p \in Profile /\ running[p] # Absent
    BY DEF ChildOf
  <2>2. running[p] \in RunningGeneration
    BY <1>3, <2>1 DEF Option
  <2>3. running'[p] = [running[p] EXCEPT !.parent = Absent]
    BY <1>1, <2>1
  <2> QED BY <2>2, <2>3 DEF RunningGeneration, Option
<1>6. \A p \in Profile : p \notin ChildOf(k) => running'[p] = running[p]
  BY <1>1
<1>7. running' \in [Profile -> Option(RunningGeneration)]
  <2>1. \A p \in Profile : running'[p] \in Option(RunningGeneration)
    BY <1>3, <1>5, <1>6 DEF Option
  <2> QED BY <1>1, <2>1
<1>8. \A p \in Profile : running'[p] # Absent => ThreadExists(running'[p].thread)
  BY <1>3, <1>5, <1>6 DEF ProviderKnown, ChildOf
<1>9. \A j \in Client \ {k} : \A p \in ChildOf(j)' :
        p \in ChildOf(j) /\ running'[p].thread = running[p].thread
  <2> SUFFICES ASSUME NEW j \in Client \ {k}, NEW p \in ChildOf(j)'
               PROVE  p \in ChildOf(j) /\ running'[p].thread = running[p].thread
    OBVIOUS
  <2>1. p \in Profile /\ running'[p] # Absent /\ running'[p].parent = j
    BY DEF ChildOf
  <2>2. p \notin ChildOf(k)
    BY <1>5, <2>1, HandoffAbsentAssumption
  <2> QED BY <1>6, <2>1, <2>2 DEF ChildOf
<1>10. ChildOf(k)' = {}
  <2> SUFFICES ASSUME NEW p \in Profile, running'[p] # Absent, running'[p].parent = k
               PROVE  FALSE
    BY DEF ChildOf
  <2> QED BY <1>2, <1>5, <1>6 DEF ChildOf
<1>11. /\ coordinator' # k /\ coordinator' \in Option(Client)
       /\ \A j \in Client \ {k} : (coordinator' = j) <=> (coordinator = j)
  BY <1>1, <1>2, HandoffAbsentAssumption DEF Release, Option
<1>12. Idle.pc = "idle" /\ Idle.leases = {} /\ Idle.direct = Absent /\ driver'[k] = Idle
  BY <1>1, <1>2 DEF Idle
<1>13. DriverInStep(k)'
  BY <1>10, <1>11, <1>12, UnlockedInStep DEF Locked
<1>14. \A j \in Client \ {k} : \A p \in driver[j].leases : running'[p] \in {running[p], Absent}
  <2>1. \A j \in Client : \A p \in driver[j].leases : p \in Profile /\ running[p] = Absent
    BY <1>2, <1>3 DEF LeasesExclusive, Driver
  <2> QED BY <1>6, <2>1 DEF ChildOf
<1> QED BY <1>1, <1>4, <1>7, <1>8, <1>9, <1>11, <1>12, <1>13, <1>14, IdleTyped, RunningMoves

------------------------------------------------------------------------------
(* Asking for a fork *)

(* Forks stay counted when app-servers only leave. *)
LEMMA ServersLeave ==
  ASSUME HandoffInv, UNCHANGED <<threads, requests, conversations, transition>>,
         \A p \in Profile : server'[p] \in {server[p], Absent}
  PROVE  /\ ForksFiled' /\ ForksCounted'
         /\ \A p \in Profile : ProviderKnown(p) /\ running'[p] \in {running[p], Absent} =>
              ProviderKnown(p)'
<1>1. ForksFiled'
  BY DEF HandoffInv, ForksFiled, ForAccounted, Existing, Id, ThreadExists
<1>2. ForksOf(transition)' = ForksOf(transition) /\ LocalForks(transition)' = LocalForks(transition)
  BY DEF ForksOf, LocalForks, ThreadExists
<1>3. MayStillFork(transition)' => MayStillFork(transition)
  BY DEF MayStillFork, Id
<1>4. ForksCounted'
  BY <1>2, <1>3 DEF HandoffInv, ForksCounted, ForkStarted, Id
<1>5. \A p \in Profile : ProviderKnown(p) /\ running'[p] \in {running[p], Absent} =>
        ProviderKnown(p)'
  BY DEF ProviderKnown, ThreadExists
<1> QED BY <1>1, <1>4, <1>5

(* A step of the driver that deals with its app-server. *)
LEMMA ServerMoves ==
  ASSUME HandoffInv, RegistryUnchanged, NEW k \in Client, NEW d \in Driver,
         driver[k].pc \in {"fork", "asked"},
         driver' = [driver EXCEPT ![k] = d],
         UNCHANGED <<threads, running, kills>>, requests' \in Nat,
         coordinator' \in {k, Absent},
         server' \in [Profile -> Option(AppServer)],
         \A p \in Profile : ProviderKnown(p)',
         \A p \in d.leases : /\ p \in driver[k].leases
                             /\ server'[p] # Absent => d.pc = "asked" /\ d.target = p,
         \A p \in Profile \ driver[k].leases : server'[p] \in {server[p], Absent},
         DriverTyped(d), DriverInStep(k)', ForksFiled', ForksCounted'
  PROVE  HandoffInv'
<1>1. ThreadsKept
  BY SameThreadsKept
<1>2. HandoffTypeOK /\ ThreadsKnown /\ LeasesExclusive
  BY DEF HandoffInv
<1>3. /\ driver' \in [Client -> Driver] /\ driver'[k] = d
      /\ \A j \in Client \ {k} : driver'[j] = driver[j]
      /\ \A j \in Client : DriverTyped(driver[j])'
  BY <1>1, DriversStayTyped
<1>4. transition' = transition
  BY DEF RegistryUnchanged, vars
<1>5. \A j \in Client \ {k} : coordinator # j /\ coordinator' # j
  BY OneInStep, HandoffAbsentAssumption DEF Locked
<1>6. LeasesExclusive'
  <2>1. \A j \in Client \ {k} : \A p \in driver[j].leases :
          p \in Profile \ driver[k].leases
    BY <1>2 DEF LeasesExclusive, HandoffTypeOK, Driver
  <2>2. \A p \in d.leases : running'[p] = Absent
    BY <1>2 DEF LeasesExclusive
  <2> QED BY <2>1, <2>2, LeasesMove
<1>7. ASSUME NEW j \in Client \ {k} PROVE DriverInStep(j)'
  <2>1. \A p \in ChildOf(j)' : p \in ChildOf(j) /\ running'[p].thread = running[p].thread
    BY DEF ChildOf
  <2> QED BY <1>1, <1>3, <1>4, <1>5, <2>1, BystanderInStep
<1>8. IsFiniteSet(Known')
  <2>1. Known' = Known
    BY DEF Known, ThreadExists
  <2> QED BY <1>2, <2>1 DEF ThreadsKnown
<1>9. /\ threads' \in [Thread -> Option(ProviderThread)]
      /\ running' \in [Profile -> Option(RunningGeneration)]
      /\ coordinator' \in Option(Client) /\ kills' \in 0 .. MaxKills
  BY <1>2 DEF HandoffTypeOK, Option
<1> QED BY <1>1, <1>3, <1>6, <1>7, <1>8, <1>9, ProviderMoves

LEMMA SendForkKeepsInv ==
  ASSUME HandoffInv, NEW k \in Client, SendFork(k)
  PROVE  HandoffInv'
<1> DEFINE old == driver[k]
           d == [old EXCEPT !.pc = "asked"]
           x == transition
           s == [source |-> old.thread, base |-> old.print, for |-> Id(x), made |-> Absent]
<1>1. /\ old.pc = "fork" /\ ForThisTarget(k) /\ old.direct = Absent
      /\ driver' = [driver EXCEPT ![k] = d] /\ server' = [server EXCEPT ![old.target] = s]
      /\ requests' = requests + 1
      /\ RegistryUnchanged /\ UNCHANGED <<threads, running, coordinator, kills>>
  BY DEF SendFork, Become, At, Id
<1>2. /\ old \in Driver /\ DriverTyped(old) /\ DriverInStep(k) /\ coordinator = k
      /\ ChildOf(k) = {} /\ driver \in [Client -> Driver]
  BY <1>1, DriverFacts, OneInStep DEF Locked
<1>3. /\ old.target \in Profile /\ old.target \in old.leases /\ old.thread \in Thread
      /\ ThreadExists(old.thread) /\ old.print \in Fingerprint
      /\ old.steps < MAX_HANDOFF_STEPS
  BY <1>1, <1>2 DEF DriverTyped, Targeting, Locked
<1>4. /\ x # Absent /\ x.phase = "fork_requested" /\ requests < x.attempts
      /\ (WorkingDirectory(k) = x.cwd => LocalForks(x) = {})
      /\ x.target_profile = old.target
  BY <1>1, <1>2 DEF DriverInStep, InPhase, ForThisTarget
<1>5. /\ x \in HandoffTransition /\ x.conv \in Existing
  BY <1>4, SourceKnown
<1>6. /\ server \in [Profile -> Option(AppServer)] /\ requests \in Nat /\ LeasesExclusive
      /\ ForksFiled /\ ForksCounted /\ \A p \in Profile : ProviderKnown(p)
  BY DEF HandoffInv, HandoffTypeOK, ThreadsKnown
<1>7. Id(x) \in Conv \X Nat /\ ForAccounted(Id(x)) /\ Id(x) # Absent
  BY <1>4, <1>5, HandoffAbsentAssumption DEF Id, HandoffTransition, ForAccounted
<1>8. /\ s \in AppServer /\ s.source = old.thread /\ s.for = Id(x) /\ s.made = Absent
  BY <1>3, <1>7 DEF AppServer, Option
<1> HIDE DEF s
<1>9. /\ server' \in [Profile -> Option(AppServer)] /\ server'[old.target] = s
      /\ \A p \in Profile \ {old.target} : server'[p] = server[p]
      /\ s # Absent
  BY <1>1, <1>3, <1>6, <1>8, HandoffAbsentAssumption DEF Option
<1>10. transition' = transition /\ conversations' = conversations
  BY <1>1 DEF RegistryUnchanged, vars
<1>11. \A p \in Profile : ProviderKnown(p)'
  BY <1>1, <1>3, <1>6, <1>8, <1>9 DEF ProviderKnown, ThreadExists
<1>12. ForksFiled'
  <2>1. \A f : ForAccounted(f)' <=> ForAccounted(f)
    BY <1>10 DEF ForAccounted, Existing, Id
  <2>2. \A p \in Profile : server'[p] # Absent => ForAccounted(server'[p].for)
    BY <1>6, <1>7, <1>8, <1>9 DEF ForksFiled
  <2> QED BY <1>1, <1>6, <2>1, <2>2 DEF ForksFiled, ThreadExists
<1>13. ForksOf(x)' = ForksOf(x) /\ LocalForks(x)' = LocalForks(x)
  BY <1>1, <1>10 DEF ForksOf, LocalForks, ThreadExists
<1>14. \A p \in Profile : server'[p] # Absent /\ server'[p].for = Id(x) => p = old.target
  BY <1>4, <1>6, <1>9 DEF ForksCounted
<1>15. MayStillFork(transition)' => LocalForks(transition)' = {}
  <2> SUFFICES ASSUME MayStillFork(transition)' PROVE LocalForks(x) = {}
    BY <1>13
  <2>1. PICK p \in Profile : /\ server'[p] # Absent /\ server'[p].for = Id(x)
                             /\ threads[server'[p].source].cwd = x.cwd
    BY <1>1, <1>10 DEF MayStillFork, Id
  <2>2. server'[p] = s
    BY <1>9, <1>14, <2>1
  <2> QED BY <1>4, <1>8, <2>1, <2>2 DEF WorkingDirectory
<1>16. ForksCounted'
  <2>1. ForkStarted(transition)' /\ ForkStarted(x)
    BY <1>4, <1>10 DEF ForkStarted
  <2>2. requests' <= x.attempts
    BY <1>1, <1>4, <1>5, <1>6 DEF HandoffTransition
  <2>3. /\ \A t \in ForksOf(x) : threads[t].profile = x.target_profile /\ t \notin x.baseline
        /\ \A t, u \in LocalForks(x) : t = u
    BY <1>4, <1>6 DEF ForksCounted
  <2>4. Id(transition)' = Id(x)
    BY <1>10 DEF Id
  <2> QED BY <1>1, <1>4, <1>10, <1>13, <1>14, <1>15, <2>1, <2>2, <2>3, <2>4 DEF ForksCounted
<1>17. /\ d \in Driver /\ d.pc = "asked" /\ d.direct = Absent /\ d.leases = old.leases
       /\ d.profile = old.profile /\ d.thread = old.thread /\ d.print = old.print
       /\ d.target = old.target /\ d.steps = old.steps /\ driver'[k] = d
  BY <1>1, <1>2 DEF Driver, DriverState
<1> HIDE DEF d
<1>18. DriverTyped(d)
  BY <1>1, <1>2, <1>17 DEF DriverTyped, Targeting, Locked
<1>19. DriverInStep(k)'
  <2>1. InPhase("fork_requested")' /\ ForThisTarget(k)'
    BY <1>1, <1>4, <1>10, <1>17 DEF InPhase, ForThisTarget
  <2>2. server'[d.target] # Absent /\ server'[d.target].for = Id(transition)'
    BY <1>8, <1>9, <1>10, <1>17 DEF Id
  <2>3. ChildOf(k)' = {}
    BY <1>1, <1>2 DEF ChildOf
  <2> QED BY <1>1, <1>2, <1>17, <2>1, <2>2, <2>3, Zenon DEF DriverInStep, Locked
<1>20. \A p \in d.leases : /\ p \in old.leases
                           /\ server'[p] # Absent => d.pc = "asked" /\ d.target = p
  BY <1>1, <1>2, <1>6, <1>9, <1>17 DEF LeasesExclusive, At, Driver
<1>21. \A p \in Profile \ old.leases : server'[p] \in {server[p], Absent}
  BY <1>3, <1>9
<1>22. requests' \in Nat
  BY <1>1, <1>6
<1> QED BY <1>1, <1>2, <1>9, <1>11, <1>12, <1>16, <1>17, <1>18, <1>19, <1>20, <1>21, <1>22,
           ServerMoves

(* What an asking driver and its app-server share. *)
LEMMA AskedFacts ==
  ASSUME HandoffInv, NEW k \in Client, At(k, "asked")
  PROVE  LET p == driver[k].target IN
         /\ p \in Profile /\ p \in driver[k].leases
         /\ transition # Absent /\ ForThisTarget(k)
         /\ server[p] # Absent /\ server[p] \in AppServer
         /\ server[p].for = Id(transition)
BY ForsTyped DEF HandoffInv, At, DriverTyped, DriverInStep, Targeting, InPhase

LEMMA ForkAnsweredKeepsInv ==
  ASSUME HandoffInv, NEW k \in Client, ForkAnswered(k)
  PROVE  HandoffInv'
<1> DEFINE old == driver[k]
           made == server[old.target].made
           d == Advanced([old EXCEPT !.direct = made])
<1>1. /\ At(k, "asked") /\ old.pc = "asked" /\ made # Absent
      /\ driver' = [driver EXCEPT ![k] = d]
      /\ server' = [server EXCEPT ![old.target] = Absent] /\ coordinator' = Absent
      /\ RegistryUnchanged /\ UNCHANGED <<threads, running, requests, kills>>
  BY DEF ForkAnswered, Become, At
<1>2. /\ old \in Driver /\ DriverTyped(old) /\ coordinator = k /\ k # Absent
      /\ ChildOf(k) = {} /\ driver \in [Client -> Driver]
  BY <1>1, DriverFacts, OneInStep DEF Locked
<1>3. /\ old.target \in Profile /\ old.target \in old.leases /\ transition # Absent
      /\ ForThisTarget(k) /\ server[old.target] # Absent /\ server[old.target] \in AppServer
      /\ server[old.target].for = Id(transition)
  BY <1>1, AskedFacts
<1>4. /\ server \in [Profile -> Option(AppServer)] /\ requests \in Nat /\ LeasesExclusive
      /\ \A p \in Profile : ProviderKnown(p)
  BY DEF HandoffInv, HandoffTypeOK, ThreadsKnown
<1>5. made \in Thread /\ ThreadExists(made) /\ threads[made].for = Id(transition)
  BY <1>1, <1>3, <1>4 DEF AppServer, Option, ProviderKnown
<1> HIDE DEF made
<1>6. /\ d \in Driver /\ DriverTyped(d) /\ d.pc = "driving" /\ d.direct = made
      /\ d.leases = old.leases /\ d.target = old.target
  BY <1>1, <1>2, <1>5, AdvancedTyped DEF Locked, Option
<1> HIDE DEF d
<1>7. driver'[k] = d
  BY <1>1, <1>2
<1>8. transition' = transition /\ conversations' = conversations
  BY <1>1 DEF RegistryUnchanged, vars
<1>9. /\ server' \in [Profile -> Option(AppServer)] /\ server'[old.target] = Absent
      /\ \A p \in Profile : server'[p] \in {server[p], Absent}
  BY <1>1, <1>3, <1>4 DEF Option
<1>10. ForksFiled' /\ ForksCounted' /\ \A p \in Profile : ProviderKnown(p)'
  BY <1>1, <1>4, <1>8, <1>9, ServersLeave
<1>11. DriverInStep(k)'
  <2>1. d.direct \in ForksOf(transition)' /\ transition' # Absent /\ ForThisTarget(k)'
    BY <1>1, <1>3, <1>5, <1>6, <1>7, <1>8 DEF ForksOf, Id, ThreadExists, ForThisTarget
  <2>2. ChildOf(k)' = {}
    BY <1>1, <1>2 DEF ChildOf
  <2> QED BY <1>1, <1>2, <1>6, <1>7, <2>1, <2>2, Zenon DEF DriverInStep, Locked
<1>12. \A p \in d.leases : p \in old.leases /\ server'[p] = Absent
  BY <1>1, <1>2, <1>4, <1>6, <1>9 DEF LeasesExclusive, Driver
<1> QED BY <1>1, <1>4, <1>6, <1>9, <1>10, <1>11, <1>12, ServerMoves

LEMMA ForkFailsKeepsInv ==
  ASSUME HandoffInv, NEW k \in Client, ForkFails(k)
  PROVE  HandoffInv'
<1> DEFINE old == driver[k]
<1>1. /\ At(k, "asked") /\ old.pc = "asked" /\ driver' = [driver EXCEPT ![k] = Idle]
      /\ server' = [server EXCEPT ![old.target] = Absent] /\ Release(k)
      /\ RegistryUnchanged /\ UNCHANGED <<threads, running, requests, kills>>
  BY DEF ForkFails, Become, At
<1>2. /\ coordinator = k /\ k # Absent /\ ChildOf(k) = {} /\ driver \in [Client -> Driver]
  BY <1>1, DriverFacts, OneInStep DEF Locked
<1>3. old.target \in Profile
  BY <1>1, AskedFacts
<1>4. /\ server \in [Profile -> Option(AppServer)] /\ requests \in Nat
      /\ \A p \in Profile : ProviderKnown(p)
  BY DEF HandoffInv, HandoffTypeOK, ThreadsKnown
<1>5. coordinator' = Absent
  BY <1>1, <1>2 DEF Release
<1>6. transition' = transition /\ conversations' = conversations
  BY <1>1 DEF RegistryUnchanged, vars
<1>7. /\ server' \in [Profile -> Option(AppServer)]
      /\ \A p \in Profile : server'[p] \in {server[p], Absent}
  BY <1>1, <1>3, <1>4 DEF Option
<1>8. ForksFiled' /\ ForksCounted' /\ \A p \in Profile : ProviderKnown(p)'
  BY <1>1, <1>4, <1>6, <1>7, ServersLeave
<1>9. Idle.pc = "idle" /\ Idle.leases = {} /\ Idle.direct = Absent /\ driver'[k] = Idle
  BY <1>1, <1>2 DEF Idle
<1>10. ChildOf(k)' = {}
  BY <1>1, <1>2 DEF ChildOf
<1>11. DriverInStep(k)'
  BY <1>2, <1>5, <1>9, <1>10, UnlockedInStep DEF Locked
<1> QED BY <1>1, <1>4, <1>5, <1>7, <1>8, <1>9, <1>11, IdleTyped, ServerMoves

LEMMA OrphanExitsKeepsInv ==
  ASSUME HandoffInv, NEW p \in Profile, OrphanExits(p)
  PROVE  HandoffInv'
<1>1. /\ \A k \in Client : At(k, "asked") => driver[k].target # p
      /\ server' = [server EXCEPT ![p] = Absent]
      /\ RegistryUnchanged /\ UNCHANGED <<threads, running, coordinator, driver, requests, kills>>
  BY DEF OrphanExits
<1>2. HandoffTypeOK /\ ThreadsKnown /\ LeasesExclusive /\ driver \in [Client -> Driver]
      /\ \A k \in Client : DriverTyped(driver[k])
  BY DEF HandoffInv, HandoffTypeOK
<1>3. ThreadsKept
  BY <1>1, SameThreadsKept
<1>4. transition' = transition /\ conversations' = conversations
  BY <1>1 DEF RegistryUnchanged, vars
<1>5. /\ server' \in [Profile -> Option(AppServer)]
      /\ \A q \in Profile : server'[q] \in {server[q], Absent} /\ (q # p => server'[q] = server[q])
  BY <1>1, <1>2 DEF HandoffTypeOK, Option
<1>6. ForksFiled' /\ ForksCounted' /\ \A q \in Profile : ProviderKnown(q)'
  BY <1>1, <1>2, <1>4, <1>5, ServersLeave DEF ThreadsKnown
<1>7. LeasesExclusive'
  BY <1>1, <1>2, <1>5 DEF LeasesExclusive, At, Driver
<1>8. \A k \in Client : DriverTyped(driver[k])'
  BY <1>1, <1>2 DEF DriverTyped, ThreadExists
<1>9. ASSUME NEW k \in Client PROVE DriverInStep(k)'
  <2>1. \A q \in ChildOf(k)' : q \in ChildOf(k) /\ running'[q].thread = running[q].thread
    BY <1>1 DEF ChildOf
  <2>2. LocalForks(transition)' = LocalForks(transition)
    BY <1>1, <1>4 DEF LocalForks, ForksOf, ThreadExists
  <2>3. driver[k].pc = "asked" => /\ server'[driver[k].target] # Absent
                                  /\ server'[driver[k].target] = server[driver[k].target]
    BY <1>1, <1>5, AskedFacts DEF At
  <2> QED BY <1>1, <1>3, <1>4, <2>1, <2>2, <2>3, BystanderInStep
<1>10. IsFiniteSet(Known')
  <2>1. Known' = Known
    BY <1>1 DEF Known, ThreadExists
  <2> QED BY <1>2, <2>1 DEF ThreadsKnown
<1>11. /\ threads' \in [Thread -> Option(ProviderThread)] /\ requests' \in Nat
       /\ running' \in [Profile -> Option(RunningGeneration)] /\ driver' \in [Client -> Driver]
       /\ coordinator' \in Option(Client) /\ kills' \in 0 .. MaxKills
  BY <1>1, <1>2 DEF HandoffTypeOK
<1> QED BY <1>1, <1>3, <1>5, <1>6, <1>7, <1>8, <1>9, <1>10, <1>11, ProviderMoves

(* A generation writes to its own rollout and leaves. *)
LEMMA GenerationEndsKeepsInv ==
  ASSUME HandoffInv, NEW p \in Profile, NEW wrote \in BOOLEAN, GenerationEnds(p, wrote)
  PROVE  HandoffInv'
<1> DEFINE t == running[p].thread
<1>1. /\ running[p] # Absent /\ (wrote => threads[t].print + 1 \in Fingerprint)
      /\ running' = [running EXCEPT ![p] = Absent]
      /\ threads' = IF wrote THEN [threads EXCEPT ![t].print = @ + 1] ELSE threads
      /\ RegistryUnchanged /\ UNCHANGED <<server, coordinator, driver, requests, kills>>
  BY DEF GenerationEnds
<1>2. /\ HandoffTypeOK /\ ThreadsKnown /\ LeasesExclusive /\ driver \in [Client -> Driver]
      /\ running \in [Profile -> Option(RunningGeneration)]
      /\ threads \in [Thread -> Option(ProviderThread)]
      /\ \A k \in Client : DriverTyped(driver[k])
  BY DEF HandoffInv, HandoffTypeOK
<1>3. t \in Thread /\ ThreadExists(t) /\ threads[t] \in ProviderThread
  <2>1. running[p] \in RunningGeneration
    BY <1>1, <1>2 DEF Option
  <2>2. t \in Thread /\ ThreadExists(t)
    BY <1>1, <1>2, <2>1 DEF RunningGeneration, ThreadsKnown, ProviderKnown
  <2> QED BY <1>2, <2>2, ForsTyped
<1> HIDE DEF t
<1>4. /\ threads' \in [Thread -> Option(ProviderThread)]
      /\ \A u \in Thread : u # t => threads'[u] = threads[u]
      /\ threads'[t] \in ProviderThread
      /\ threads'[t].for = threads[t].for /\ threads'[t].cwd = threads[t].cwd
      /\ threads'[t].profile = threads[t].profile
  <2>1. CASE ~wrote
    BY <1>1, <1>2, <1>3, <2>1
  <2>2. CASE wrote
    <3> DEFINE w == [threads[t] EXCEPT !.print = @ + 1]
    <3>1. w \in ProviderThread /\ w.for = threads[t].for /\ w.cwd = threads[t].cwd
          /\ w.profile = threads[t].profile
      BY <1>1, <1>3, <2>2 DEF ProviderThread
    <3>2. threads' = [threads EXCEPT ![t] = w]
      BY <1>1, <2>2
    <3> HIDE DEF w
    <3> QED BY <1>2, <1>3, <3>1, <3>2 DEF Option
  <2> QED BY <2>1, <2>2
<1>5. /\ \A u \in Thread : ThreadExists(u)' <=> ThreadExists(u)
      /\ \A u \in Thread : ThreadExists(u) =>
           /\ threads'[u].for = threads[u].for /\ threads'[u].cwd = threads[u].cwd
           /\ threads'[u].profile = threads[u].profile
  BY <1>3, <1>4, HandoffAbsentAssumption DEF ThreadExists
<1>6. ThreadsKept /\ Known' = Known
  BY <1>5 DEF ThreadsKept, Known
<1>7. transition' = transition /\ conversations' = conversations
  BY <1>1 DEF RegistryUnchanged, vars
<1>8. /\ running' \in [Profile -> Option(RunningGeneration)]
      /\ \A q \in Profile : running'[q] \in {running[q], Absent}
  BY <1>1, <1>2 DEF Option
<1>9. \A q \in Profile : server[q] # Absent =>
        /\ server[q] \in AppServer /\ server[q].source \in Thread
        /\ server[q].made # Absent => server[q].made \in Thread
  BY <1>2, ForsTyped DEF AppServer, Option
<1>10. \A q \in Profile : ProviderKnown(q)'
  <2> SUFFICES ASSUME NEW q \in Profile PROVE ProviderKnown(q)'
    OBVIOUS
  <2>1. ProviderKnown(q)
    BY <1>2 DEF ThreadsKnown
  <2>2. running[q] # Absent => running[q].thread \in Thread
    BY <1>2 DEF Option, RunningGeneration
  <2>3. running'[q] # Absent => threads'[running'[q].thread] # Absent
    BY <1>5, <1>8, <2>1, <2>2 DEF ProviderKnown, ThreadExists
  <2> QED BY <1>1, <1>5, <1>9, <2>1, <2>3 DEF ProviderKnown, ThreadExists
<1>11. ForksOf(transition)' = ForksOf(transition) /\ LocalForks(transition)' = LocalForks(transition)
  BY <1>5, <1>7 DEF ForksOf, LocalForks
<1>12. ForksFiled'
  BY <1>1, <1>5, <1>7 DEF HandoffInv, ForksFiled, ForAccounted, Existing, Id
<1>13. MayStillFork(transition)' => MayStillFork(transition)
  <2>1. \A q \in Profile : server[q] # Absent =>
          threads'[server[q].source].cwd = threads[server[q].source].cwd
    BY <1>2, <1>5, <1>9 DEF ThreadsKnown, ProviderKnown
  <2> QED BY <1>1, <1>7, <2>1 DEF MayStillFork, Id
<1>14. ForksCounted'
  <2>1. \A u \in ForksOf(transition) : threads'[u].profile = threads[u].profile
    BY <1>5 DEF ForksOf
  <2> QED BY <1>1, <1>7, <1>11, <1>13, <2>1 DEF HandoffInv, ForksCounted, ForkStarted, Id
<1>15. LeasesExclusive'
  BY <1>1, <1>2, <1>8 DEF LeasesExclusive, At, Driver
<1>16. \A k \in Client : DriverTyped(driver[k])'
  BY <1>1, <1>2, <1>6 DEF DriverTyped, ThreadsKept
<1>17. ASSUME NEW k \in Client PROVE DriverInStep(k)'
  <2>1. \A q \in ChildOf(k)' : q \in ChildOf(k) /\ running'[q].thread = running[q].thread
    BY <1>8 DEF ChildOf
  <2>2. driver[k].pc = "asked" => server[driver[k].target] # Absent
    BY AskedFacts DEF At
  <2> QED BY <1>1, <1>6, <1>7, <1>11, <2>1, <2>2, BystanderInStep
<1>18. /\ IsFiniteSet(Known') /\ requests' \in Nat /\ driver' \in [Client -> Driver]
       /\ server' \in [Profile -> Option(AppServer)]
       /\ coordinator' \in Option(Client) /\ kills' \in 0 .. MaxKills
  BY <1>1, <1>2, <1>6 DEF HandoffTypeOK, ThreadsKnown
<1> QED BY <1>1, <1>4, <1>6, <1>8, <1>10, <1>12, <1>14, <1>15, <1>16, <1>17, <1>18,
           ProviderMoves

(* The provider makes the one fork an app-server was asked for. *)
LEMMA ForkMaterialisesKeepsInv ==
  ASSUME HandoffInv, NEW p \in Profile, NEW t \in Thread, ForkMaterialises(p, t)
  PROVE  HandoffInv'
<1> DEFINE s == server[p]
           x == transition
           f == [profile |-> p, cwd |-> threads[s.source].cwd, print |-> 0,
                 parent |-> s.source, base |-> s.base, for |-> s.for]
<1>1. /\ s # Absent /\ s.made = Absent /\ ~ThreadExists(t)
      /\ threads' = [threads EXCEPT ![t] = f]
      /\ server' = [server EXCEPT ![p].made = t]
      /\ RegistryUnchanged /\ UNCHANGED <<running, coordinator, driver, requests, kills>>
  BY DEF ForkMaterialises
<1>2. /\ HandoffTypeOK /\ ThreadsKnown /\ LeasesExclusive /\ driver \in [Client -> Driver]
      /\ threads \in [Thread -> Option(ProviderThread)]
      /\ server \in [Profile -> Option(AppServer)]
      /\ ForksFiled /\ ForksCounted
      /\ \A k \in Client : DriverTyped(driver[k])
      /\ \A q \in Profile : ProviderKnown(q)
  BY DEF HandoffInv, HandoffTypeOK, ThreadsKnown
<1>3. /\ s \in AppServer /\ s.source \in Thread /\ ThreadExists(s.source)
      /\ s.for \in Conv \X Nat /\ s.base \in Fingerprint /\ s.for # Absent
  BY <1>1, <1>2, ForsTyped, HandoffAbsentAssumption DEF AppServer, ProviderKnown
<1>4. /\ f \in ProviderThread /\ f.for = s.for /\ f.profile = p
      /\ f.cwd = threads[s.source].cwd
  <2>1. threads[s.source].cwd \in Workspace
    BY <1>2, <1>3, ForsTyped DEF ProviderThread
  <2> QED BY <1>3, <2>1, HandoffAssumption DEF ProviderThread, Option
<1> HIDE DEF f
<1>5. /\ threads' \in [Thread -> Option(ProviderThread)]
      /\ threads'[t] = f /\ f # Absent
      /\ \A u \in Thread : u # t => threads'[u] = threads[u]
  BY <1>1, <1>2, <1>4, HandoffAbsentAssumption DEF Option
<1>6. /\ \A u \in Thread : ThreadExists(u)' <=> ThreadExists(u) \/ u = t
      /\ ThreadsKept
  BY <1>1, <1>5 DEF ThreadExists, ThreadsKept
<1>7. IsFiniteSet(Known')
  <2>1. Known' = Known \cup {t}
    BY <1>6 DEF Known
  <2> QED BY <1>2, <2>1, FS_AddElement DEF ThreadsKnown
<1>8. /\ server' \in [Profile -> Option(AppServer)]
      /\ server'[p] # Absent /\ server'[p].made = t /\ t # Absent
      /\ server'[p].for = s.for /\ server'[p].source = s.source
      /\ \A q \in Profile : q # p => server'[q] = server[q]
  <2> DEFINE w == [s EXCEPT !.made = t]
  <2>1. w \in AppServer /\ w.made = t /\ w.for = s.for /\ w.source = s.source
    BY <1>3 DEF AppServer, Option
  <2>2. server' = [server EXCEPT ![p] = w]
    BY <1>1
  <2> HIDE DEF w
  <2> QED BY <1>2, <2>1, <2>2, HandoffAbsentAssumption DEF Option
<1>9. transition' = transition /\ conversations' = conversations /\ Id(transition)' = Id(x)
  BY <1>1 DEF RegistryUnchanged, vars, Id
<1>10. \A q \in Profile : ProviderKnown(q)'
  <2> SUFFICES ASSUME NEW q \in Profile PROVE ProviderKnown(q)'
    OBVIOUS
  <2>1. ProviderKnown(q)
    BY <1>2
  <2>2. /\ running[q] # Absent => running[q].thread \in Thread
        /\ server[q] # Absent => server[q].source \in Thread
        /\ server[q] # Absent /\ server[q].made # Absent => server[q].made \in Thread
    BY <1>2 DEF HandoffTypeOK, Option, RunningGeneration, AppServer
  <2>3. running'[q] # Absent => threads'[running'[q].thread] # Absent
    BY <1>1, <1>6, <2>1, <2>2 DEF ProviderKnown, ThreadExists
  <2>4. CASE q = p
    BY <1>3, <1>4, <1>5, <1>6, <1>8, <2>3, <2>4 DEF ProviderKnown, ThreadExists
  <2>5. CASE q # p
    BY <1>6, <1>8, <2>1, <2>2, <2>3, <2>5 DEF ProviderKnown, ThreadExists, ThreadsKept
  <2> QED BY <2>4, <2>5
<1>11. \A q \in Profile : server'[q] # Absent =>
         server[q] # Absent /\ server'[q].for = server[q].for /\ server'[q].source = server[q].source
  BY <1>1, <1>8
<1>12. ForksFiled'
  <2>1. \A g : ForAccounted(g)' <=> ForAccounted(g)
    BY <1>9 DEF ForAccounted, Existing
  <2>2. ForAccounted(s.for)
    BY <1>1, <1>2 DEF ForksFiled
  <2>3. \A u \in Thread : threads'[u] # Absent /\ threads'[u].for # Absent =>
          ForAccounted(threads'[u].for)
    BY <1>2, <1>4, <1>5, <2>2 DEF ForksFiled, ThreadExists
  <2>4. \A q \in Profile : server'[q] # Absent => ForAccounted(server'[q].for)
    BY <1>2, <1>11 DEF ForksFiled
  <2> QED BY <2>1, <2>3, <2>4 DEF ForksFiled, ThreadExists
<1>13. \A u : u \in ForksOf(transition)' <=> u \in ForksOf(x) \/ (u = t /\ s.for = Id(x))
  BY <1>1, <1>4, <1>5, <1>6, <1>9 DEF ForksOf, Id, ThreadExists
<1>14. \A u : u \in LocalForks(transition)' <=>
         u \in LocalForks(x) \/ (u = t /\ s.for = Id(x) /\ threads[s.source].cwd = x.cwd)
  <2>1. \A u \in ForksOf(x) : u \in Thread /\ u # t /\ threads'[u].cwd = threads[u].cwd
    BY <1>1, <1>5 DEF ForksOf, ThreadExists
  <2>2. \A u \in ForksOf(x) : u \in LocalForks(transition)' <=> u \in LocalForks(x)
    BY <1>9, <1>13, <2>1 DEF LocalForks
  <2>3. \A u : u \in LocalForks(transition)' =>
          u \in ForksOf(x) \/ (u = t /\ s.for = Id(x) /\ threads[s.source].cwd = x.cwd)
    BY <1>4, <1>5, <1>9, <1>13 DEF LocalForks
  <2>4. s.for = Id(x) /\ threads[s.source].cwd = x.cwd => t \in LocalForks(transition)'
    BY <1>4, <1>5, <1>9, <1>13 DEF LocalForks
  <2>5. \A u \in LocalForks(x) : u \in ForksOf(x)
    BY DEF LocalForks
  <2> QED BY <2>2, <2>3, <2>4, <2>5
<1>15. MayStillFork(transition)' => MayStillFork(x) /\ (x # Absent => s.for # Id(x))
  <2> SUFFICES ASSUME MayStillFork(transition)'
               PROVE  MayStillFork(x) /\ (x # Absent => s.for # Id(x))
    OBVIOUS
  <2>1. PICK q \in Profile : /\ server'[q] # Absent /\ server'[q].for = Id(x)
                             /\ server'[q].made = Absent
                             /\ threads'[server'[q].source].cwd = x.cwd
    BY <1>9 DEF MayStillFork
  <2>2. q # p /\ server'[q] = server[q]
    BY <1>8, <2>1
  <2>3. server[q].source \in Thread /\ ThreadExists(server[q].source)
    BY <1>2, <2>1, <2>2 DEF HandoffTypeOK, Option, AppServer, ProviderKnown
  <2>4. threads[server[q].source].cwd = x.cwd
    BY <1>6, <2>1, <2>2, <2>3 DEF ThreadsKept
  <2>5. MayStillFork(x)
    BY <2>1, <2>2, <2>4 DEF MayStillFork
  <2>6. x # Absent /\ s.for = Id(x) => q = p
    BY <1>1, <1>2, <2>1, <2>2 DEF ForksCounted
  <2> QED BY <2>2, <2>5, <2>6
<1>16. ForksCounted'
  <2> SUFFICES ASSUME x # Absent PROVE ForksCounted'
    BY <1>9 DEF ForksCounted
  <2>1. /\ requests <= x.attempts
        /\ ~ForkStarted(x) =>
             /\ ForksOf(x) = {}
             /\ \A q \in Profile : server[q] # Absent => server[q].for # Id(x)
        /\ \A u \in ForksOf(x) : threads[u].profile = x.target_profile /\ u \notin x.baseline
        /\ \A q \in Profile : server[q] # Absent /\ server[q].for = Id(x) => q = x.target_profile
        /\ \A u, v \in LocalForks(x) : u = v
        /\ MayStillFork(x) => LocalForks(x) = {}
    BY <1>2 DEF ForksCounted
  <2>2. ForkStarted(transition)' <=> ForkStarted(x)
    BY <1>9 DEF ForkStarted
  <2>3. ~ForkStarted(x) => ForksOf(transition)' = {}
    BY <1>1, <1>13, <2>1
  <2>4. \A u \in ForksOf(transition)' :
          threads'[u].profile = x.target_profile /\ u \notin x.baseline
    <3>1. t \notin x.baseline
      BY <1>1, <1>2 DEF ThreadsKnown, JournalKnown, Existence
    <3>2. s.for = Id(x) => p = x.target_profile
      BY <1>1, <2>1
    <3>3. \A u \in ForksOf(x) : u \in Thread /\ threads'[u].profile = threads[u].profile
      BY <1>6 DEF ForksOf, ThreadsKept
    <3> QED BY <1>4, <1>5, <1>13, <2>1, <3>1, <3>2, <3>3
  <2>5. \A q \in Profile : server'[q] # Absent /\ server'[q].for = Id(x) => q = x.target_profile
    BY <1>11, <2>1
  <2>6. ~ForkStarted(x) => \A q \in Profile : server'[q] # Absent => server'[q].for # Id(x)
    BY <1>11, <2>1
  <2>7. s.for = Id(x) /\ threads[s.source].cwd = x.cwd => LocalForks(x) = {}
    BY <1>1, <2>1 DEF MayStillFork
  <2>8. \A u, v \in LocalForks(transition)' : u = v
    BY <1>14, <2>1, <2>7
  <2>9. MayStillFork(transition)' => LocalForks(transition)' = {}
    BY <1>14, <1>15, <2>1
  <2> QED BY <1>1, <1>9, <2>1, <2>2, <2>3, <2>4, <2>5, <2>6, <2>8, <2>9 DEF ForksCounted
<1>17. LeasesExclusive'
  BY <1>1, <1>2, <1>8 DEF LeasesExclusive, At, Driver
<1>18. \A k \in Client : DriverTyped(driver[k])'
  BY <1>1, <1>2, <1>6 DEF DriverTyped, ThreadsKept
<1>19. ASSUME NEW k \in Client PROVE DriverInStep(k)'
  <2>1. \A q \in ChildOf(k)' : q \in ChildOf(k) /\ running'[q].thread = running[q].thread
    BY <1>1 DEF ChildOf
  <2>2. driver[k].pc = "asked" =>
          /\ server'[driver[k].target] # Absent
          /\ server'[driver[k].target].for = server[driver[k].target].for
    BY <1>8, AskedFacts DEF At
  <2>3. driver[k].pc = "fork" /\ ForThisTarget(k) =>
          \A u \in LocalForks(transition)' : u \in LocalForks(transition)
    <3> SUFFICES ASSUME driver[k].pc = "fork", ForThisTarget(k) PROVE s.for # Id(x)
      BY <1>14
    <3>1. driver[k].target \in driver[k].leases
      BY <1>2 DEF DriverTyped, Targeting
    <3>2. server[driver[k].target] = Absent
      BY <1>2, <3>1 DEF LeasesExclusive, At
    <3>3. p # x.target_profile
      BY <1>1, <3>2 DEF ForThisTarget
    <3>4. x # Absent
      BY DEF HandoffInv, DriverInStep, InPhase
    <3> QED BY <1>1, <1>2, <3>3, <3>4 DEF ForksCounted
  <2> QED BY <1>1, <1>6, <1>9, <2>1, <2>2, <2>3, BystanderInStep
<1>20. /\ requests' \in Nat /\ driver' \in [Client -> Driver]
       /\ running' \in [Profile -> Option(RunningGeneration)]
       /\ coordinator' \in Option(Client) /\ kills' \in 0 .. MaxKills
  BY <1>1, <1>2 DEF HandoffTypeOK
<1> QED BY <1>1, <1>5, <1>6, <1>7, <1>8, <1>10, <1>12, <1>16, <1>17, <1>18, <1>19, <1>20,
           ProviderMoves

------------------------------------------------------------------------------
(* The theorems *)

(* Before the first failover there are only users' threads. *)
LEMMA HandoffInitEstablishesInv == HandoffInit => HandoffInv
<1> SUFFICES ASSUME HandoffInit PROVE HandoffInv
  OBVIOUS
<1>1. DocumentInv /\ transition = Absent /\ conversations = [c \in Conv |-> Absent]
  BY InitEstablishesInv DEF HandoffInit, Init
<1>2. Existing = {}
  BY <1>1 DEF Existing
<1>3. /\ \A t \in DOMAIN UserThreads :
           /\ t \in Thread /\ threads[t] \in ProviderThread /\ threads[t].for = Absent
      /\ \A t \in Thread \ DOMAIN UserThreads : threads[t] = Absent
      /\ DOMAIN threads = Thread
  <2>1. ASSUME NEW t \in DOMAIN UserThreads
        PROVE  t \in Thread /\ threads[t] \in ProviderThread /\ threads[t].for = Absent
    <3>1. t \in Thread /\ UserThreads[t].profile \in Profile /\ UserThreads[t].cwd \in Workspace
          /\ 0 \in Fingerprint
      BY HandoffAssumption
    <3>2. threads[t] = [profile |-> UserThreads[t].profile, cwd |-> UserThreads[t].cwd,
                        print |-> 0, parent |-> Absent, base |-> Absent, for |-> Absent]
      BY <3>1 DEF HandoffInit
    <3> QED BY <3>1, <3>2 DEF ProviderThread, Option
  <2> QED BY <2>1 DEF HandoffInit
<1>4. threads \in [Thread -> Option(ProviderThread)]
  <2>1. \A t \in Thread : threads[t] \in Option(ProviderThread)
    BY <1>3 DEF Option
  <2> QED BY <1>3, <2>1 DEF HandoffInit
<1>5. HandoffTypeOK
  BY <1>1, <1>4, IdleTyped, HandoffAssumption DEF HandoffInit, HandoffTypeOK, DocumentInv, Option
<1>6. Known \subseteq DOMAIN UserThreads
  BY <1>3 DEF Known, ThreadExists
<1>7. ThreadsKnown
  <2>1. IsFiniteSet(Known)
    BY <1>6, FS_Subset, HandoffAssumption
  <2> QED BY <1>1, <1>2, <2>1 DEF ThreadsKnown, KnownGenerations, JournalKnown, ProviderKnown,
             HandoffInit
<1>8. \A k \in Client : driver[k] = Idle /\ coordinator # k
  BY HandoffAbsentAssumption DEF HandoffInit
<1>9. Idle.pc = "idle" /\ Idle.leases = {} /\ Idle.direct = Absent
  BY DEF Idle
<1>10. LeasesExclusive
  BY <1>8, <1>9 DEF LeasesExclusive
<1>11. \A k \in Client : DriverTyped(driver[k])
  BY <1>8, IdleTyped
<1>12. ASSUME NEW k \in Client PROVE DriverInStep(k)
  <2>1. ChildOf(k) = {}
    BY DEF ChildOf, HandoffInit
  <2>2. driver[k].pc = "idle" /\ driver[k].direct = Absent /\ coordinator # k
    BY <1>8, <1>9
  <2> QED BY <2>1, <2>2, Zenon DEF DriverInStep, Locked
<1>13. ForksFiled
  BY <1>3 DEF ForksFiled, ThreadExists, HandoffInit
<1>14. ForksCounted
  BY <1>1 DEF ForksCounted
<1> QED BY <1>1, <1>5, <1>7, <1>10, <1>11, <1>12, <1>13, <1>14 DEF HandoffInv, DocumentInv

LEMMA HandoffStutterKeepsInv ==
  ASSUME HandoffInv, UNCHANGED hvars
  PROVE  HandoffInv'
<1>1. RegistryUnchanged /\ UNCHANGED <<threads, running, server, coordinator, driver, requests, kills>>
  BY DEF hvars, RegistryUnchanged, provider
<1>2. transition' = transition /\ conversations' = conversations
  BY <1>1 DEF RegistryUnchanged, vars
<1>3. ThreadsKept /\ Known' = Known
  BY <1>1, SameThreadsKept DEF Known, ThreadExists
<1>4. ForksFiled' /\ ForksCounted'
  BY <1>1, <1>2, ForksUntouched
<1>5. \A p \in Profile : ProviderKnown(p)'
  BY <1>1 DEF HandoffInv, ThreadsKnown, ProviderKnown, ThreadExists
<1>6. LeasesExclusive' /\ \A k \in Client : DriverTyped(driver[k])'
  BY <1>1 DEF HandoffInv, LeasesExclusive, At, DriverTyped, ThreadExists
<1>7. ASSUME NEW k \in Client PROVE DriverInStep(k)'
  <2>1. \A q \in ChildOf(k)' : q \in ChildOf(k) /\ running'[q].thread = running[q].thread
    BY <1>1 DEF ChildOf
  <2>2. LocalForks(transition)' = LocalForks(transition)
    BY <1>1, <1>2 DEF LocalForks, ForksOf, ThreadExists
  <2>3. driver[k].pc = "asked" => server[driver[k].target] # Absent
    BY AskedFacts DEF At
  <2> QED BY <1>1, <1>2, <1>3, <2>1, <2>2, <2>3, BystanderInStep
<1>8. /\ threads' \in [Thread -> Option(ProviderThread)] /\ requests' \in Nat
      /\ running' \in [Profile -> Option(RunningGeneration)] /\ driver' \in [Client -> Driver]
      /\ server' \in [Profile -> Option(AppServer)]
      /\ coordinator' \in Option(Client) /\ kills' \in 0 .. MaxKills /\ IsFiniteSet(Known')
  BY <1>1, <1>3 DEF HandoffInv, HandoffTypeOK, ThreadsKnown
<1> QED BY <1>1, <1>3, <1>4, <1>5, <1>6, <1>7, <1>8, ProviderMoves

LEMMA HandoffNextKeepsInv ==
  ASSUME HandoffInv, [HNext]_hvars
  PROVE  HandoffInv'
<1>1. ASSUME NEW k \in Client, GenerationNext(k) PROVE HandoffInv'
  BY <1>1, AdoptThreadKeepsInv, ResolveHeadKeepsInv, ResumeExactKeepsInv,
     SpawnGenerationKeepsInv, GenerationReapedKeepsInv
  DEF GenerationNext
<1>2. ASSUME NEW k \in Client, AcquireNext(k) PROVE HandoffInv'
  BY <1>2, LockSourceKeepsInv, ReserveTargetKeepsInv, PrepareKeepsInv,
     BeginRecoveryKeepsInv, LockRecoverySourceKeepsInv, ReserveRecoveryTargetKeepsInv
  DEF AcquireNext
<1>3. ASSUME NEW k \in Client, StepNext(k) PROVE HandoffInv'
  BY <1>3, BeginStepKeepsInv, StopSourceKeepsInv, CaptureTargetBaselineKeepsInv,
     IntendForkKeepsInv, SendForkKeepsInv, ForkAnsweredKeepsInv, ForkFailsKeepsInv,
     ReconcileAdoptKeepsInv, ReconcileRetryKeepsInv, CommitKeepsInv, AttachKeepsInv,
     FinishAttachKeepsInv, GiveUpKeepsInv
  DEF StepNext
<1>4. ASSUME ProviderNext PROVE HandoffInv'
  BY <1>4, GenerationEndsKeepsInv, ForkMaterialisesKeepsInv, OrphanExitsKeepsInv
  DEF ProviderNext
<1> QED BY <1>1, <1>2, <1>3, <1>4, KillKeepsInv, HandoffStutterKeepsInv DEF HNext

(* HandoffInv holds of every reachable state of the failover processes. *)
THEOREM HandoffInvariant == HandoffSpec => []HandoffInv
<1>1. HandoffInit => HandoffInv
  BY HandoffInitEstablishesInv
<1>2. HandoffInv /\ [HNext]_hvars => HandoffInv'
  BY HandoffNextKeepsInv
<1> QED BY <1>1, <1>2, PTL DEF HandoffSpec

(* Every variable of the failover model keeps its type. *)
THEOREM HandoffTypeCorrect == HandoffSpec => []HandoffTypeOK
<1>1. HandoffInv => HandoffTypeOK
  BY DEF HandoffInv
<1> QED BY <1>1, HandoffInvariant, PTL

(* The failover processes never build a document that validate_document      *)
(* refuses, however they interleave and wherever they are killed.            *)
THEOREM FailoverKeepsDocumentValid == HandoffSpec => []ValidDocument
<1>1. HandoffInv => ValidDocument
  BY DEF HandoffInv
<1> QED BY <1>1, HandoffInvariant, PTL

(* A transition asks for at most as many forks as it journalled, and makes   *)
(* at most one in its workspace, for any number of drivers, kills and        *)
(* recoveries.                                                               *)
THEOREM ForkedAtMostOnce == HandoffSpec => []AtMostOneFork
<1>1. HandoffInv => AtMostOneFork
  BY DEF HandoffInv, ForksCounted, AtMostOneFork, LocalForks
<1> QED BY <1>1, HandoffInvariant, PTL

(* What runs while a driver attaches is the head the registry resolves to. *)
THEOREM AttachedIsHead == HandoffSpec => []AttachRunsHead
<1>1. ASSUME HandoffInv PROVE AttachRunsHead
  <2> SUFFICES ASSUME NEW k \in Client, At(k, "attached")
               PROVE  /\ transition # Absent
                      /\ ResolvedHead(transition.cwd).profile = driver[k].target
                      /\ \A p \in ChildOf(k) :
                           running[p].thread = ResolvedHead(transition.cwd).thread
    BY DEF AttachRunsHead
  <2>1. /\ transition # Absent /\ transition.phase = "committed_unattached"
        /\ transition.target_profile = driver[k].target
        /\ \A p \in ChildOf(k) : running[p].thread = transition.observed.thread
    BY <1>1 DEF HandoffInv, DriverInStep, At, InPhase, ForThisTarget
  <2>2. TransitionValid
    BY <1>1 DEF HandoffInv, ValidDocument
  <2>3. /\ Generations(transition.conv)[TargetGeneration(transition) + 1] = TargetOf(transition)
        /\ heads[transition.cwd] = ReadyHead(transition.conv, TargetGeneration(transition))
    BY <2>1, <2>2 DEF TransitionValid
  <2>4. /\ ResolvedHead(transition.cwd).profile = transition.target_profile
        /\ ResolvedHead(transition.cwd).thread = transition.observed.thread
    BY <2>3 DEF ResolvedHead, BindingAt, ReadyHead, TargetOf
  <2> QED BY <2>1, <2>4
<1> QED BY <1>1, HandoffInvariant, PTL
=============================================================================
