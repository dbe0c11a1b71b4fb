------------------------------- MODULE Handoff -------------------------------
(***************************************************************************)
(* Failover of one conversation to another profile: the processes of       *)
(* providers/codex/failover.rs and the transaction kernel of               *)
(* providers/codex/handoff_transaction.rs, on top of the conversation      *)
(* registry, whose actions they take unchanged.                            *)
(*                                                                         *)
(* A driver is one `calcifer resume --failover' process.  It runs the      *)
(* head's thread, and when that exhausts its usage it leases the source,   *)
(* reserves a target, prepares a transition and drives it one journal      *)
(* step at a time, each step under the handoff coordinator lock.  A driver *)
(* may be killed anywhere; another one recovers what it finds journalled.  *)
(* Provider children (a running generation, or the app-server that forks)  *)
(* inherit their profile's lease and outlive their parent.                 *)
(***************************************************************************)
EXTENDS Conversations

CONSTANTS
  MAX_HANDOFF_STEPS,
  UserThreads,   \* Thread -> [profile, cwd]: threads users already have
  TrustedDomain, \* the domain that authorises every handoff here
  MaxKills       \* bound: drivers killed in one behaviour

ASSUME HandoffAssumption ==
  /\ RolloutFile = Thread /\ Fingerprint \subseteq Nat /\ 0 \in Fingerprint
  /\ TrustedDomain \in TrustDomain
  /\ MAX_HANDOFF_STEPS \in Nat /\ MaxKills \in Nat
  /\ IsFiniteSet(DOMAIN UserThreads) /\ DOMAIN UserThreads \subseteq Thread
  /\ \A t \in DOMAIN UserThreads :
       UserThreads[t].profile \in Profile /\ UserThreads[t].cwd \in Workspace

VARIABLES
  threads,     \* Thread -> provider thread or Absent
  running,     \* Profile -> the generation that runs under it, or Absent
  server,      \* Profile -> app-server child working on a fork, or Absent
  coordinator, \* holder of the handoff coordinator lock
  driver,      \* Client -> state of the failover process
  requests,    \* fork requests sent for the current transition
  kills

provider == <<threads, running, server>>
hvars == <<vars, provider, coordinator, driver, requests, kills>>

(* A provider thread: its rollout's fingerprint, and for a fork the thread   *)
(* and fingerprint it was made from and the transition it was made for.      *)
ProviderThread ==
  [profile : Profile, cwd : Workspace, print : Fingerprint, parent : Option(Thread),
   base : Option(Fingerprint), for : Option(Conv \X Nat)]

RunningGeneration == [thread : Thread, parent : Option(Client)]

AppServer ==
  [source : Thread, base : Fingerprint, for : Conv \X Nat, made : Option(Thread)]

(* None is no process, no profile and none of the provider's things. *)
ASSUME HandoffAbsentAssumption ==
  /\ Absent \notin Client \cup Profile \cup Thread \cup Fingerprint \cup (Conv \X Nat)
  /\ Absent \notin ProviderThread /\ Absent \notin RunningGeneration
  /\ Absent \notin AppServer

DriverState ==
  {"idle", "resolved", "running", "exhausted", "selecting", "reserved",
   "recovering", "recovery_source", "driving", "step", "baseline", "fork",
   "asked", "attached"}

Driver ==
  [pc : DriverState, profile : Option(Profile), thread : Option(Thread),
   target : Option(Profile), print : Option(Fingerprint), leases : SUBSET Profile,
   steps : 0..MAX_HANDOFF_STEPS, listing : Seq(Thread), direct : Option(Thread),
   failover : BOOLEAN, from : Nat]

HandoffTypeOK ==
  /\ TypeOK
  /\ threads \in [Thread -> Option(ProviderThread)]
  /\ running \in [Profile -> Option(RunningGeneration)]
  /\ server \in [Profile -> Option(AppServer)]
  /\ coordinator \in Option(Client)
  /\ driver \in [Client -> Driver]
  /\ requests \in Nat
  /\ kills \in 0..MaxKills

------------------------------------------------------------------------------
(* Leases and locks *)

(* Mutant of Free: children do not inherit the lease. *)
FreeOfDrivers(p) == \A k \in Client : p \notin driver[k].leases

(* flock on a profile's lock files: free once every process that holds or    *)
(* inherited the descriptor is gone.                                         *)
Free(p) ==
  /\ \A k \in Client : p \notin driver[k].leases
  /\ running[p] = Absent
  /\ server[p] = Absent

At(k, pc) == driver[k].pc = pc

Idle ==
  [pc |-> "idle", profile |-> Absent, thread |-> Absent, target |-> Absent,
   print |-> Absent, leases |-> {}, steps |-> 0, listing |-> << >>,
   direct |-> Absent, failover |-> TRUE, from |-> 0]

Become(k, d) == driver' = [driver EXCEPT ![k] = d]

Release(k) == coordinator' = IF coordinator = k THEN Absent ELSE coordinator

ThreadExists(t) == threads[t] # Absent

InventoryOf(p, w) ==
  {t \in Thread : ThreadExists(t) /\ threads[t].profile = p /\ threads[t].cwd = w}

RegistryUnchanged == UNCHANGED vars

------------------------------------------------------------------------------
(* Running a generation *)

(* A user binds one of their threads to its workspace. *)
AdoptThread(k, t, c) ==
  /\ At(k, "idle") /\ ThreadExists(t)
  /\ \E b \in BindingInput :
       /\ b.thread = t /\ b.profile = threads[t].profile /\ b.cwd = threads[t].cwd
       /\ Adopt(k, b, c)
  /\ UNCHANGED <<provider, coordinator, driver, requests, kills>>

(* resume_supervised_with_failover with no handoff to recover. *)
ResolveHead(k, w) ==
  /\ At(k, "idle") /\ transition = Absent
  /\ ReadHead(k, w)
  /\ Become(k, [Idle EXCEPT !.pc = "resolved", !.profile = held'[k].profile,
                            !.thread = held'[k].thread, !.from = held'[k].gen])
  /\ UNCHANGED <<provider, coordinator, requests, kills>>

(* A supervised resume without failover names its thread itself. *)
ResumeExact(k, t) ==
  /\ At(k, "idle") /\ ThreadExists(t)
  /\ Become(k, [Idle EXCEPT !.pc = "resolved", !.profile = threads[t].profile,
                            !.thread = t, !.failover = FALSE])
  /\ RegistryUnchanged /\ UNCHANGED <<provider, coordinator, requests, kills>>

(* spawn_supervised_exact_resume: the anchor leases the profile; it does not *)
(* look at the conversation registry.                                        *)
SpawnGeneration(k) ==
  /\ At(k, "resolved") /\ Free(driver[k].profile)
  /\ running' = [running EXCEPT ![driver[k].profile] =
       [thread |-> driver[k].thread, parent |-> k]]
  /\ Become(k, [driver[k] EXCEPT !.pc = "running"])
  /\ RegistryUnchanged
  /\ UNCHANGED <<threads, server, coordinator, requests, kills>>

(* A generation ends after writing to its rollout, or without. *)
GenerationEnds(p, wrote) ==
  LET t == running[p].thread IN
  /\ running[p] # Absent
  /\ wrote => threads[t].print + 1 \in Fingerprint
  /\ running' = [running EXCEPT ![p] = Absent]
  /\ threads' = IF wrote THEN [threads EXCEPT ![t].print = @ + 1] ELSE threads
  /\ RegistryUnchanged
  /\ UNCHANGED <<server, coordinator, driver, requests, kills>>

ChildOf(k) == {p \in Profile : running[p] # Absent /\ running[p].parent = k}

(* The driver that waited sees usage exhaustion, or anything else and stops. *)
GenerationReaped(k, exhausted) ==
  /\ At(k, "running") /\ ChildOf(k) = {}
  /\ exhausted => driver[k].failover
  /\ Become(k, IF exhausted THEN [driver[k] EXCEPT !.pc = "exhausted"] ELSE Idle)
  /\ RegistryUnchanged /\ UNCHANGED <<provider, coordinator, requests, kills>>

------------------------------------------------------------------------------
(* From exhaustion to a prepared transition *)

(* Lease the source, find the head still exact, and mint its rollout. *)
LockSource(k, w) ==
  LET d == driver[k] IN
  /\ At(k, "exhausted") /\ Free(d.profile)
  /\ ReadHead(k, w)
  /\ held'[k].profile = d.profile /\ held'[k].thread = d.thread
  /\ Become(k, [d EXCEPT !.pc = "selecting", !.leases = {d.profile},
                         !.print = threads[d.thread].print])
  /\ UNCHANGED <<provider, coordinator, requests, kills>>

(* Profiles this invocation has used: those of its generations so far. *)
Cooldown(k) ==
  LET gens == Generations(held[k].conv) IN
  {gens[i].profile : i \in {j \in DOMAIN gens : j > driver[k].from}}

(* select_once reserves an eligible profile of the pool. *)
ReserveTarget(k, p) ==
  /\ At(k, "selecting") /\ Free(p) /\ p \notin Cooldown(k)
  /\ Become(k, [driver[k] EXCEPT !.pc = "reserved", !.target = p,
                                 !.leases = @ \cup {p}])
  /\ RegistryUnchanged /\ UNCHANGED <<provider, coordinator, requests, kills>>

Minted(k) == [file |-> driver[k].thread, print |-> driver[k].print]

Prepare(k) ==
  /\ At(k, "reserved") /\ coordinator = Absent
  /\ PrepareHandoff(k, driver[k].target, TrustedDomain, Minted(k))
  /\ Become(k, [driver[k] EXCEPT !.pc = "driving", !.steps = 0])
  /\ requests' = 0
  /\ UNCHANGED <<provider, coordinator, kills>>

(* Recovery reads the transition first and takes the leases later; the user   *)
(* may name any generation of the conversation.                               *)
BeginRecovery(k, requested) ==
  LET gens == Generations(transition.conv)
      gen == gens[transition.source + 1]
  IN
  /\ At(k, "idle") /\ transition # Absent
  /\ requested + 1 \in DOMAIN gens
  /\ Become(k, [Idle EXCEPT !.pc = "recovering", !.profile = gen.profile,
                            !.thread = gen.thread, !.target = transition.target_profile,
                            !.from = requested])
  /\ RegistryUnchanged /\ UNCHANGED <<provider, coordinator, requests, kills>>

LockRecoverySource(k) ==
  LET d == driver[k] IN
  /\ At(k, "recovering") /\ Free(d.profile)
  /\ Become(k, [d EXCEPT !.pc = "recovery_source", !.leases = {d.profile},
                         !.print = threads[d.thread].print])
  /\ RegistryUnchanged /\ UNCHANGED <<provider, coordinator, requests, kills>>

ReserveRecoveryTarget(k) ==
  LET d == driver[k] IN
  /\ At(k, "recovery_source") /\ Free(d.target)
  /\ Become(k, [d EXCEPT !.pc = "driving", !.leases = @ \cup {d.target}])
  /\ RegistryUnchanged /\ UNCHANGED <<provider, coordinator, requests, kills>>

------------------------------------------------------------------------------
(* drive_handoff: at most MAX_HANDOFF_STEPS calls of resume_handoff_once,    *)
(* each of which locks the coordinator and acts on the transition of now.    *)

BeginStep(k) ==
  /\ At(k, "driving") /\ driver[k].steps < MAX_HANDOFF_STEPS
  /\ coordinator = Absent
  /\ coordinator' = k
  /\ Become(k, [driver[k] EXCEPT !.pc = "step"])
  /\ RegistryUnchanged /\ UNCHANGED <<provider, requests, kills>>

Advanced(d) == [d EXCEPT !.pc = "driving", !.steps = @ + 1]

Advance(k) ==
  /\ coordinator' = Absent
  /\ Become(k, Advanced(driver[k]))

(* Mutant of PersistSourceStopIntent: the intent is never made durable. *)
ForgetSourceStopIntent(k) ==
  /\ At(k, "step") /\ InPhase("prepared") /\ Advance(k)
  /\ RegistryUnchanged /\ UNCHANGED <<provider, requests, kills>>

PersistSourceStopIntent(k) ==
  /\ At(k, "step") /\ MarkSourceStopRequested /\ Advance(k)
  /\ UNCHANGED <<provider, requests, kills>>

(* The source was reaped before the runtime could be built: nothing to stop. *)
StopAndReapSource(k) ==
  /\ At(k, "step") /\ MarkSourceStopped /\ Advance(k)
  /\ UNCHANGED <<provider, requests, kills>>

ForThisTarget(k) == transition.target_profile = driver[k].target

(* The directory the process was started in: that of the thread it resumes.  *)
(* It never looks at the one of the transition it steps.                     *)
WorkingDirectory(k) == threads[driver[k].thread].cwd

(* Every order the provider may list an inventory in: by update time. *)
Listings(S) == {s \in [1..Cardinality(S) -> S] : \A i, j \in DOMAIN s : s[i] = s[j] => i = j}

CaptureTargetBaseline(k) ==
  /\ At(k, "step") /\ InPhase("source_stopped") /\ ForThisTarget(k)
  /\ \E ids \in Listings(InventoryOf(driver[k].target, WorkingDirectory(k))) :
       Become(k, [driver[k] EXCEPT !.pc = "baseline", !.listing = ids])
  /\ RegistryUnchanged /\ UNCHANGED <<provider, coordinator, requests, kills>>

IntendFork(k) ==
  /\ At(k, "baseline")
  /\ RecordForkIntent(driver[k].listing)
  /\ Become(k, [driver[k] EXCEPT !.pc = "fork", !.listing = << >>])
  /\ UNCHANGED <<provider, coordinator, requests, kills>>

(* request_fork: the source rollout must still be what this process minted;   *)
(* the request goes to an app-server that shares the target's lease.          *)
SendFork(k) ==
  LET d == driver[k] IN
  /\ At(k, "fork") /\ ForThisTarget(k) /\ d.direct = Absent
  /\ threads[d.thread].print = d.print
  /\ server' = [server EXCEPT ![d.target] =
       [source |-> d.thread, base |-> d.print,
        for |-> <<transition.conv, transition.source>>, made |-> Absent]]
  /\ requests' = requests + 1
  /\ Become(k, [d EXCEPT !.pc = "asked"])
  /\ RegistryUnchanged /\ UNCHANGED <<threads, running, coordinator, kills>>

(* The provider makes the fork (external); new ids are the larger ones. *)
ForkMaterialises(p, t) ==
  LET s == server[p] IN
  /\ s # Absent /\ s.made = Absent
  /\ ~ThreadExists(t) /\ \A u \in Thread : u < t => ThreadExists(u)
  /\ threads' = [threads EXCEPT ![t] =
       [profile |-> p, cwd |-> threads[s.source].cwd, print |-> 0,
        parent |-> s.source, base |-> s.base, for |-> s.for]]
  /\ server' = [server EXCEPT ![p].made = t]
  /\ RegistryUnchanged /\ UNCHANGED <<running, coordinator, driver, requests, kills>>

(* An app-server whose driver died reads end of file and leaves. *)
OrphanExits(p) ==
  /\ server[p] # Absent
  /\ \A k \in Client : At(k, "asked") => driver[k].target # p
  /\ server' = [server EXCEPT ![p] = Absent]
  /\ RegistryUnchanged
  /\ UNCHANGED <<threads, running, coordinator, driver, requests, kills>>

ForkAnswered(k) ==
  LET d == driver[k] IN
  /\ At(k, "asked") /\ server[d.target].made # Absent
  /\ server' = [server EXCEPT ![d.target] = Absent]
  /\ coordinator' = Absent
  /\ Become(k, Advanced([d EXCEPT !.direct = server[d.target].made]))
  /\ RegistryUnchanged /\ UNCHANGED <<threads, running, requests, kills>>

(* Timeout or protocol error: the child is reaped, the driver gives up. *)
ForkFails(k) ==
  /\ At(k, "asked")
  /\ server' = [server EXCEPT ![driver[k].target] = Absent]
  /\ Release(k) /\ Become(k, Idle)
  /\ RegistryUnchanged /\ UNCHANGED <<threads, running, requests, kills>>

(* The fork this process saw made, or else what is new in the inventory. *)
Candidates(k) ==
  (IF driver[k].direct # Absent
   THEN {driver[k].direct}
   ELSE InventoryOf(driver[k].target, WorkingDirectory(k))) \ transition.baseline

Matching(k, t) == threads[t].parent = driver[k].thread

TargetFor(t) ==
  [thread |-> t, cwd |-> threads[t].cwd, version |-> Generations(transition.conv)
     [transition.source + 1].version, rollout |-> [file |-> t, print |-> threads[t].print]]

ReconcileAdopt(k, t) ==
  /\ At(k, "step") /\ InPhase("fork_requested")
  /\ Candidates(k) = {t} /\ Matching(k, t)
  /\ ObserveHandoffTarget(TargetFor(t))
  /\ coordinator' = Absent
  /\ Become(k, Advanced([driver[k] EXCEPT !.direct = Absent]))
  /\ UNCHANGED <<provider, requests, kills>>

ReconcileRetry(k) ==
  /\ At(k, "step") /\ InPhase("fork_requested") /\ Candidates(k) = {}
  /\ RecordBoundedForkRetry
  /\ Become(k, [driver[k] EXCEPT !.pc = "fork", !.direct = Absent])
  /\ UNCHANGED <<provider, coordinator, requests, kills>>

CommitObservedTarget(k) ==
  /\ At(k, "step") /\ CommitHandoff /\ Advance(k)
  /\ UNCHANGED <<provider, requests, kills>>

(* Mutant of Attach: the observed fork is attached before it is committed. *)
AttachObserved(k) ==
  LET d == driver[k] IN
  /\ At(k, "step") /\ InPhase("fork_observed") /\ ForThisTarget(k)
  /\ transition.observed.cwd = WorkingDirectory(k)
  /\ d.target \in d.leases
  /\ running' = [running EXCEPT ![d.target] =
       [thread |-> transition.observed.thread, parent |-> k]]
  /\ Become(k, [d EXCEPT !.pc = "attached", !.leases = @ \ {d.target}])
  /\ RegistryUnchanged
  /\ UNCHANGED <<threads, server, coordinator, requests, kills>>

(* attach_committed_target promotes the reservation into the generation it    *)
(* spawns, and waits for that generation with the coordinator lock held.      *)
Attach(k) ==
  LET d == driver[k] IN
  /\ At(k, "step") /\ InPhase("committed_unattached") /\ ForThisTarget(k)
  /\ transition.observed.cwd = WorkingDirectory(k)
  /\ d.target \in d.leases
  /\ running' = [running EXCEPT ![d.target] =
       [thread |-> transition.observed.thread, parent |-> k]]
  /\ Become(k, [d EXCEPT !.pc = "attached", !.leases = @ \ {d.target}])
  /\ RegistryUnchanged
  /\ UNCHANGED <<threads, server, coordinator, requests, kills>>

FinishAttach(k) ==
  LET d == driver[k] IN
  /\ At(k, "attached") /\ ChildOf(k) = {}
  /\ FinishHandoffAttachment(k)
  /\ coordinator' = Absent
  /\ Become(k, [Idle EXCEPT !.pc = "running", !.profile = d.target,
                            !.thread = transition.observed.thread, !.from = d.from])
  /\ UNCHANGED <<provider, requests, kills>>

(* Every error, refusal and explicit reconciliation ends the process: its     *)
(* leases and locks go, the journal stays.                                    *)
GiveUp(k) ==
  /\ driver[k].pc \notin {"idle", "running", "asked", "attached"}
  /\ Release(k) /\ Become(k, Idle)
  /\ RegistryUnchanged /\ UNCHANGED <<provider, requests, kills>>

(* The process is killed: its children live on with the leases they share. *)
Kill(k) ==
  /\ ~At(k, "idle") /\ kills < MaxKills
  /\ kills' = kills + 1
  /\ running' = [p \in Profile |->
       IF p \in ChildOf(k) THEN [running[p] EXCEPT !.parent = Absent] ELSE running[p]]
  /\ Release(k) /\ Become(k, Idle)
  /\ RegistryUnchanged /\ UNCHANGED <<threads, server, requests>>

------------------------------------------------------------------------------
HandoffInit ==
  /\ Init
  /\ threads = [t \in Thread |->
       IF t \in DOMAIN UserThreads
       THEN [profile |-> UserThreads[t].profile, cwd |-> UserThreads[t].cwd, print |-> 0,
             parent |-> Absent, base |-> Absent, for |-> Absent]
       ELSE Absent]
  /\ running = [p \in Profile |-> Absent]
  /\ server = [p \in Profile |-> Absent]
  /\ coordinator = Absent
  /\ driver = [k \in Client |-> Idle]
  /\ requests = 0
  /\ kills = 0

GenerationNext(k) ==
  \/ \E t \in Thread, c \in Conv : AdoptThread(k, t, c)
  \/ \E w \in Workspace : ResolveHead(k, w)
  \/ \E t \in Thread : ResumeExact(k, t)
  \/ SpawnGeneration(k)
  \/ \E exhausted \in BOOLEAN : GenerationReaped(k, exhausted)

AcquireNext(k) ==
  \/ \E w \in Workspace : LockSource(k, w)
  \/ \E p \in Profile : ReserveTarget(k, p)
  \/ Prepare(k)
  \/ \E g \in 0..(MAX_LINEAGE_GENERATIONS - 1) : BeginRecovery(k, g)
  \/ LockRecoverySource(k)
  \/ ReserveRecoveryTarget(k)

StepNext(k) ==
  \/ BeginStep(k)
  \/ PersistSourceStopIntent(k)
  \/ StopAndReapSource(k)
  \/ CaptureTargetBaseline(k)
  \/ IntendFork(k)
  \/ SendFork(k)
  \/ ForkAnswered(k)
  \/ ForkFails(k)
  \/ \E t \in Thread : ReconcileAdopt(k, t)
  \/ ReconcileRetry(k)
  \/ CommitObservedTarget(k)
  \/ Attach(k)
  \/ FinishAttach(k)
  \/ GiveUp(k)

ProviderNext ==
  \E p \in Profile :
    \/ \E wrote \in BOOLEAN : GenerationEnds(p, wrote)
    \/ \E t \in Thread : ForkMaterialises(p, t)
    \/ OrphanExits(p)

HNext ==
  \/ \E k \in Client : GenerationNext(k) \/ AcquireNext(k) \/ StepNext(k) \/ Kill(k)
  \/ ProviderNext

HandoffSpec == HandoffInit /\ [][HNext]_hvars

------------------------------------------------------------------------------
ForksOf(x) == {t \in Thread : ThreadExists(t) /\ threads[t].for = <<x.conv, x.source>>}

(* A transition asks for no more forks than it has journalled intents, and    *)
(* however often its drivers die and recover, it makes at most one fork in    *)
(* its workspace: a second request is sent only when the first cannot produce *)
(* one any more.  (A recovery that read an older transition, of another       *)
(* workspace, may also fork its own thread there on behalf of this one.)      *)
AtMostOneFork ==
  transition # Absent =>
    /\ requests <= transition.attempts
    /\ \A t, u \in ForksOf(transition) :
         threads[t].cwd = transition.cwd /\ threads[u].cwd = transition.cwd => t = u

(* Each fork is made from the source rollout the journal recorded. *)
ForkUsesRecordedRollout ==
  transition # Absent =>
    \A t \in ForksOf(transition) :
      /\ threads[t].parent = transition.rollout.file
      /\ threads[t].base = transition.rollout.print

(* A driver that has found its exhausted generation still at the head, and has *)
(* reserved a target, can journal the handoff, however often the conversation  *)
(* has been handed off before.                                                 *)
ExhaustedHeadCanFailOver ==
  \A k \in Client :
    LET e == held[k] IN
    /\ At(k, "reserved") /\ transition = Absent
    /\ Resolves(e.cwd) /\ ResolvedHead(e.cwd) = e
    => SourceMetadataAgrees(Generations(e.conv)[e.gen + 1], TrustedDomain, Minted(k))

(* MAX_HANDOFF_STEPS is never what ends a drive. *)
StepBoundSuffices ==
  \A k \in Client : At(k, "driving") => driver[k].steps < MAX_HANDOFF_STEPS

(* What runs while a driver attaches is the head the registry will resolve    *)
(* to when the attachment finishes.                                           *)
AttachRunsHead ==
  \A k \in Client : At(k, "attached") =>
    /\ transition # Absent
    /\ ResolvedHead(transition.cwd).profile = driver[k].target
    /\ \A p \in ChildOf(k) : running[p].thread = ResolvedHead(transition.cwd).thread

==============================================================================
