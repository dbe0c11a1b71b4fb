# Verification of Calcifer in TLA+

Calcifer runs coding agents under several provider profiles and moves a
conversation from one profile to another when the first runs out of usage.
This directory holds TLA+ modules translated from `src/`, the TLC
configurations that check them on small instances, and TLAPS proofs that hold
for every instance. `PROJECT.json` maps each definition to the lines it stands
for, lists the runs, the theorems, the mutants that show each property can
fail, the hazards of the code, and the findings.

    tlc -workers 2 -config MCConversations.cfg MCConversations
    tlapm Conversations_proofs.tla

## Inventory

| Component | State it keeps | Operations | What is hard | What makes it correct |
|---|---|---|---|---|
| Conversation registry (`conversations.rs`) | one JSON document: conversations (lineages of generations), workspace heads, pending launches, the active handoff transition | begin/finish launch, adopt, refresh, mark ambiguous, prepare/advance/commit/finish handoff | callers act on heads read earlier; launches overlap; every operation must respect an active transition | the document always passes its own validation; history is never rewritten; an ambiguous workspace stays so until the user chooses; a transition freezes its workspace |
| Registry storage (same file) | `conversations.json`, its schema 1 backup, a lock file | transact, transact_v2, load, save | kills and power loss between write, sync, rename and directory sync; a migration of two files | it always loads again; an answer given to a caller is true; the whole is one atomic document |
| Handoff kernel (`handoff_transaction.rs`) | none of its own: the journal is in the registry | one journal step per call | a fork request whose answer is lost cannot be repeated blindly | at most one fork per transition; eight steps suffice |
| Failover (`failover.rs`) | one process: leases, what it minted, what it selected | run, observe exhaustion, select, prepare, drive, recover | two processes, dead processes, children that outlive them | what is attached is the committed head; the fork is made of the recorded rollout |
| Rollout capability (`rollout_handoff.rs`) | descriptors and a fingerprint of one rollout | mint, revalidate, validate a fork or a candidate | a file that changes between check and use | a fork is attributed only to its source |
| Profile registry and leases (`profiles.rs`) | `profiles.json`, a removal barrier in its place, a removal sidecar, profile trees and tombstones, lock files | register, rename, remove, recover, lock, inherit | a removal of five durable steps in two directories; recovery that is itself interrupted; three kinds of locks | recovery always tells old from new; no row without its tree; removed means removed; one generation at a time per profile |
| Selection (`routing/selection.rs`, `selection_runtime.rs`) | none: pool, observations and probes | revalidate the source, select_once | stale observations, a pool that changes under it, reads stamped in another order than made | a target only on fresh evidence and current policy; exhausted only when every candidate is |
| Routing registry (`routing.rs`, `routing/*`, `commands/routing.rs`) | trust domains and pools with a revision | compare-and-swap edits, verification of members under leases | lost updates, members that change after they were verified | an enabled pool's members were verified by the command that enabled it |
| Usage observations (`usage_observations.rs`, `commands/status.rs`) | latest observation per profile | observe usage, failure or signal, view | observations out of order | an older reading never undoes a later signal |
| Reauthentication (`profiles/reauth.rs`) | staging home, journal, credential | begin, commit, recover | crash between any two renames | old or new credential, never neither |
| Launch capture (`commands/codex_conversation.rs`) | pending launch and inventories | launch, guardian, reconcile | a guardian that dies; a provider still running | a thread is attributed only when it is the one new thread |
| Supervisor (`providers/codex/supervisor/`) | anchor, coordinator, guardian; two transcripts of one protocol; leases A and B; the terminal | startup, gate, signals, suspension, shutdown, retention, recovery | deadlines, lost peers, frames that cross, death of any process | input only through the gate; an ordinary exit means all is released; the terminal ends cooked; nobody waits for ever |
| Codex adapter, monitor, relay; Claude adapter; CLI; update; ACL and descriptor crates | little or none | I/O and conversion | - | not modelled (see below) |

Components interact through file locks (a registry operation is one
transaction under its own lock), through profile lock files, whose descriptors
Codex children inherit or are passed, through the handoff coordinator lock
(`try_lock_handoff_coordinator`), which is held for one journal step, through
the socket between coordinator and guardian and the completion socket between
guardian and anchor, through signals, and through requests to a provider child
that may time out. Nothing else is shared.

## Modules

**Conversations** - the registry document. Variables `schema`, `conversations`,
`heads`, `pending` and `transition` are the fields of `ConversationDocument`;
`issued` remembers launch ids because uuids are never reused; `held` is what a
caller of `resolve_head`, `adopt` or `finish_handoff_attachment` keeps, which
may be stale when it is passed to `refresh_adopted` or `prepare_handoff`. There
is one action per public operation that writes, and one for each outcome of
`begin_launch` and `finish_launch`. `save` calls `validate_document` before it
writes; that call is deliberately *not* a guard of the actions. It is the
invariant `ValidDocument`, so what is verified is that the operations' own
checks suffice. Left out: timestamps, the handoff reason, adapter versions,
size limits and syntax checks of ids and paths (each only adds failures that
change nothing; a clock set back during a handoff is one of them and is listed
under hazards), and the fields of a rollout other than its file (device and
inode) and a fingerprint of the rest.

**RegistryStore** - the files under the registry: temporary, sync, rename,
directory sync, `CommitUncertain`, the schema 1 backup and its reuse by a
retried migration. A document is the sequence of operations in it. The file
system is external: a rename is visible at once, durable at the next directory
sync, and until then a power loss may keep or undo it for each name on its own;
an unsynced file is torn. **AtomicDocument** is the abstract promise: a
document that grows by whole operations, with an honest answer to each call.
`RegistryStore` implements it with `visible` the operations a reader sees now
and `stable` those the synced directory names.

**Handoff** - failover processes over the registry. It extends `Conversations`
and takes its actions unchanged, adding `driver` (one
`resume_supervised_with_failover` process each), `running` (a supervised
generation per profile), `server` (an app-server child that works on a fork),
`threads` (what the provider has), `coordinator`, and two counters, `requests`
and `kills`. A profile's lease is free when no driver holds it and no child
inherited it (`Free`). One action per boundary at which the code can be killed
or overtaken: a journal write, a lock, a request, an answer. The app-server may
make the fork before or after its driver dies or stops waiting. Errors,
refusals and explicit reconciliation all end the process with the journal left
as it is (`GiveUp`, `ForkFails`). A driver works in the directory of the thread
it resumes (`WorkingDirectory`) and never looks at the one of the transition it
steps. A recovery that read a transition of another workspace may therefore fork
its own thread on behalf of the transition it finds under the coordinator lock;
the fork is then no candidate there, and `AtMostOneFork` counts the forks in the
transition's workspace. `select_once` appears as its widest result:
any free profile this invocation has not used.

**Reauth** - one profile's credential replacement (`profiles/reauth.rs`). A
credential is a number that grows with each login or rotation. `home` is the
managed home (`auth.json` and the hidden old and new credentials of each
transaction), `journal` and `staging` the two other places; `onHome`,
`onProfile` and `onRoot` are the contents a power loss may leave of each
directory: everything since its last sync. One action per rename, unlink and
sync, so a kill falls between any two. Recovery is `Outcome`, the table of
`recover_journaled_reauth` over the digests. `raced` remembers that a provider
rotated its own credential while a journal was, or could come back, on disk.
When a command is killed, a Codex login goes on with the lease it inherited
(`child`), and a provider goes on either with a lease (a Codex run, whose
guardian holds its own) or without one (`orphan`: `run_claude`,
`commands/process.rs:60`, passes no lease descriptor and the lock files are
close-on-exec). An orphan rotates the credential at any step of a
reauthentication; `unleased` remembers what it wrote. `CheckOld`, `HideOld`,
`ShowNew` and `VerifyNew` are therefore steps of their own, and `Refuse` is every
digest comparison that finds the orphan's credential.

**Profiles** - the profile registry with removal (`profiles.rs`). `data` is the
data root (document, barrier, sidecar, its temporary), `trees` the provider root
(where each profile's tree is, which staging homes exist), `onData` and `onTrees`
what a power loss may leave of them. `lease`, `removalLock` and `registryLock`
are the three locks; each command is a program counter with what it read. Every
command starts with the recovery of a removal, then of reauthentications.
`Verdict` is the decision of `recover_incomplete_removal_journaled`. `changed`
says that the tree of an unfinished removal no longer agrees with the journal's
snapshot (manifest and entry count): somebody without the lease wrote into it
(`WriteTree`), or a power loss took unsynced writes back. Recovery compares the
tree before it leases it (`LockTree`), under all locks (`Settle`) and after it has
moved it back, a removal after it has entombed it (`TreeChanged`). Three history
variables record where recovery trusts what it finds: `passedData` and
`passedTrees` are the contents a power loss may still leave although a recovery
has gone on as if they were overwritten (`Settle`), and `undone` says that a power
loss has left one of them. The
barrier, sidecar, tombstone, publication, unlinking and dropping of the sidecar
each have an action for the change and one for the sync. The code that drops a
sidecar's temporary found alone has no action: `RemovalConverges` says that the
barrier always outlives it.

**Lifecycle** - the transcript of the supervisor's protocol
(`TerminalLifecycleValidator`): which command and event each of its states
accepts, the frames absorbed when a recovery or the end of the session crosses a
command, failures and the terminal report. It is a pure module: `AcceptCommand`
and `AcceptEvent` give the set of successors, empty when the frame is refused.
**Supervisor** - anchor, coordinator and guardian around it. Both ends hold a
transcript (`cv`, `gv`) and check every frame they send and receive; `down` and
`up` are the socket's two directions, `completion` the frame the anchor waits
for. The coordinator bootstraps, verifies the children, opens the gate, serves
signals by priority, stops and continues, and restores the terminal; every
switch and restore of the terminal may fail, before or after it took effect, any
number of times (`RestoreFails`, `CEnterRaw`), because the tty may have a new
foreground group (`terminal.rs:800`) or refuse the attributes. A coordinator whose
restore fails retains, and its retention parks whether its last attempt succeeds
or not (`LastRestore`); an anchor that cannot restore goes into the emergency or
parks (`ARelayStop`, `ARestore`). `unrestored` records which of the two gave up
with the terminal raw. The guardian starts children, serves commands, shuts down in order, retries once
when retained, and publishes; the anchor relays stops and contains a coordinator
whose guardian is gone. Left out: sizes, pids and process groups, exit statuses
beyond success, failure, signal and usage, test checkpoints, `Stop` (which the
coordinator never sends) and the `Cleanup` and `Restore` failures (never
emitted). A signal after the latches are frozen has no effect and is not sent. A
killed anchor orphans a stopped process group, which the kernel hangs up and
continues.

**Leases, UsageObservations, Routing, Selection** - the choice of a target.
`UsageObservations` is the cache: `observe_usage`, `observe_failure` and
`require_revalidation` as functions of an entry, `View` as what a reader at a
time sees. `Routing` is the definitions, with each mutation, their validation,
and the command that reads a snapshot, verifies members under leases and commits
if the revision is still the one it read. `Selection` runs a failover over both:
the generation ends, the source is leased, signalled and read again, the pool is
read, and one pass of `select_once` skips, reserves, probes or stops; `status`
commands read, stamp and record beside it. The provider's answer is any answer.
Left out: aliases (a rename only moves the revision), providers other than
Codex, audit rows, size limits, and the storage of both files, which is the
scheme `RegistryStore` checks. The clock is not set back. `due_idle_refresh`
adds nothing to what a `status` command may do, and `publish_latest_usage`
(`session.rs`), which would record readings of the active monitor, is dead code.
`Reserve` takes the cached check, the lease and the timestamp in one step. The
check only spares a read: an entry that turns exhausted after it is read all the
same, and `Probe` judges the entry the cache holds by then. Between lease and
timestamp lies only the identity probe. A failed identity check or a missing profile ends the selection
with an error, as a failed lock on the source does.

**MC...** modules are the instances for TLC. The **..._proofs** modules hold the
theorems about the module they are named after; **Removal_proofs** continues
**Profiles_proofs**, and **Handoff_proofs** builds on **Conversations_proofs**.

## Runs

| Run | Instance | Result |
|---|---|---|
| `conversations` | 2 workspaces, 2 profiles, 2 trust domains, 2 threads, 2 conversations, 2 launches, 2 rollout files with 2 fingerprints, lineages of at most 2, symmetry on the unordered sets | 90,900 states: `TypeOK`, `ValidDocument`, `LineageImmutable`, `TransitionFreezesWorkspace`, `AmbiguityIsSticky` |
| `registry_store` | 2 processes, 4 calls, each in either schema, any number of kills and power losses | 435,000 states: `TypeOK`, `AlwaysLoads`, `AnswersAreHonest`, `ImplementsAtomicDocument` |
| `handoff` | 2 drivers, 2 profiles, 3 threads, 1 kill, symmetry on drivers | 1,030,000 states: `HandoffTypeOK`, `AtMostOneFork`, `StepBoundSuffices`, `AttachRunsHead` |
| `reauth` | 2 commands, 2 transactions, 4 credentials, 2 kills, 1 power loss | 649,000 states: `TypeOK`, `CredentialNeverLost`, `ReportedIsDurable`, `RefusesOnlyRotation`, `OldNeverStrays`, `NeverRollsBack`, `JournalResolved` |
| `profiles` | 2 ids, 2 aliases, one profile registered at the start, 2 clients, 3 commands, up to 2 kills, and 1 power loss after one or both | 635,000 states: `TypeOK`, `RemovalConverges`, `NoDanglingRow`, `GoneStaysGone`, `AliasesUnique`, `LeaseProtects`, `CommandsEnd` |
| `supervisor` | HUP, INT, TSTP, WINCH; 2 signals; 2 kills or faults, of any process; any number of failed restores | 766,000 states: `TypeOK`, `InputOnlyThroughGate`, `ExitMeansReleased`, `CrossingFramesAbsorbed`, `TerminalRestored`, `CoordinatorSettles`, `GuardianSettles` |
| `selection` | 3 profiles, 2 pools, 2 trust domains, 1 failover, 1 status command, 2 routing commands, 3 instants | 1,900,000 states: `TypeOK`, `SignalHolds`, `SelectedOnEvidence`, `PolicyIsCurrent`, `NoFalseExhausted`, `EnabledAreVerified` |
| `handoff_rollout` | as `handoff` | violates `ForkUsesRecordedRollout` |
| `handoff_chain` | 3 profiles, 1 driver, no kill | violates `ExhaustedHeadCanFailOver` |
| `profiles_faults` | as `profiles` | violates `RemovalSurvivesFaults` |
| `supervisor_usage` | no signal, no fault | violates `UsageReachesFailover` |
| `selection_evidence` | as `selection` | violates `InLeaseReadAuthorises` |

What the properties say beyond their comments:

- In `reauth`, a power loss is quantified over, not only taken: the invariants
  range over `onHome` and `onProfile`, every content it could leave. A rollback
  does not sync the home, so a power loss can leave a stray new credential file;
  no property forbids that. Commands of other profiles answer Busy while a login
  holds a lease, and so does recovery.
- `RefusesOnlyRotation` and `JournalResolved` except `raced`: a launch does not
  look for a journal again once it has its lease (`commands/process.rs:65`), so
  a provider may rotate its credential under one, and recovery then refuses
  until a person decides.
- `NeverRollsBack` excepts what an orphan wrote without the lease: when it rotates
  between the check of the old digest (`reauth.rs:450`) and the rename that hides
  it (`:454`), or between the two renames (`:454`, `:459`), its credential is
  hidden, or overwritten by the plain rename, and the login's, which is older,
  takes its place. A login, a recovery and a rotation under the lease are never
  rolled back.
- `RemovalConverges` and `NoDanglingRow` hold for every combination of kills and
  power losses but one: a power loss that leaves what a recovery had taken for
  overwritten (`undone`). `RemovalSurvivesFaults` is the claim without that
  exception, and `profiles_faults` refutes it. A tree that was changed behind the
  barrier is the one refusal that remains, and the code means it.
- `CrossingFramesAbsorbed` names the refusals the protocol does have: a HUP,
  TERM, Suspend or Resume that crosses the end of a session is refused by the
  guardian, and its coordinator parks; a TerminalQuiesced is refused by a
  coordinator that awaits the answer to one of them.
- `TerminalRestored` names how a terminal stays raw: the coordinator was killed or
  the last attempt of its retention failed, and behind it the guardian had
  retained its shutdown (its own fallback restore failed, or it never came to it),
  or was killed with an anchor that was killed or failed in its turn. A guardian
  that exited without a retained completion proves a cooked terminal.
- `PolicyIsCurrent` speaks of the definitions as of the end of the generation: a
  pool disabled while its candidates are being probed is still used, because
  `select_once` keeps one snapshot.
- `SelectedOnEvidence` is what does hold where `InLeaseReadAuthorises` does not.

### Bounds, and why they are enough

- `MAX_LINEAGE_GENERATIONS` is 2 in the runs: a lineage has a source and a
  target, and the limit is reached, so the refusing branch of `commit_handoff`
  is exercised too. The proofs leave it arbitrary.
- Two conversations and two threads (three in `handoff`) allow a thread to be
  claimed twice and a fork to collide with a bound thread. Two fingerprints are
  enough to tell "the recorded rollout" from "a later one".
- `Client` has one member in the registry runs: a caller's held head becomes
  stale through the other operations, which need no caller. `handoff` has two.
- `MaxKills` = 1 kills one driver anywhere; drivers may also give up any number
  of times, which releases the same locks, so a recovery may be followed by
  another. `requests` is bounded by the journal's attempts.
- Four calls in `registry_store` allow a schema 1 write, a migration that fails
  or is cut off, its retry with a different document, and a write after it.
- `MCHandoff!MCView` hides the head a driver holds outside the two states in
  which it is read; it is overwritten before it is read again.
- `CHECK_DEADLOCK FALSE` everywhere but in `reauth`: the pools of fresh ids,
  threads and fingerprints run out, commands are bounded, a supervised session
  ends, and a workspace that nobody uses may rest.
- `reauth`: two transactions let one be left behind and another begin; two kills
  interrupt a recovery of an interrupted transaction; four credentials are two
  logins and one rotation after the first. Deadlock is checked: somebody may
  always run the next command.
- `profiles`: two ids give a second registration; three commands are two that
  race and one that recovers; two kills interrupt a recovery, and the power loss
  may follow either (`FaultPlan`). A power loss alone is a case of one after a
  kill, of a command that had changed nothing. Commands run out (`MaxCommands`).
- `supervisor`: one signal of each priority class, and a suspension that races
  another signal. Two troubles kill two processes, or kill one and let a deadline
  pass; failures of the terminal are not counted among them and have no bound.
  `Latched` and `Killable` name what may come.
- `selection`: three instants tell before, at and after the expiry of a reading;
  three profiles are a source, a candidate and another; one revision step is one
  edit by a rival command. `First` fixes the profile the failover starts from
  and each command is invoked once. A behaviour has routing commands or status
  commands, not both: the two meet in nothing but leases, which may be refused
  in any case. A third pool, created beside the two, is left to the proofs (and
  to the instance of 2,890,000 states their invariants were checked on).

### Fairness

Safety runs assume none. `Reauth`, `Profiles` and `Supervisor` state liveness
under weak fairness of each process's own steps, which a process that is not
killed or stopped goes on to take: what it waits for is a lock, a frame or the
end of a peer, each with a deadline in the supervisor.

- `Reauth!FairSpec`: each command runs on and somebody runs the next one, and a
  provider child that has the lease exits. Nothing is assumed of an orphan. Logins,
  rotations, kills and power losses are free.
- `Profiles!FairSpec`: each command runs on. A lock is granted when it is free
  and the lease is only tried, so weak fairness is enough.
- `Supervisor!FairSpec`: coordinator, guardian and anchor each run on. No end of
  a session, signal, continuation of a stopped job or deadline is assumed: a
  deadline is a fault that may come, and is relied on only where the peer cannot
  answer any more, being retained (`CStarved`) or stopped (`GRestoreStarved`).

## Proofs

Eight modules hold the proofs; each theorem is for every value of the constants
that satisfies the named assumptions. Each rests on an inductive invariant that
TLC checked on an instance first, on the states given, then on one lemma per
action (`Init` establishes it, each action keeps it) and on a last step that
derives the property.

| Module | Theorems (property) | Inductive invariant (states TLC checked) |
|---|---|---|
| `Conversations_proofs` | `TypeCorrect`, `DocumentAlwaysValid` (`ValidDocument`), `WorkspaceFrozen` (`TransitionFreezesWorkspace`), `HistoryImmutable` (`LineageImmutable`), `AmbiguitySticky` (`AmbiguityIsSticky`) | `DocumentInv` (90,900) |
| `RegistryStore_proofs` | `StoreTypeCorrect`, `RegistryAlwaysLoads`, `AnswersHonest`, `FilesImplementAtomicDocument` (the refinement) | `StoreInv` (435,000) |
| `Handoff_proofs` | `HandoffTypeCorrect`, `FailoverKeepsDocumentValid`, `ForkedAtMostOnce` (`AtMostOneFork`), `AttachedIsHead` (`AttachRunsHead`) | `HandoffInv` (1,030,000) |
| `Reauth_proofs` | `ReauthTypeCorrect`, `CredentialKept` (`CredentialNeverLost`), `ReportedKept` (`ReportedIsDurable`), `RefusalsExplained` (`RefusesOnlyRotation`), `OldKeptWithJournal` (`OldNeverStrays`), `OnlyForward` (`NeverRollsBack`) | `ReauthInv` (649,000) |
| `Profiles_proofs` | `ProfilesTypeCorrect`, `NoSharedAlias` (`AliasesUnique`), `LeasedIsKept` (`LeaseProtects`), `ReportedRemovalStays` (`GoneStaysGone`) | `LedgerInv` (635,000) |
| `Removal_proofs` | `RemovalsConverge` (`RemovalConverges`), `RowsHaveTrees` (`NoDanglingRow`) | `LedgerInv /\ (undone \/ RemovalInv)` (635,000) |
| `Selection_proofs` | `SelectionInvariant`, `SelectionTypeCorrect`, `SignalsHold` (`SignalHolds`), `TargetsHaveEvidence` (`SelectedOnEvidence`), `PoolsAreCurrent` (`PolicyIsCurrent`), `EnabledPoolsVerified` (`EnabledAreVerified`), `ExhaustedIsTrue` (`NoFalseExhausted`) | `SelectionInv`, `BoundsInv` (2,890,000 each) |
| `Supervisor_proofs` | `SessionInvariant`, `SupervisorTypeCorrect`, `ReleaseOnExit` (`ExitMeansReleased`), `AttemptsRecorded`, `TerminalComesBack` (`TerminalRestored`), `TurnsAreTaken`, `InputGated` (`InputOnlyThroughGate`), `TranscriptsAgree`, `CrossingAbsorbed` (`CrossingFramesAbsorbed`) | `SessionInv`, `LastAttempts`, `GateInv`, `CrossInv` (766,000 each) |

The arguments:

- **Conversations.** `DocumentInv == TypeOK /\ ValidDocument`. Validation is
  inductive only together with the types: every update is of a function or a
  record whose domain the types give. Within it the clauses need each other.
  That committing appends a generation with a fresh thread needs
  `ThreadsBoundOnce` and the check in `commit_handoff`; that the target's trust
  domain agrees with generation 0 needs `TrustDomainValid` of the source, which
  `TransitionValid` ties to the journal; that no binding moves the head of a
  workspace in transition needs `TransitionValid`'s "no pending launch there",
  since `finish_launch` removes its launch before it binds. The three action
  properties are proved step by step from it.
- **RegistryStore.** A power loss may undo any unsynced rename, so the invariant
  is about the whole history of a name: every file it may come back to is synced
  (`FilesSynced`), the documents grow along the history (`FilesOrdered`), and a
  document that names a backup has it in every history that keeps the document
  (`BackupsKept`). `OneWriter` and `WriterInStep` tie the lock holder's program
  counter to what its next rename will add, and `AnswersJustified` each answer to
  the durable or the visible document. The refinement maps `visible` to the
  operations a reader sees and `stable` to those of the synced directory: a
  rename is an abstract step, a directory sync makes `stable` catch up, a power
  loss moves `visible` back to a point that is not before `stable`, and all the
  rest stutters.
- **Handoff.** The registry's lemmas are reused for its actions, so validity of
  the document carries over to the composition. On top: leases exclude each other
  (`LeasesExclusive`: a driver, its generation or its app-server), each driver is
  in step with the journal it last wrote or read (`DriverInStep`), and forks are
  counted (`ForksCounted`): an app-server that may still make a fork means that
  none was made, so the retry, which needs the lease that app-server holds, cannot
  make a second. Forks of earlier generations never meet the transition in flight
  (`ForksFiled`), because the source generation only grows.
- **Reauth.** All parts quantify over what a power loss may leave: a hidden old
  credential has a durable journal that names it, and a journal leads, by the
  table of `recover_journaled_reauth`, to a credential that is in the home in each
  content it may have. The command with the lease is tied to the files by its next
  step (`HolderInStep`). An orphan changes `auth.json` under these facts: the digests
  agree with the journal unless `raced`, and what a command in its renames finds
  live is what it checked, or was written by an orphan (`LiveIs`), because the
  command holds the lease. `OnlyForward` rests on the latter.
- **Profiles.** `LedgerInv` ties the three locks to the commands' positions and
  each command's snapshot to the files it will write; that removed ids are named by
  no document a power loss may bring back (`GoneIsUnnamed`) needs the sync that
  precedes the report. `RemovalInv` says that each combination of document,
  barrier, sidecar and tree that may be left is one `Verdict` decides, with a
  case for each step of a removal. It speaks of the contents that may be left and
  that no recovery has passed over (`onData` without `passedData`, `onTrees` without
  `passedTrees`): a recovery that finds a removal published by a killed command
  deletes the tree without a sync of the data root, and from there on the old
  document no longer goes with the tree. A power loss either leaves a content the
  invariant speaks of, or sets `undone`. There is no hypothesis on the faults.
- **Selection.** Each cache entry remembers the latest signal and the latest
  exhaustion that reached it (`CacheInStep`), in whatever order stamps arrive; a
  selector holds the lease of what it reserved and a pool read since its generation
  ended (`SelectorInStep`); an editor's verified members have not left its lease
  and its snapshot has the revision it will compare (`EditorInStep`).
  Type correctness needs `BoundsInv` beside it: every entry passes `validate`
  whatever it replaces (`IsStored`), which for the retry time rests on the capped
  shift of `retry_at`; and a pass has judged as many candidates as its offset says
  (`SelectorCounts`), of a pool that names no profile twice, so that its counters
  never outgrow the profiles.
- **Supervisor.** The argument follows the raw terminal. `StaysCooked` says that
  the terminal is cooked and cannot become raw again: the coordinator is winding
  down, or has not been told `Ready` and no `Ready` is on the wire. A guardian in
  its bootstrap or past the restore, and a `TerminalRestored` on the wire, imply
  it; a coordinator taken for lost has closed its end; an open completion channel
  means that the guardian has not ended. Every step of the nineteen guardian
  actions only needs those facts of the two other processes. Nothing is claimed of
  the terminal behind an end that parked; `LastAttempts` says instead that it is
  cooked or the end is in `unrestored`, but for an anchor that parked on a retained
  completion and never tried.
  For the gate, `GateInv` pairs the two ends until the guardian shuts down: the
  coordinator stands where its transcript says (`DriveInStep`), and either nothing
  is on the socket, or one command, or the one event that answers it, each with the
  few pairs of control points it can meet (`Paired`). `InputOnlyThroughGate` alone
  is not inductive: that an `InputGateOpened` finds the guardian active, and not
  already suspended, needs the turn; that a signal returns to the loop it left
  needs `SignalSide`, which relates the coordinator's `was_suspended` to the
  guardian's loop.
  For the frames that cross, `CrossInv` carries the agreement of the two
  transcripts through the shutdown, where the ends no longer take turns.
  `Synchronous` is the time before: one transcript, of which one side may have
  seen one frame more. Once the guardian announces the end, at most one command
  may have crossed the announcement (`CommandsCross`, with the recovery allowance
  or the superseded gate that lets the guardian absorb it), and `FramesCross`
  names where the coordinator can be: it has not heard the announcement
  (`Unheard`, behind at most one earlier answer), a forwarded HUP or TERM is the
  announcement (`Forwarded`), it has heard it (`Heard`), or it is past the
  quiescence and reads the last frames in order (`Restored`). In each, both
  transcripts record the same children, gate, cause and failure as soon as the
  frames between them are read (`SameRecord`), so the coordinator's
  `validate_terminal` accepts the report the guardian's accepted. The refusals
  that remain are met at two places only: the guardian waiting for the restore
  and a coordinator that has not heard a natural exit or a usage limit.

Assumptions, all evaluated by TLC in each run that uses the module: the bounds are
natural numbers; threads and profiles are ordered like numbers, and a registry has
finitely many profiles; the markers
`Absent`, `None`, `Nobody` and `Free` are none of the values they stand beside;
callers of the registry bind with known lifecycles and pass sequences of threads as
baselines; `Handoff` starts from finitely many typed user threads and an initial
fingerprint; `Profiles` starts from registered profiles with distinct aliases;
`Routing` starts from well-formed, valid definitions (`IsDefinitions`), as
`storage.rs` loads no others.

Only model-checked:

- liveness (`JournalResolved`, `CommandsEnd`, `CoordinatorSettles`,
  `GuardianSettles`): fairness and `ENABLED` are outside what the prover does;
- `StepBoundSuffices`: true of the instance, not of every one. A driver that read
  an older transition may go on to step a later one, so that with enough
  transitions in between its step count is not bounded by one journal;
- the properties of the runs that find a violation, which are false.

## Findings

1. **Recovery may fork a rollout that was never journalled**
   (`handoff_rollout`). A driver dies in `source_stopped`; the source thread is
   run again, which nothing forbids, since `spawn_supervised_exact_resume` does
   not read the registry; `recover_handoff` mints the rollout it finds now
   (`failover.rs:539`) and `request_fork` compares only with that. ADR 0001:95
   asks that the source rollout be verified unchanged, and
   `handoff_transaction.rs:134` scopes each call to the recorded rollout.
2. **A removal that is killed and then loses power can become unrecoverable**
   (`profiles_faults`). A remover is killed after it renamed the new document into
   place and before it synced the data root. The next command's recovery finds the
   removal visible and deletes the tree without that sync (`profiles.rs:1051`); the
   power fails and the barrier is back, without its tree, so recovery refuses
   (`profiles.rs:1003`). In the same way a recovery that finds the tree moved back
   by an earlier, killed one lifts sidecar and barrier without syncing the provider
   root (`profiles.rs:1007`), and the tombstone may come back without its journal.
   `profiles.rs:846` says that recovery converges to a complete old or new state,
   and `README.md:227-229` of the repository says the same.
3. **A conversation that has worked after a handoff cannot be handed off
   again** (`handoff_chain`). Its generation's metadata is the rollout of the
   moment of the fork, and `prepare_handoff` requires the present rollout to
   equal it (`conversations.rs:815`), against the loop that
   `failover.rs:207` describes.
4. **A usage limit never reaches failover** (`supervisor_usage`). The guardian
   announces `UsageExhausted` while the coordinator is in `run_active`, whose
   match answers every event but `TerminalQuiesced` and `Failed` with a protocol
   error (`coordinator.rs:1756`). The transcript accepts the frame; the loop does
   not. The coordinator parks with lease A and the status 75 that `failover.rs`
   waits for does not come. (`Handoff` and `Selection` take the reported limit
   as given, so they describe the code behind this step.)
5. **A reading from before the reservation can authorise a target**
   (`selection_evidence`). The selector stamps before its read
   (`selection_runtime.rs:117`), `status` stamps after its read and after its
   lease is gone (`commands/status.rs:307`), and the cache keeps the later stamp.
   The selector's own reading, made under the lease, may therefore be ignored,
   and the view it gets back says "available". `docs/architecture.md:676` says
   the cache never substitutes for the in-lease revalidation.

Behaviours met on the way that no quoted line contradicts, or contradicts
squarely enough, are under `hazards` in `PROJECT.json` without a property: a
baseline of two or more target threads, which `capture_target_baseline` keeps in
the provider's update order (`failover.rs:788`) and `record_fork_intent` refuses
unless it ascends (`conversations.rs:2288`), so that the handoff stays in
`source_stopped`; a reauthentication killed between the scan and the lease of a
removal; the anchor that kills a parked coordinator after the guardian's death. Also in `Supervisor`: the wait for the restored
terminal that times out is called recoverable, but the transcript it leaves is
poisoned and the retry parks; a guardian whose coordinator is lost after
`TerminalRestored` exits without publishing, and the anchor parks though all is
released.

## Not modelled

- Byte and message relays (`remote.rs`, the terminal pumps), JSON framing
  (`json.rs`, frame encoding in `protocol.rs`), output, command-line parsing:
  conversion and I/O.
- Process creation, descriptor isolation, process groups, ACLs
  (`process.rs`, `provider.rs`, `launcher.rs`, `transfer.rs`, the crates): system
  calls. The models take from them that a supervised generation, an app-server and a
  Codex login hold a lease of their profile for as long as they live, that a Claude
  child of `calcifer run` has none once its command is killed, that a closed or reset socket is seen, and that a killed process's locks go.
- Ownership, mode and link checks of trees and files, the mount and identity
  checks of removal, provider identity markers: each only adds a refusal without
  effect.
- Self update (network, signatures), the compatibility gate and packaged smoke
  tests (`packaged_smoke.rs`, `handoff_compat`, fixtures: test tooling), and the
  Claude adapter (no state).

These are most of the repository's lines: the test modules inside the source
files, the smoke tests and the system-call layers are several times the size of
the state machines above, so the map covers a small share of the whole.

## Plan

Done: Conversations and its proofs, RegistryStore over AtomicDocument, Handoff,
Reauth, Profiles, Lifecycle and Supervisor, UsageObservations, Routing and
Selection.

Proved: all but the properties named under "Only model-checked".

Next, in order:

1. **LaunchCapture** - the guardian around a launch
   (`commands/codex_conversation.rs`): inventories before and after, its death,
   reconciliation by a later command while the provider may still run; composed
   with Conversations. Property: a bound thread is one that this launch made.
2. Progress of a transition in Handoff, with the lineage limit and explicit
   reconciliation as the places where it can stop.
