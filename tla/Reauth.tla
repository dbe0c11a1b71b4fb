------------------------------- MODULE Reauth -------------------------------
(***************************************************************************)
(* Replacing the credential of one profile (src/profiles/reauth.rs).       *)
(*                                                                         *)
(* `auth reauth' takes the profile lease, runs the official login in a     *)
(* staging home of its own, journals the digests of the old and the new    *)
(* credential and swaps the files by two renames in the profile's home.    *)
(* Every command on a profile first recovers what an earlier one left.     *)
(* A command may be killed, or fail, between any two operations on the     *)
(* file system.  A Codex login inherits the lease and the guardian of a    *)
(* Codex run has its own, so either may outlive the command and keep it.   *)
(* A Claude child, and a Codex whose guardian is killed too, outlives it   *)
(* without the lease and goes on writing to the profile's home.            *)
(*                                                                         *)
(* A power loss leaves each directory as it was after any operation since  *)
(* it was last synced, each directory independently of the others: on*     *)
(* holds the contents that may be left.  File contents are synced before   *)
(* the rename that publishes them.  A rename within a directory is atomic. *)
(*                                                                         *)
(* A credential is a number, higher when issued later, and stands for its  *)
(* digest too.  The identity check before the commit may fail like a       *)
(* login; schema, names, modes and links of the files are left out.        *)
(***************************************************************************)
EXTENDS Integers, FiniteSets

CONSTANTS
  Client,       \* concurrent Calcifer commands on this profile
  MaxTx,        \* bound: transactions that create a staging home
  MaxCred,      \* bound: credentials ever issued
  MaxKills,     \* bound: commands killed
  MaxPowerLoss, \* bound: power losses
  Nobody        \* no client

ASSUME ReauthAssumption ==
  /\ MaxTx \in Nat /\ MaxCred \in Nat \ {0}
  /\ MaxKills \in Nat /\ MaxPowerLoss \in Nat
  /\ Nobody \notin Client

VARIABLES
  home, onHome,       \* the profile's home: live and replacement credentials
  journal, onProfile, \* the journal in the profile directory
  staging, onRoot,    \* transactions with a staging home in the provider root
  lease,              \* the client that holds the profile lease, or Nobody
  child,              \* a child that outlived its parent and holds the lease
  orphan,             \* a provider outlived its command without the lease
  client,             \* Client -> state of the command
  transactions,       \* transaction ids given out
  issued,             \* credentials issued so far
  reported,           \* newest credential whose commit was reported
  raced,              \* a journal's digests may miss a provider's own rotation
  unleased,           \* credentials written by an orphan
  kills, powerLosses

files == <<home, onHome, journal, onProfile, staging, onRoot>>
faults == <<kills, powerLosses, orphan, unleased>>
vars == <<files, lease, child, client, transactions, issued, reported, raced, faults>>

Tx == 1..MaxTx
Absent == 0
Cred == 1..MaxCred
OptCred == Cred \cup {Absent}

------------------------------------------------------------------------------
(* Files *)

(* auth.json, and per transaction the replacement and the hidden old one.   *)
Home == [auth : OptCred, new : [Tx -> OptCred], old : [Tx -> OptCred]]

Journal == [tx : Tx, old : Cred, new : Cred]
NoJournal == [tx |-> Absent, old |-> Absent, new |-> Absent]

ChangeHome(h) == home' = h /\ onHome' = onHome \cup {h}
ChangeJournal(j) == journal' = j /\ onProfile' = onProfile \cup {j}
ChangeStaging(s) == staging' = s /\ onRoot' = onRoot \cup {s}

SameHome == UNCHANGED <<home, onHome>>
SameJournal == UNCHANGED <<journal, onProfile>>
SameStaging == UNCHANGED <<staging, onRoot>>

(* Mutant of SyncHome: the sync is left out. *)
SkipSyncHome == SameHome

SyncHome == onHome' = {home} /\ UNCHANGED home
SyncProfile == onProfile' = {journal} /\ UNCHANGED journal
SyncRoot == onRoot' = {staging} /\ UNCHANGED staging

------------------------------------------------------------------------------
(* Commands *)

(* Where a command is: the operation it does next.                          *)
Pc == {"idle", "preflight", "found", "recover", "orphans", "create", "login",
       "publish", "sync_journal", "place", "sync_place", "check", "hide", "show",
       "verify", "sync_show", "drop_old", "drop_new", "sync_drop", "rollback",
       "drop_staging", "sync_root", "drop_journal", "sync_end", "run"}

(* Why it recovers, or that it commits: what follows when it is done.       *)
Job == {"none", "preflight", "begin", "commit"}

Command == [pc : Pc, job : Job, j : Journal \cup {NoJournal}, tx : Tx \cup {Absent}]
Idle == [pc |-> "idle", job |-> "none", j |-> NoJournal, tx |-> Absent]

Goto(c, pc) == client' = [client EXCEPT ![c].pc = pc]

Leased == lease # Nobody \/ child # "none"

(* A command ends and its lease with it.                                    *)
End(c) ==
  /\ client' = [client EXCEPT ![c] = Idle]
  /\ lease' = IF lease = c THEN Nobody ELSE lease

Init ==
  /\ home = [auth |-> 1, new |-> [t \in Tx |-> Absent], old |-> [t \in Tx |-> Absent]]
  /\ journal = NoJournal
  /\ staging = {}
  /\ onHome = {home} /\ onProfile = {journal} /\ onRoot = {staging}
  /\ lease = Nobody
  /\ child = "none" /\ orphan = FALSE
  /\ client = [c \in Client |-> Idle]
  /\ transactions = 0
  /\ issued = 1
  /\ reported = 1
  /\ raced = FALSE /\ unleased = {}
  /\ kills = 0 /\ powerLosses = 0

counters == <<transactions, issued, reported, raced, faults>>

(* recover_incomplete_reauth, first half: the scan that finds a journal or  *)
(* a staging home.                                                          *)
Preflight(c) ==
  /\ client[c].pc = "idle"
  /\ Goto(c, IF journal # NoJournal \/ staging # {} THEN "preflight" ELSE "found")
  /\ UNCHANGED <<files, lease, child, counters>>

(* Second half: the affected profile's lease, or Busy.                      *)
LockForRecovery(c) ==
  /\ client[c].pc = "preflight"
  /\ ~Leased
  /\ lease' = c
  /\ client' = [client EXCEPT ![c].pc = "recover", ![c].job = "preflight"]
  /\ UNCHANGED <<files, child, counters>>

Busy(c) ==
  /\ client[c].pc \in {"preflight", "found"}
  /\ Leased
  /\ client' = [client EXCEPT ![c] = Idle]
  /\ UNCHANGED <<files, lease, child, counters>>

(* begin_*_reauthentication takes the lease and recovers once more.         *)
LockForReauth(c) ==
  /\ client[c].pc = "found"
  /\ ~Leased
  /\ transactions < MaxTx
  /\ lease' = c
  /\ client' = [client EXCEPT ![c].pc = "recover", ![c].job = "begin"]
  /\ UNCHANGED <<files, child, counters>>

(* A launch takes the lease, does not look for a journal again, and runs    *)
(* the provider if the home has a credential.                               *)
LockForRun(c) ==
  /\ client[c].pc = "found"
  /\ ~Leased
  /\ home.auth # Absent
  /\ lease' = c
  /\ Goto(c, "run")
  /\ UNCHANGED <<files, child, counters>>

(* Mutants of Outcome: a swap cut off between its renames is not known, and *)
(* a journal is rolled back only if there is a replacement to remove.       *)
OutcomeWithoutComplete(h, j) ==
  IF h.old[j.tx] \notin {Absent, j.old} \/ h.new[j.tx] \notin {Absent, j.new} THEN "required"
  ELSE IF h.auth = j.new THEN "finish"
  ELSE IF h.auth = j.old /\ h.old[j.tx] = Absent THEN "rollback"
  ELSE "required"

OutcomeNeedsReplacement(h, j) ==
  IF h.auth = j.new THEN "finish"
  ELSE IF h.auth = j.old /\ h.new[j.tx] = j.new THEN "rollback"
  ELSE IF h.auth = Absent /\ h.old[j.tx] = j.old /\ h.new[j.tx] = j.new THEN "complete"
  ELSE "required"

(* What recover_journaled_reauth decides from the journal and the digests.  *)
Outcome(h, j) ==
  LET old == h.old[j.tx]
      new == h.new[j.tx]
  IN  IF old \notin {Absent, j.old} \/ new \notin {Absent, j.new} THEN "required"
      ELSE IF h.auth = j.new THEN "finish"
      ELSE IF h.auth = j.old /\ old = Absent THEN "rollback"
      ELSE IF h.auth = Absent /\ old = j.old /\ new = j.new THEN "complete"
      ELSE "required"

(* recover_reauth_under_lease.                                              *)
RecoverOrphans(c) ==
  /\ client[c].pc = "recover" /\ journal = NoJournal
  /\ ChangeStaging({})
  /\ Goto(c, "orphans")
  /\ SameHome /\ SameJournal
  /\ UNCHANGED <<lease, child, counters>>

RecoverFinish(c) ==
  /\ client[c].pc = "recover" /\ journal # NoJournal
  /\ Outcome(home, journal) = "finish"
  /\ client' = [client EXCEPT ![c].pc = "drop_old", ![c].j = journal]
  /\ UNCHANGED <<files, lease, child, counters>>

RecoverRollback(c) ==
  /\ client[c].pc = "recover" /\ journal # NoJournal
  /\ Outcome(home, journal) = "rollback"
  /\ client' = [client EXCEPT ![c].pc = "rollback", ![c].j = journal]
  /\ UNCHANGED <<files, lease, child, counters>>

(* Mutant of RecoverComplete: the hidden old credential is put back. *)
RecoverOld(c) ==
  /\ client[c].pc = "recover" /\ journal # NoJournal
  /\ Outcome(home, journal) = "complete"
  /\ ChangeHome([home EXCEPT !.auth = journal.old, !.old[journal.tx] = Absent])
  /\ client' = [client EXCEPT ![c].pc = "rollback", ![c].j = journal]
  /\ SameJournal /\ SameStaging
  /\ UNCHANGED <<lease, child, counters>>

(* The rename that completes a swap is the same as in a commit.             *)
RecoverComplete(c) ==
  /\ client[c].pc = "recover" /\ journal # NoJournal
  /\ Outcome(home, journal) = "complete"
  /\ client' = [client EXCEPT ![c].pc = "show", ![c].j = journal]
  /\ UNCHANGED <<files, lease, child, counters>>

RecoveryRequired(c) ==
  /\ client[c].pc = "recover" /\ journal # NoJournal
  /\ Outcome(home, journal) = "required"
  /\ End(c)
  /\ UNCHANGED <<files, child, counters>>

(* Mutant of Done: recovery reports as well, a journal or none. *)
DoneReportsAll(c) ==
  /\ lease' = IF client[c].job = "begin" THEN lease ELSE Nobody
  /\ client' = [client EXCEPT ![c] =
       IF @.job = "begin" THEN [Idle EXCEPT !.pc = "create"]
       ELSE IF @.job = "preflight" THEN [Idle EXCEPT !.pc = "found"]
       ELSE Idle]
  /\ reported' = client[c].j.new

(* Recovery is over: the preflight lets go of the lease, begin goes on, and *)
(* a commit is reported.                                                    *)
Done(c) ==
  /\ lease' = IF client[c].job = "begin" THEN lease ELSE Nobody
  /\ client' = [client EXCEPT ![c] =
       IF @.job = "begin" THEN [Idle EXCEPT !.pc = "create"]
       ELSE IF @.job = "preflight" THEN [Idle EXCEPT !.pc = "found"]
       ELSE Idle]
  /\ reported' = IF client[c].job = "commit" THEN client[c].j.new ELSE reported

SyncOrphans(c) ==
  /\ client[c].pc = "orphans"
  /\ SyncRoot /\ SameHome /\ SameJournal
  /\ Done(c)
  /\ UNCHANGED <<child, transactions, issued, raced, faults>>

------------------------------------------------------------------------------
(* A transaction *)

CreateStaging(c) ==
  /\ client[c].pc = "create"
  /\ home.auth # Absent
  /\ transactions' = transactions + 1
  /\ staging' = staging \cup {transactions + 1}
  /\ onRoot' = {staging'}
  /\ client' = [client EXCEPT ![c].pc = "login", ![c].tx = transactions + 1]
  /\ SameHome /\ SameJournal
  /\ UNCHANGED <<lease, child, issued, reported, raced, faults>>

(* The official login, in the staging home; the identities are equal.       *)
Login(c) ==
  /\ client[c].pc = "login"
  /\ issued < MaxCred
  /\ issued' = issued + 1
  /\ client' = [client EXCEPT ![c].pc = "publish", ![c].job = "commit",
                  ![c].j = [tx |-> client[c].tx, old |-> home.auth, new |-> issued + 1]]
  /\ UNCHANGED <<files, lease, child, transactions, reported, raced, faults>>

(* abort, or an error before the transaction is preserved: the staging home *)
(* goes when the pending transaction is dropped, the journal does not.      *)
Abandon(c) ==
  /\ client[c].pc \in {"login", "publish", "sync_journal"}
  /\ ChangeStaging(staging \ {client[c].tx})
  /\ End(c)
  /\ SameHome /\ SameJournal
  /\ UNCHANGED <<child, counters>>

PublishJournal(c) ==
  /\ client[c].pc = "publish"
  /\ journal = NoJournal
  /\ ChangeJournal(client[c].j)
  /\ raced' = (raced \/ \E h \in onHome : h.auth # client[c].j.old)
  /\ Goto(c, "sync_journal")
  /\ SameHome /\ SameStaging
  /\ UNCHANGED <<lease, child, transactions, issued, reported, faults>>

(* Mutant of SyncJournal: the files are swapped before the journal is durable. *)
SkipSyncJournal(c) ==
  /\ client[c].pc = "sync_journal"
  /\ SameHome /\ SameJournal /\ SameStaging
  /\ Goto(c, "place")
  /\ UNCHANGED <<lease, child, counters>>

SyncJournal(c) ==
  /\ client[c].pc = "sync_journal"
  /\ SyncProfile /\ SameHome /\ SameStaging
  /\ Goto(c, "place")
  /\ UNCHANGED <<lease, child, counters>>

PlaceCandidate(c) ==
  /\ client[c].pc = "place"
  /\ ChangeHome([home EXCEPT !.new[client[c].j.tx] = client[c].j.new])
  /\ Goto(c, "sync_place")
  /\ SameJournal /\ SameStaging
  /\ UNCHANGED <<lease, child, counters>>

SyncCandidate(c) ==
  /\ client[c].pc = "sync_place"
  /\ SyncHome /\ SameJournal /\ SameStaging
  /\ Goto(c, "check")
  /\ UNCHANGED <<lease, child, counters>>

(* The digests are compared before the first rename and not again at it.    *)
CheckOld(c) ==
  /\ client[c].pc = "check"
  /\ home.new[client[c].j.tx] = client[c].j.new
  /\ home.auth = client[c].j.old
  /\ Goto(c, "hide")
  /\ UNCHANGED <<files, lease, child, counters>>

HideOld(c) ==
  /\ client[c].pc = "hide"
  /\ ChangeHome([home EXCEPT !.auth = Absent, !.old[client[c].j.tx] = home.auth])
  /\ Goto(c, "show")
  /\ SameJournal /\ SameStaging
  /\ UNCHANGED <<lease, child, counters>>

(* A plain rename: what an orphan wrote since the old one was hidden goes.  *)
ShowNew(c) ==
  /\ client[c].pc = "show"
  /\ ChangeHome([home EXCEPT !.auth = home.new[client[c].j.tx],
                             !.new[client[c].j.tx] = Absent])
  /\ Goto(c, "verify")
  /\ SameJournal /\ SameStaging
  /\ UNCHANGED <<lease, child, counters>>

VerifyNew(c) ==
  /\ client[c].pc = "verify"
  /\ home.auth = client[c].j.new
  /\ Goto(c, "sync_show")
  /\ UNCHANGED <<files, lease, child, counters>>

SyncNew(c) ==
  /\ client[c].pc = "sync_show"
  /\ SyncHome /\ SameJournal /\ SameStaging
  /\ Goto(c, "drop_old")
  /\ UNCHANGED <<lease, child, counters>>

(* finish_committed_reauth.                                                 *)
DropOld(c) ==
  /\ client[c].pc = "drop_old"
  /\ home.auth = client[c].j.new
  /\ home.old[client[c].j.tx] \in {Absent, client[c].j.old}
  /\ ChangeHome([home EXCEPT !.old[client[c].j.tx] = Absent])
  /\ Goto(c, "drop_new")
  /\ SameJournal /\ SameStaging
  /\ UNCHANGED <<lease, child, counters>>

DropNew(c) ==
  /\ client[c].pc = "drop_new"
  /\ home.new[client[c].j.tx] \in {Absent, client[c].j.new}
  /\ ChangeHome([home EXCEPT !.new[client[c].j.tx] = Absent])
  /\ Goto(c, "sync_drop")
  /\ SameJournal /\ SameStaging
  /\ UNCHANGED <<lease, child, counters>>

(* Mutant of SyncDrop: the journal goes before the old credential surely has. *)
SkipSyncDrop(c) ==
  /\ client[c].pc = "sync_drop"
  /\ SameHome /\ SameJournal /\ SameStaging
  /\ Goto(c, "drop_staging")
  /\ UNCHANGED <<lease, child, counters>>

SyncDrop(c) ==
  /\ client[c].pc = "sync_drop"
  /\ SyncHome /\ SameJournal /\ SameStaging
  /\ Goto(c, "drop_staging")
  /\ UNCHANGED <<lease, child, counters>>

(* rollback_unpublished_reauth: the home is not synced here.                *)
Rollback(c) ==
  /\ client[c].pc = "rollback"
  /\ home.auth = client[c].j.old
  /\ home.new[client[c].j.tx] \in {Absent, client[c].j.new}
  /\ ChangeHome([home EXCEPT !.new[client[c].j.tx] = Absent])
  /\ Goto(c, "drop_staging")
  /\ SameJournal /\ SameStaging
  /\ UNCHANGED <<lease, child, counters>>

(* A digest is not the one expected: the command ends, the journal stays.   *)
Refuse(c) ==
  LET j == client[c].j
  IN  /\ \/ client[c].pc \in {"check", "rollback"} /\ home.auth # j.old
         \/ client[c].pc \in {"verify", "drop_old"} /\ home.auth # j.new
         \/ client[c].pc = "drop_old" /\ home.old[j.tx] \notin {Absent, j.old}
      /\ End(c)
      /\ UNCHANGED <<files, child, counters>>

DropStaging(c) ==
  /\ client[c].pc = "drop_staging"
  /\ ChangeStaging(staging \ {client[c].j.tx})
  /\ Goto(c, "sync_root")
  /\ SameHome /\ SameJournal
  /\ UNCHANGED <<lease, child, counters>>

SyncDropped(c) ==
  /\ client[c].pc = "sync_root"
  /\ SyncRoot /\ SameHome /\ SameJournal
  /\ Goto(c, "drop_journal")
  /\ UNCHANGED <<lease, child, counters>>

DropJournal(c) ==
  /\ client[c].pc = "drop_journal"
  /\ ChangeJournal(NoJournal)
  /\ Goto(c, "sync_end")
  /\ SameHome /\ SameStaging
  /\ UNCHANGED <<lease, child, counters>>

SyncEnd(c) ==
  /\ client[c].pc = "sync_end"
  /\ SyncProfile /\ SameHome /\ SameStaging
  /\ Done(c)
  /\ UNCHANGED <<child, transactions, issued, raced, faults>>

------------------------------------------------------------------------------
(* The provider *)

(* A provider refreshes its own credential while it runs.                   *)
Rotate ==
  /\ \/ /\ \/ lease # Nobody /\ client[lease].pc = "run"
           \/ child = "provider"
        /\ UNCHANGED unleased
     \/ /\ orphan
        /\ unleased' = unleased \cup {issued + 1}
  /\ issued < MaxCred
  /\ issued' = issued + 1
  /\ ChangeHome([home EXCEPT !.auth = issued + 1])
  /\ raced' = (raced \/ \E j \in onProfile : j # NoJournal)
  /\ SameJournal /\ SameStaging
  /\ UNCHANGED <<lease, child, orphan, client, transactions, reported, kills, powerLosses>>

EndRun(c) ==
  /\ client[c].pc = "run"
  /\ End(c)
  /\ UNCHANGED <<files, child, counters>>

(* The child that kept the lease of a killed command exits.                 *)
ChildExit ==
  /\ child # "none"
  /\ child' = "none"
  /\ UNCHANGED <<files, lease, client, counters>>

OrphanExit ==
  /\ orphan
  /\ orphan' = FALSE
  /\ UNCHANGED <<files, lease, child, client, transactions, issued, reported, raced,
                 kills, powerLosses, unleased>>

------------------------------------------------------------------------------
(* Faults *)

(* A command is killed, or gives up on an error and leaves what it made.    *)
(* A login writes to its staging home only, and matters while it has the    *)
(* lease; a provider goes on with the lease or without.                     *)
Kill(c) ==
  /\ client[c].pc # "idle"
  /\ kills < MaxKills
  /\ kills' = kills + 1
  /\ End(c)
  /\ \/ client[c].pc = "login" /\ child' = "login" /\ UNCHANGED orphan
     \/ client[c].pc = "run" /\ child' = "provider" /\ UNCHANGED orphan
     \/ client[c].pc = "run" /\ orphan' = TRUE /\ UNCHANGED child
     \/ client[c].pc # "run" /\ UNCHANGED <<child, orphan>>
  /\ UNCHANGED <<files, transactions, issued, reported, raced, powerLosses, unleased>>

PowerLoss ==
  /\ powerLosses < MaxPowerLoss
  /\ powerLosses' = powerLosses + 1
  /\ home' \in onHome /\ onHome' = {home'}
  /\ journal' \in onProfile /\ onProfile' = {journal'}
  /\ staging' \in onRoot /\ onRoot' = {staging'}
  /\ lease' = Nobody
  /\ child' = "none" /\ orphan' = FALSE
  /\ client' = [c \in Client |-> Idle]
  /\ UNCHANGED <<transactions, issued, reported, raced, kills, unleased>>

------------------------------------------------------------------------------

Recovery(c) ==
  \/ Preflight(c) \/ LockForRecovery(c) \/ Busy(c) \/ LockForReauth(c) \/ LockForRun(c)
  \/ RecoverOrphans(c) \/ RecoverFinish(c) \/ RecoverRollback(c) \/ RecoverComplete(c)
  \/ RecoveryRequired(c) \/ SyncOrphans(c)

Transaction(c) ==
  \/ CreateStaging(c) \/ Login(c) \/ Abandon(c) \/ PublishJournal(c) \/ SyncJournal(c)
  \/ PlaceCandidate(c) \/ SyncCandidate(c) \/ CheckOld(c) \/ HideOld(c) \/ ShowNew(c)
  \/ VerifyNew(c) \/ SyncNew(c)

Cleanup(c) ==
  \/ DropOld(c) \/ DropNew(c) \/ SyncDrop(c) \/ Rollback(c) \/ DropStaging(c)
  \/ SyncDropped(c) \/ DropJournal(c) \/ SyncEnd(c) \/ Refuse(c) \/ EndRun(c)

Step(c) == Recovery(c) \/ Transaction(c) \/ Cleanup(c)

Next ==
  \/ \E c \in Client : Step(c) \/ Kill(c)
  \/ Rotate \/ ChildExit \/ OrphanExit \/ PowerLoss

Spec == Init /\ [][Next]_vars

(* Every command runs on to its end, and somebody runs the next one; a      *)
(* child with the lease exits.  Nothing is promised of logins, rotations,   *)
(* orphans, kills or power.                                                 *)
FairSpec ==
  /\ Spec
  /\ \A c \in Client : WF_vars(Step(c))
  /\ WF_vars(ChildExit)

------------------------------------------------------------------------------
(* Properties *)

TypeOK ==
  /\ home \in Home /\ onHome \subseteq Home
  /\ journal \in Journal \cup {NoJournal} /\ onProfile \subseteq Journal \cup {NoJournal}
  /\ staging \subseteq Tx /\ onRoot \subseteq SUBSET Tx
  /\ lease \in Client \cup {Nobody}
  /\ child \in {"none", "login", "provider"} /\ orphan \in BOOLEAN
  /\ client \in [Client -> Command]
  /\ transactions \in 0..MaxTx
  /\ issued \in Cred
  /\ reported \in Cred
  /\ raced \in BOOLEAN /\ unleased \subseteq Cred
  /\ kills \in 0..MaxKills /\ powerLosses \in 0..MaxPowerLoss

(* The credential that a home and a journal amount to: the visible one, or  *)
(* the replacement, which recovery will make visible if it resolves at all. *)
Effective(h, j) ==
  IF h.auth # Absent THEN h.auth
  ELSE IF j # NoJournal THEN h.new[j.tx]
  ELSE Absent

(* Whatever a power loss leaves at any point of a replacement, the profile  *)
(* has a credential: auth.json, or the replacement the journal names.       *)
CredentialNeverLost ==
  \A h \in onHome, j \in onProfile : Effective(h, j) # Absent

(* Once `auth reauth' has reported success, no crash, power loss or         *)
(* recovery brings a credential older than that one back.                   *)
ReportedIsDurable ==
  \A h \in onHome, j \in onProfile : Effective(h, j) >= reported

(* Recovery refuses with reauth_recovery_required only when a provider      *)
(* rotated the credential while a journal was there or could come back, or  *)
(* had not made its rotation durable when a journal was written; crashes of *)
(* reauthentication and of its recovery alone always converge.              *)
RefusesOnlyRotation ==
  \A h \in onHome, j \in onProfile :
    j # NoJournal /\ Outcome(h, j) = "required" => raced

(* The hidden old credential never outlives the journal that names it, so   *)
(* no power loss leaves a copy of it that nothing will remove.              *)
OldNeverStrays ==
  \A h \in onHome, j \in onProfile, t \in Tx : h.old[t] # Absent => j.tx = t

(* While no power is lost the credential a profile amounts to only moves    *)
(* forward, but for what an orphan wrote without the lease: no rename of a  *)
(* commit or a recovery replaces a login, or a rotation made under the      *)
(* lease, by an older one.                                                  *)
NeverRollsBack ==
  [][\/ PowerLoss
     \/ Effective(home', journal') >= Effective(home, journal)
     \/ Effective(home, journal) \in unleased]_vars

(* As long as profile commands are run, every journal left behind is        *)
(* resolved, unless its digests miss a rotation of the provider's own.      *)
JournalResolved == journal # NoJournal ~> (journal = NoJournal \/ raced)

=============================================================================
