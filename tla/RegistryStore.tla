---------------------------- MODULE RegistryStore ----------------------------
(***************************************************************************)
(* How conversations.rs keeps its document on disk: transact, transact_v2, *)
(* load, save and the backup written before the one migration from schema  *)
(* 1 to schema 2.                                                          *)
(*                                                                         *)
(* A file is replaced by writing a temporary, syncing it, renaming it over *)
(* the destination and syncing the directory.  The rename is visible at    *)
(* once, and durable when the directory sync returns; until then a power   *)
(* loss may keep or undo it, separately for each name.  Any I/O call may   *)
(* fail, and a process may be killed between any two of them.              *)
(*                                                                         *)
(* A document is the sequence of the operations in it: its revision is     *)
(* their number, and a digest of its bytes is the sequence itself (SHA-256 *)
(* is taken to be injective).                                              *)
(***************************************************************************)
EXTENDS Naturals, Sequences

CONSTANTS
  Process,
  Op,       \* identities of calls; each call takes a fresh one
  Absent    \* Option::None

Name == {"registry", "backup"}

(* A document, the file that holds it, and what is left of a file that was  *)
(* not synced before the power went.                                        *)
Document == [schema : {1, 2}, ops : Seq(Op), backup : Seq(Op) \cup {Absent}]
File == [doc : Document, synced : BOOLEAN]
Torn == [schema |-> 0, ops |-> << >>, backup |-> Absent]

Empty == [schema |-> 1, ops |-> << >>, backup |-> Absent]

(* The transaction a process has under way. *)
Call == [op : Op, original : Document, doc : Document]

(* None is no process, no digest, no file and no transaction. *)
ASSUME StoreAbsentAssumption ==
  /\ Absent \notin Process
  /\ Absent \notin Seq(Op)
  /\ Absent \notin File
  /\ Absent \notin Call

VARIABLES
  disk,     \* Name -> the file a synced directory names, or Absent
  renames,  \* Name -> files renamed over it since the directory was synced
  lock,     \* holder of conversations.lock
  pc,       \* Process -> where its call is
  call,     \* Process -> [op, original, doc]: the transaction it makes
  synced,   \* Process -> has the temporary of this process been synced
  answer    \* Op -> what the caller was told

vars == <<disk, renames, lock, pc, call, synced, answer>>

(* The steps of one call: `save' publishes "registry" and, before it, a     *)
(* migration publishes "backup".                                            *)
Publishing(n) == {<<n, s>> : s \in {"start", "written", "renamed", "durable"}}
Idle == <<"none", "idle">>
Steps == Publishing("registry") \cup Publishing("backup") \cup {Idle}

Answer == {"none", "running", "ok", "uncertain", "error", "lost"}

TypeOK ==
  /\ disk \in [Name -> File \cup {Absent}]
  /\ renames \in [Name -> Seq(File)]
  /\ lock \in Process \cup {Absent}
  /\ pc \in [Process -> Steps]
  /\ call \in [Process -> Call \cup {Absent}]
  /\ synced \in [Process -> BOOLEAN]
  /\ answer \in [Op -> Answer]

------------------------------------------------------------------------------
(* The file system (external): what a reader sees, what a power loss leaves. *)

Live(n) == IF renames[n] = << >> THEN disk[n] ELSE renames[n][Len(renames[n])]

AfterLoss(f) == IF f = Absent \/ f.synced THEN f ELSE [doc |-> Torn, synced |-> TRUE]

Recovered(n) ==
  {AfterLoss(disk[n])} \cup {AfterLoss(renames[n][i]) : i \in DOMAIN renames[n]}

SyncDirectory ==
  /\ disk' = [n \in Name |-> Live(n)]
  /\ renames' = [n \in Name |-> << >>]

------------------------------------------------------------------------------
(* load: a missing registry is the empty document; a schema 2 document needs *)
(* the backup its digest names.                                              *)

Contents(registry) == IF registry = Absent THEN Empty ELSE registry.doc

Loads(registry, backup) ==
  LET doc == Contents(registry) IN
  /\ doc.schema \in {1, 2}
  /\ doc.backup # Absent =>
       /\ backup # Absent
       /\ backup.doc.schema = 1
       /\ backup.doc.ops = doc.backup

------------------------------------------------------------------------------
(* One transaction *)

(* A call locks, loads, applies its operation and bumps the revision;       *)
(* transact_v2 also moves a schema 1 document to schema 2.                  *)
Migrates(original, v2) == v2 /\ original.schema = 1

NextDocument(original, o, v2) ==
  [schema |-> IF v2 THEN 2 ELSE original.schema,
   ops |-> Append(original.ops, o),
   backup |-> IF Migrates(original, v2) THEN original.ops ELSE original.backup]

Begin(p, o, v2) ==
  LET original == Contents(Live("registry")) IN
  /\ pc[p] = Idle /\ lock = Absent
  /\ answer[o] = "none"
  /\ Loads(Live("registry"), Live("backup"))
  /\ lock' = p
  /\ call' = [call EXCEPT ![p] =
       [op |-> o, original |-> original, doc |-> NextDocument(original, o, v2)]]
  /\ pc' = [pc EXCEPT ![p] =
       <<IF Migrates(original, v2) THEN "backup" ELSE "registry", "start">>]
  /\ answer' = [answer EXCEPT ![o] = "running"]
  /\ UNCHANGED <<disk, renames, synced>>

Bytes(p, n) == IF n = "backup" THEN call[p].original ELSE call[p].doc

(* A retried migration finds the backup an earlier attempt left. *)
BackupInPlace(p) == Live("backup") # Absent /\ Live("backup").doc = call[p].original

At(p, n, s) == pc[p] = <<n, s>>

WriteTemporary(p, n) ==
  /\ At(p, n, "start")
  /\ n = "backup" => ~BackupInPlace(p)
  /\ pc' = [pc EXCEPT ![p] = <<n, "written">>]
  /\ synced' = [synced EXCEPT ![p] = FALSE]
  /\ UNCHANGED <<disk, renames, lock, call, answer>>

SyncTemporary(p, n) ==
  /\ At(p, n, "written") /\ ~synced[p]
  /\ synced' = [synced EXCEPT ![p] = TRUE]
  /\ UNCHANGED <<disk, renames, lock, pc, call, answer>>

(* Mutant of ReadyToRename: the temporary is renamed without a sync. *)
RenameAtOnce(p, n) == At(p, n, "written")

ReadyToRename(p, n) == At(p, n, "written") /\ synced[p]

Rename(p, n) ==
  /\ ReadyToRename(p, n)
  /\ renames' = [renames EXCEPT ![n] =
                   Append(@, [doc |-> Bytes(p, n), synced |-> synced[p]])]
  /\ pc' = [pc EXCEPT ![p] = <<n, "renamed">>]
  /\ UNCHANGED <<disk, lock, call, synced, answer>>

(* The directory sync that ends a publication, and the one that makes sure   *)
(* of a backup that is already in place.                                     *)
Renamed(p, n) == At(p, n, "renamed") \/ (n = "backup" /\ At(p, n, "start") /\ BackupInPlace(p))

(* Mutant of ConfirmDurable: a backup found in place is trusted. *)
TrustBackupInPlace(p, n) ==
  /\ Renamed(p, n)
  /\ IF At(p, n, "start") THEN UNCHANGED <<disk, renames>> ELSE SyncDirectory
  /\ pc' = [pc EXCEPT ![p] = <<n, "durable">>]
  /\ UNCHANGED <<lock, call, synced, answer>>

(* Mutant of ConfirmDurable: a rename is taken to be durable. *)
SkipDirectorySync(p, n) ==
  /\ Renamed(p, n)
  /\ pc' = [pc EXCEPT ![p] = <<n, "durable">>]
  /\ UNCHANGED <<disk, renames, lock, call, synced, answer>>

ConfirmDurable(p, n) ==
  /\ Renamed(p, n)
  /\ SyncDirectory
  /\ pc' = [pc EXCEPT ![p] = <<n, "durable">>]
  /\ UNCHANGED <<lock, call, synced, answer>>

(* With the backup durable the migration goes on to `save'. *)
SaveAfterBackup(p) ==
  /\ At(p, "backup", "durable")
  /\ pc' = [pc EXCEPT ![p] = <<"registry", "start">>]
  /\ UNCHANGED <<disk, renames, lock, call, synced, answer>>

(* Every way out drops the lock. *)
Return(p, reply) ==
  /\ lock' = Absent
  /\ pc' = [pc EXCEPT ![p] = Idle]
  /\ call' = [call EXCEPT ![p] = Absent]
  /\ synced' = [synced EXCEPT ![p] = FALSE]
  /\ answer' = [answer EXCEPT ![call[p].op] = reply]
  /\ UNCHANGED <<disk, renames>>

Commit(p) == At(p, "registry", "durable") /\ Return(p, "ok")

(* The operation, the temporary or the rename fails: nothing was published. *)
Fail(p) ==
  /\ \E n \in Name : At(p, n, "start") \/ At(p, n, "written")
  /\ Return(p, "error")

(* Mutant of Uncertain: a failed directory sync is reported as a failure. *)
UncertainIsError(p) == (\E n \in Name : Renamed(p, n)) /\ Return(p, "error")

(* The directory sync fails after the rename: confirm_uncertain_commit. *)
Uncertain(p) == (\E n \in Name : Renamed(p, n)) /\ Return(p, "uncertain")

(* The process dies; the kernel drops its lock. *)
Kill(p) == pc[p] # Idle /\ Return(p, "lost")

PowerLoss ==
  /\ \E r \in Recovered("registry"), b \in Recovered("backup") :
       disk' = [n \in Name |-> IF n = "registry" THEN r ELSE b]
  /\ renames' = [n \in Name |-> << >>]
  /\ lock' = Absent
  /\ pc' = [p \in Process |-> Idle]
  /\ call' = [p \in Process |-> Absent]
  /\ answer' = [o \in Op |-> IF answer[o] = "running" THEN "lost" ELSE answer[o]]
  /\ synced' = [p \in Process |-> FALSE]

Init ==
  /\ disk = [n \in Name |-> Absent]
  /\ renames = [n \in Name |-> << >>]
  /\ lock = Absent
  /\ pc = [p \in Process |-> Idle]
  /\ call = [p \in Process |-> Absent]
  /\ synced = [p \in Process |-> FALSE]
  /\ answer = [o \in Op |-> "none"]

Next ==
  \/ \E p \in Process :
       \/ \E o \in Op, v2 \in BOOLEAN : Begin(p, o, v2)
       \/ \E n \in Name :
            \/ WriteTemporary(p, n)
            \/ SyncTemporary(p, n)
            \/ Rename(p, n)
            \/ ConfirmDurable(p, n)
       \/ SaveAfterBackup(p)
       \/ Commit(p)
       \/ Fail(p)
       \/ Uncertain(p)
       \/ Kill(p)
  \/ PowerLoss

Spec == Init /\ [][Next]_vars

------------------------------------------------------------------------------
(* Whatever instant the power fails at, and whichever unsynced renames       *)
(* survive, the registry loads again: it is whole, and a schema 2 document   *)
(* has the exact backup it names.  So does the document readers see now.     *)
AlwaysLoads ==
  /\ Loads(Live("registry"), Live("backup"))
  /\ \A r \in Recovered("registry"), b \in Recovered("backup") : Loads(r, b)

Contains(s, o) == \E i \in DOMAIN s : s[i] = o

(* A call that returned Ok survives any power loss, and one that returned an *)
(* error other than CommitUncertain never shows up, then or later.           *)
AnswersAreHonest ==
  \A o \in Op, r \in Recovered("registry") \cup {Live("registry")} :
    /\ answer[o] = "ok" => Contains(Contents(r).ops, o)
    /\ answer[o] = "error" => ~Contains(Contents(r).ops, o)

(* The files implement one atomic, durable document. *)
Abstract == INSTANCE AtomicDocument WITH
  visible <- Contents(Live("registry")).ops,
  stable <- Contents(disk["registry"]).ops

ImplementsAtomicDocument == Abstract!Spec

==============================================================================
