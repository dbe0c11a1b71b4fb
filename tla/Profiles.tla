------------------------------ MODULE Profiles ------------------------------
(***************************************************************************)
(* The profile registry and its directories (src/profiles.rs): add, rename *)
(* and remove a profile, with the recovery that starts every command, the  *)
(* profile leases and the two metadata locks.                              *)
(*                                                                         *)
(* A removal replaces profiles.json by a barrier that holds the old        *)
(* document, writes a sidecar journal, renames the profile's tree to a     *)
(* tombstone, publishes the new document, and only then unlinks the tree.  *)
(* Recovery puts the old state back before that publication and finishes   *)
(* the removal after it.                                                   *)
(*                                                                         *)
(* Commands run concurrently and may be killed, or fail, between any two   *)
(* operations on the file system.  A power loss leaves each of the two     *)
(* directories as it was after any operation since it was last synced, the *)
(* one independently of the other.                                         *)
(*                                                                         *)
(* A document is the alias of each registered id.  Ids are uuids and never *)
(* used again.  Of a tree its place matters, whether it is whole, and      *)
(* whether it still agrees with the snapshot (entry count and manifest)    *)
(* that a removal puts into its journal.                                   *)
(* What a reauthentication does inside its staging home is module Reauth;  *)
(* here it matters that the home is there and whose it is.                 *)
(***************************************************************************)
EXTENDS Integers, FiniteSets

CONSTANTS
  Id, Alias,
  Registered,   \* the ids of the first document, an alias each
  Client,       \* concurrent commands
  MaxCommands,  \* bound: commands started
  FaultPlan,    \* bound: how many kills and power losses may come together
  None

ASSUME ProfilesAssumption ==
  /\ DOMAIN Registered \subseteq Id
  /\ \A i, k \in DOMAIN Registered :
       Registered[i] \in Alias /\ (Registered[i] = Registered[k] => i = k)
  /\ MaxCommands \in Nat /\ FaultPlan \subseteq Nat \X Nat
  /\ None \notin Id \cup Alias \cup Client

VARIABLES
  data, onData,   \* the data root: profiles.json and the sidecar
  trees, onTrees, \* the provider root: profile trees, staging homes
  lease,          \* Id -> the client that holds both lifetime locks
  removalLock, registryLock,
  client,         \* Client -> state of the command
  changed,        \* the whole tree of a removal differs from the journal's snapshot
  used,           \* ids given out
  gone,           \* ids whose removal was reported
  \* history: what a power loss may still leave though a recovery has taken
  \* the entry after it for durable, and whether one has left it
  passedData, passedTrees, undone,
  commands, kills, powerLosses

locks == <<lease, removalLock, registryLock>>
passed == <<passedData, passedTrees>>
counters == <<commands, kills, powerLosses>>
vars == <<data, onData, trees, onTrees, locks, client, changed, used, gone,
          passed, undone, counters>>

Option(S) == S \cup {None}

------------------------------------------------------------------------------
(* The two directories *)

Document == [Id -> Option(Alias)]

(* A removal proof: the profile, and the document it is removed from.       *)
Proof == [id : Id, doc : Document]

ASSUME NoneAssumption == None \notin Proof

(* profiles.json holds a document, or a barrier with a proof.               *)
Data == [doc : Document, barrier : Option(Proof), sidecar : Option(Proof), tmp : BOOLEAN]

Place == {"none", "staging", "live", "tombstone", "partial"}
Trees == [at : [Id -> Place], reauth : SUBSET Id]

Tombstones(p) == {i \in Id : p.at[i] \in {"tombstone", "partial"}}

Rows(d) == {i \in Id : d.doc[i] # None}
Without(doc, i) == [doc EXCEPT ![i] = None]

NoArtifacts(d, p) ==
  d.barrier = None /\ d.sidecar = None /\ ~d.tmp /\ Tombstones(p) = {}

SameData == UNCHANGED <<data, onData, passedData>>
SameTrees == UNCHANGED <<trees, onTrees, passedTrees>>

(* One operation on a directory, its sync, or one and the sync after it.    *)
ChangeData(d) == data' = d /\ onData' = onData \cup {d} /\ passedData' = passedData \ {d}
ChangeTrees(p) == trees' = p /\ onTrees' = onTrees \cup {p} /\ passedTrees' = passedTrees \ {p}
SyncData == onData' = {data} /\ passedData' = {} /\ UNCHANGED data
SyncTrees == onTrees' = {trees} /\ passedTrees' = {} /\ UNCHANGED trees
ChangeAndSyncTrees(p) == trees' = p /\ onTrees' = {p} /\ passedTrees' = {}

MoveTree(i, place) == ChangeTrees([trees EXCEPT !.at[i] = place])

------------------------------------------------------------------------------
(* Commands *)

Pc == {"idle", "preflight", "quiesce", "tree", "relock", "settle", "back_sync",
       "back_sidecar", "back_sidecar_sync", "back_publish", "back_publish_sync",
       "reauth_scan", "reauth_clean", "select", "lease", "rename",
       "save_sync", "reauth", "login", "remove_locks", "remove_registry", "barrier_sync",
       "sidecar_tmp", "sidecar", "sidecar_sync", "tomb", "tomb_sync", "publish",
       "publish_sync", "unlink", "unlinked", "unlink_sync", "drop", "drop_sync",
       "register", "register_login", "register_move", "register_sync",
       "register_publish"}

Kind == {"list", "register", "rename", "remove", "reauth"}

(* snap: the data root a recovery saw first.  todo: the profiles whose      *)
(* reauthentication it still has to recover.                                *)
Command ==
  [pc : Pc, kind : Option(Kind), alias : Option(Alias), to : Option(Alias),
   id : Option(Id), proof : Option(Proof), snap : Option(Data), todo : SUBSET Id]

Idle == [pc |-> "idle", kind |-> None, alias |-> None, to |-> None, id |-> None,
         proof |-> None, snap |-> None, todo |-> {}]

Goto(c, pc) == client' = [client EXCEPT ![c].pc = pc]

Unlock(c) ==
  /\ lease' = [i \in Id |-> IF lease[i] = c THEN None ELSE lease[i]]
  /\ removalLock' = IF removalLock = c THEN None ELSE removalLock
  /\ registryLock' = IF registryLock = c THEN None ELSE registryLock

(* The command returns, with a result or with an error.                     *)
End(c) == client' = [client EXCEPT ![c] = Idle] /\ Unlock(c)

(* Recovery is over: its locks go and the command goes on.                  *)
Resume(c, pc) ==
  /\ client' = [client EXCEPT ![c].pc = pc, ![c].proof = None, ![c].snap = None]
  /\ Unlock(c)

Init ==
  /\ data = [doc |-> [i \in Id |-> IF i \in DOMAIN Registered THEN Registered[i] ELSE None],
             barrier |-> None, sidecar |-> None, tmp |-> FALSE]
  /\ trees = [at |-> [i \in Id |-> IF i \in DOMAIN Registered THEN "live" ELSE "none"],
              reauth |-> {}]
  /\ onData = {data} /\ onTrees = {trees}
  /\ lease = [i \in Id |-> None]
  /\ removalLock = None /\ registryLock = None
  /\ client = [c \in Client |-> Idle]
  /\ used = DOMAIN Registered
  /\ gone = {} /\ changed = FALSE
  /\ passedData = {} /\ passedTrees = {} /\ undone = FALSE
  /\ commands = 0 /\ kills = 0 /\ powerLosses = 0

ghosts == <<changed, used, gone, undone, counters>>

Start(c, kind, alias, to) ==
  /\ client[c].pc = "idle"
  /\ alias # None <=> kind # "list"
  /\ to # None <=> kind = "rename"
  /\ to # alias \/ to = None
  /\ commands < MaxCommands
  /\ commands' = commands + 1
  /\ client' = [client EXCEPT ![c] = [Idle EXCEPT !.pc = "preflight", !.kind = kind,
                                                  !.alias = alias, !.to = to]]
  /\ SameData /\ SameTrees /\ UNCHANGED <<locks, changed, used, gone, undone, kills, powerLosses>>

------------------------------------------------------------------------------
(* Recovery of an interrupted removal *)

(* The unlocked look that ends recovery when there is nothing to recover.   *)
Preflight(c) ==
  /\ client[c].pc = "preflight"
  /\ Goto(c, IF NoArtifacts(data, trees) THEN "reauth_scan" ELSE "quiesce")
  /\ SameData /\ SameTrees /\ UNCHANGED <<locks, ghosts>>

(* effective_removal_journal, and what the first snapshot already refuses.  *)
Effective(d) == IF d.sidecar # None THEN d.sidecar ELSE d.barrier

(* A removal is unfinished and its tree whole.                              *)
WholeTree(d, p) == Effective(d) # None /\ p.at[Effective(d).id] \in {"live", "tombstone"}

Ambiguous(d, p) ==
  \/ d.barrier # None /\ d.sidecar # None /\ d.barrier # d.sidecar
  \/ d.barrier # None /\ d.sidecar = None /\ Tombstones(p) # {}
  \/ Effective(d) = None /\ Tombstones(p) # {}
  \/ Effective(d) # None /\ ~(Tombstones(p) \subseteq {Effective(d).id})

(* Mutant of Quiesce: the removal lock is kept while the tree is leased. *)
QuiesceHoldingGate(c) ==
  /\ client[c].pc = "quiesce"
  /\ removalLock = None
  /\ \/ Ambiguous(data, trees) /\ End(c)
     \/ /\ ~Ambiguous(data, trees)
        /\ client' = [client EXCEPT
             ![c].pc = IF Effective(data) # None THEN "tree" ELSE "reauth_scan",
             ![c].proof = Effective(data), ![c].snap = data]
        /\ removalLock' = c
        /\ UNCHANGED <<lease, registryLock>>
  /\ SameData /\ SameTrees /\ UNCHANGED ghosts

(* A snapshot of the artifacts while no remover is at work.  The code also  *)
(* drops a temporary found without barrier and sidecar; RemovalConverges    *)
(* says that there is none.                                                 *)
Quiesce(c) ==
  /\ client[c].pc = "quiesce"
  /\ removalLock = None
  /\ \/ Ambiguous(data, trees) /\ End(c)
     \/ /\ ~Ambiguous(data, trees)
        /\ client' = [client EXCEPT
             ![c].pc = IF Effective(data) # None THEN "tree" ELSE "reauth_scan",
             ![c].proof = Effective(data), ![c].snap = data]
        /\ UNCHANGED locks
  /\ SameData /\ SameTrees /\ UNCHANGED ghosts

(* The lease of a tree that agrees with the journal's snapshot, wherever it *)
(* is; a partial or a changed one has none.                                 *)
LockTree(c) ==
  LET i == client[c].proof.id
      whole == trees.at[i] \in {"live", "tombstone"} /\ ~changed
  IN  /\ client[c].pc = "tree"
      /\ \/ whole /\ lease[i] # None /\ End(c)
         \/ /\ whole => lease[i] = None
            /\ lease' = IF whole THEN [lease EXCEPT ![i] = c] ELSE lease
            /\ Goto(c, "relock")
            /\ UNCHANGED <<removalLock, registryLock>>
      /\ SameData /\ SameTrees /\ UNCHANGED ghosts

(* The removal lock again: another command may have recovered meanwhile.    *)
Relock(c) ==
  LET seen == client[c].snap
      same == data.barrier = seen.barrier /\ data.sidecar = seen.sidecar
              /\ (data.barrier # None => data.doc = seen.doc)
  IN  /\ client[c].pc = "relock"
      /\ removalLock = None
      /\ \/ ~same /\ NoArtifacts(data, trees) /\ Resume(c, "reauth_scan")
         \/ ~same /\ ~NoArtifacts(data, trees) /\ End(c)
         \/ /\ same
            /\ removalLock' = c
            /\ Goto(c, "settle")
            /\ UNCHANGED <<lease, registryLock>>
      /\ SameData /\ SameTrees /\ UNCHANGED ghosts

(* Which side is visible, under all locks.  "back": the old document is,    *)
(* and the whole tree is leased; "finish", "drop": the new one is.          *)
Verdict(d, p, proof, leased) ==
  LET at == p.at[proof.id]
  IN  IF ~(Tombstones(p) \subseteq {proof.id}) THEN "required"
      ELSE IF d.barrier # None
        THEN IF leased /\ at \in {"live", "tombstone"} THEN "back" ELSE "required"
      ELSE IF d.doc[proof.id] # None THEN "required"
      ELSE IF at \in {"tombstone", "partial"} THEN "finish"
      ELSE IF at = "none" THEN "drop"
      ELSE "required"

(* The tree is compared with the snapshot once more.  A tree found in       *)
(* place, or a new document found published, is taken for durable: whoever  *)
(* put it there may not have lived to sync it.                              *)
Settle(c) ==
  LET proof == client[c].proof
      verdict == Verdict(data, trees, proof, lease[proof.id] = c /\ ~changed)
  IN  /\ client[c].pc = "settle"
      /\ registryLock = None
      /\ \/ verdict = "required" /\ End(c) /\ SameTrees /\ SameData
         \/ /\ verdict = "back"
            /\ registryLock' = c /\ UNCHANGED <<lease, removalLock>>
            /\ IF trees.at[proof.id] = "live"
                 THEN /\ Goto(c, "back_sidecar")
                      /\ passedTrees' = passedTrees \cup {p \in onTrees : p.at[proof.id] # "live"}
                      /\ UNCHANGED <<trees, onTrees>>
                 ELSE Goto(c, "back_sync") /\ MoveTree(proof.id, "live")
            /\ SameData
         \/ /\ verdict \in {"finish", "drop"}
            /\ registryLock' = c /\ UNCHANGED <<lease, removalLock>>
            /\ Goto(c, IF verdict = "finish" THEN "unlink" ELSE "unlink_sync")
            /\ passedData' = passedData \cup {d \in onData : d.barrier # None}
            /\ UNCHANGED <<data, onData>> /\ SameTrees
      /\ UNCHANGED ghosts

SyncRestored(c) ==
  /\ client[c].pc = "back_sync"
  /\ ~changed
  /\ SyncTrees /\ SameData
  /\ Goto(c, "back_sidecar")
  /\ UNCHANGED <<locks, ghosts>>

RollbackSidecar(c) ==
  /\ client[c].pc = "back_sidecar"
  /\ ChangeData([data EXCEPT !.sidecar = None, !.tmp = FALSE])
  /\ Goto(c, "back_sidecar_sync")
  /\ SameTrees /\ UNCHANGED <<locks, ghosts>>

SyncRollbackSidecar(c) ==
  /\ client[c].pc = "back_sidecar_sync"
  /\ SyncData /\ SameTrees
  /\ Goto(c, "back_publish")
  /\ UNCHANGED <<locks, ghosts>>

(* The embedded document is published last; the snapshot went with the      *)
(* barrier.                                                                 *)
RollbackPublish(c) ==
  /\ client[c].pc = "back_publish"
  /\ ChangeData([data EXCEPT !.barrier = None])
  /\ changed' = FALSE
  /\ Goto(c, "back_publish_sync")
  /\ SameTrees /\ UNCHANGED <<locks, used, gone, undone, counters>>

SyncRollback(c) ==
  /\ client[c].pc = "back_publish_sync"
  /\ SyncData /\ SameTrees
  /\ Resume(c, "reauth_scan")
  /\ UNCHANGED ghosts

------------------------------------------------------------------------------
(* Recovery of interrupted reauthentications, and the choice of the profile *)

(* incomplete_reauth_scan: a barrier, or a staging home without an owner,   *)
(* ends the command.                                                        *)
ReauthScan(c) ==
  /\ client[c].pc = "reauth_scan"
  /\ \/ /\ data.barrier # None \/ ~(trees.reauth \subseteq Rows(data))
        /\ End(c)
     \/ /\ data.barrier = None /\ trees.reauth \subseteq Rows(data)
        /\ client' = [client EXCEPT ![c].pc = "reauth_clean", ![c].snap = data,
                                    ![c].todo = trees.reauth]
        /\ UNCHANGED locks
  /\ SameData /\ SameTrees /\ UNCHANGED ghosts

(* Each affected profile is leased, or the command is Busy; if its row is   *)
(* still the one scanned, its staging home goes (module Reauth).            *)
ReauthClean(c) ==
  LET mine(i) == /\ trees.at[i] = "live" /\ lease[i] = None
                 /\ data.barrier = None /\ data.doc[i] = client[c].snap.doc[i]
  IN  /\ client[c].pc = "reauth_clean"
      /\ \/ \E i \in client[c].todo : ~mine(i) /\ End(c) /\ SameTrees
         \/ \E i \in client[c].todo :
              /\ mine(i)
              /\ ChangeAndSyncTrees([trees EXCEPT !.reauth = @ \ {i}])
              /\ client' = [client EXCEPT ![c].todo = @ \ {i}]
              /\ UNCHANGED locks
         \/ /\ client[c].todo = {}
            /\ Resume(c, "select")
            /\ SameTrees
      /\ SameData /\ UNCHANGED ghosts

(* find_without_recovery.                                                   *)
Select(c) ==
  /\ client[c].pc = "select"
  /\ \/ /\ client[c].kind = "register"
        /\ Goto(c, "register") /\ UNCHANGED locks
     \/ /\ client[c].kind \in {"rename", "remove", "reauth"} /\ data.barrier = None
        /\ \E i \in Rows(data) :
             /\ data.doc[i] = client[c].alias
             /\ client' = [client EXCEPT ![c].pc = "lease", ![c].id = i]
        /\ UNCHANGED locks
     \/ /\ \/ client[c].kind = "list" \/ data.barrier # None
           \/ \A i \in Rows(data) : data.doc[i] # client[c].alias
        /\ client[c].kind # "register"
        /\ End(c)
  /\ SameData /\ SameTrees /\ UNCHANGED ghosts

(* Mutant of Lease: the lock of a leased profile is shared. *)
LeaseShared(c) ==
  /\ client[c].pc = "lease"
  /\ trees.at[client[c].id] = "live"
  /\ lease' = [lease EXCEPT ![client[c].id] = c]
  /\ Goto(c, CASE client[c].kind = "rename" -> "rename"
               [] client[c].kind = "remove" -> "remove_locks"
               [] client[c].kind = "reauth" -> "reauth")
  /\ SameData /\ SameTrees /\ UNCHANGED <<removalLock, registryLock, ghosts>>

(* lock_profile, and for a reauthentication the row read again under it.    *)
Lease(c) ==
  LET i == client[c].id
  IN  /\ client[c].pc = "lease"
      /\ \/ (trees.at[i] # "live" \/ lease[i] # None) /\ End(c)
         \/ /\ trees.at[i] = "live" /\ lease[i] = None
            /\ lease' = [lease EXCEPT ![i] = c]
            /\ Goto(c, CASE client[c].kind = "rename" -> "rename"
                         [] client[c].kind = "remove" -> "remove_locks"
                         [] client[c].kind = "reauth" -> "reauth")
            /\ UNCHANGED <<removalLock, registryLock>>
      /\ SameData /\ SameTrees /\ UNCHANGED ghosts

------------------------------------------------------------------------------
(* Rename and reauthentication *)

(* Mutant of Rename: the alias is not checked again under the lock. *)
RenameUnchecked(c) ==
  /\ client[c].pc = "rename"
  /\ registryLock = None
  /\ NoArtifacts(data, trees)
  /\ registryLock' = c
  /\ ChangeData([data EXCEPT !.doc[client[c].id] = client[c].to])
  /\ Goto(c, "save_sync")
  /\ SameTrees /\ UNCHANGED <<lease, removalLock, ghosts>>

(* lock_registry_mutation, the checks and the save.                         *)
Rename(c) ==
  LET i == client[c].id
      to == client[c].to
  IN  /\ client[c].pc = "rename"
      /\ registryLock = None
      /\ IF /\ NoArtifacts(data, trees)
            /\ data.doc[i] = client[c].alias /\ to # client[c].alias
            /\ \A k \in Id \ {i} : data.doc[k] # to
           THEN /\ registryLock' = c /\ UNCHANGED <<lease, removalLock>>
                /\ ChangeData([data EXCEPT !.doc[i] = to])
                /\ Goto(c, "save_sync")
           ELSE End(c) /\ SameData
      /\ SameTrees /\ UNCHANGED ghosts

(* The last sync of `save': the command is over.                            *)
SaveSync(c) ==
  /\ client[c].pc = "save_sync"
  /\ SyncData /\ SameTrees
  /\ End(c)
  /\ UNCHANGED ghosts

BeginReauth(c) ==
  LET i == client[c].id
  IN  /\ client[c].pc = "reauth"
      /\ IF data.barrier = None /\ data.doc[i] = client[c].alias
           THEN /\ ChangeAndSyncTrees([trees EXCEPT !.reauth = @ \cup {i}])
                /\ Goto(c, "login") /\ UNCHANGED locks
           ELSE End(c) /\ SameTrees
      /\ SameData /\ UNCHANGED ghosts

EndReauth(c) ==
  /\ client[c].pc = "login"
  /\ ChangeTrees([trees EXCEPT !.reauth = @ \ {client[c].id}])
  /\ End(c)
  /\ SameData /\ UNCHANGED ghosts

------------------------------------------------------------------------------
(* Removal *)

RemoveLock(c) ==
  /\ client[c].pc = "remove_locks"
  /\ removalLock = None
  /\ removalLock' = c
  /\ Goto(c, "remove_registry")
  /\ SameData /\ SameTrees /\ UNCHANGED <<lease, registryLock, ghosts>>

(* The registry lock, the checks, the snapshot of the tree, and the barrier *)
(* in place of the document.                                                *)
RemoveBarrier(c) ==
  LET i == client[c].id
      proof == [id |-> i, doc |-> data.doc]
  IN  /\ client[c].pc = "remove_registry"
      /\ registryLock = None
      /\ IF NoArtifacts(data, trees) /\ data.doc[i] = client[c].alias
           THEN /\ registryLock' = c /\ UNCHANGED <<lease, removalLock>>
                /\ ChangeData([data EXCEPT !.barrier = proof])
                /\ client' = [client EXCEPT ![c].pc = "barrier_sync", ![c].proof = proof]
           ELSE End(c) /\ SameData
      /\ SameTrees /\ UNCHANGED ghosts

SyncBarrier(c) ==
  /\ client[c].pc = "barrier_sync"
  /\ SyncData /\ SameTrees
  /\ Goto(c, "sidecar_tmp")
  /\ UNCHANGED <<locks, ghosts>>

(* write_removal_journal: a synced temporary, the rename, the sync.         *)
WriteSidecar(c) ==
  /\ client[c].pc = "sidecar_tmp"
  /\ ChangeData([data EXCEPT !.tmp = TRUE])
  /\ Goto(c, "sidecar")
  /\ SameTrees /\ UNCHANGED <<locks, ghosts>>

PublishSidecar(c) ==
  /\ client[c].pc = "sidecar"
  /\ ChangeData([data EXCEPT !.tmp = FALSE, !.sidecar = client[c].proof])
  /\ Goto(c, "sidecar_sync")
  /\ SameTrees /\ UNCHANGED <<locks, ghosts>>

SyncSidecar(c) ==
  /\ client[c].pc = "sidecar_sync"
  /\ SyncData /\ SameTrees
  /\ Goto(c, "tomb")
  /\ UNCHANGED <<locks, ghosts>>

Entomb(c) ==
  /\ client[c].pc = "tomb"
  /\ MoveTree(client[c].proof.id, "tombstone")
  /\ Goto(c, "tomb_sync")
  /\ SameData /\ UNCHANGED <<locks, ghosts>>

(* Mutant of SyncTomb: the new document may overtake the rename. *)
SkipSyncTomb(c) ==
  /\ client[c].pc = "tomb_sync"
  /\ SameData /\ SameTrees
  /\ Goto(c, "publish")
  /\ UNCHANGED <<locks, ghosts>>

SyncTomb(c) ==
  /\ client[c].pc = "tomb_sync"
  /\ ~changed
  /\ SyncTrees /\ SameData
  /\ Goto(c, "publish")
  /\ UNCHANGED <<locks, ghosts>>

(* A tree that was moved, by a removal or back by a recovery, and no longer *)
(* agrees with the snapshot: the command ends with an error.                *)
TreeChanged(c) ==
  /\ client[c].pc \in {"tomb_sync", "back_sync"}
  /\ changed
  /\ End(c)
  /\ SameData /\ SameTrees /\ UNCHANGED ghosts

(* The visibility point.                                                    *)
PublishRemoval(c) ==
  /\ client[c].pc = "publish"
  /\ ChangeData([data EXCEPT !.barrier = None,
                             !.doc = Without(@, client[c].proof.id)])
  /\ Goto(c, "publish_sync")
  /\ SameTrees /\ UNCHANGED <<locks, ghosts>>

(* Mutant of SyncRemoval: the tree goes before the removal is durable. *)
SkipSyncRemoval(c) ==
  /\ client[c].pc = "publish_sync"
  /\ SameData /\ SameTrees
  /\ Goto(c, "unlink")
  /\ UNCHANGED <<locks, ghosts>>

SyncRemoval(c) ==
  /\ client[c].pc = "publish_sync"
  /\ SyncData /\ SameTrees
  /\ Goto(c, "unlink")
  /\ UNCHANGED <<locks, ghosts>>

(* finish_visible_removal, here and from recovery: the tree goes file by    *)
(* file, the lock files with it.                                            *)
Unlink(c) ==
  /\ client[c].pc = "unlink"
  /\ MoveTree(client[c].proof.id, "partial")
  /\ changed' = FALSE
  /\ Goto(c, "unlinked")
  /\ SameData /\ UNCHANGED <<locks, used, gone, undone, counters>>

Unlinked(c) ==
  /\ client[c].pc = "unlinked"
  /\ MoveTree(client[c].proof.id, "none")
  /\ Goto(c, "unlink_sync")
  /\ SameData /\ UNCHANGED <<locks, ghosts>>

(* Mutant of SyncUnlinked: the sidecar may go before the tree. *)
SkipSyncUnlinked(c) ==
  /\ client[c].pc = "unlink_sync"
  /\ SameData /\ SameTrees
  /\ Goto(c, "drop")
  /\ UNCHANGED <<locks, ghosts>>

SyncUnlinked(c) ==
  /\ client[c].pc = "unlink_sync"
  /\ SyncTrees /\ SameData
  /\ Goto(c, "drop")
  /\ UNCHANGED <<locks, ghosts>>

DropSidecar(c) ==
  /\ client[c].pc = "drop"
  /\ data.sidecar = client[c].proof
  /\ ChangeData([data EXCEPT !.sidecar = None, !.tmp = FALSE])
  /\ Goto(c, "drop_sync")
  /\ SameTrees /\ UNCHANGED <<locks, ghosts>>

(* The command that removes reports; a recovery goes on with its own.       *)
SyncDropped(c) ==
  /\ client[c].pc = "drop_sync"
  /\ SyncData /\ SameTrees
  /\ IF client[c].snap = None
       THEN End(c) /\ gone' = gone \cup {client[c].proof.id}
       ELSE Resume(c, "reauth_scan") /\ UNCHANGED gone
  /\ UNCHANGED <<changed, used, undone, counters>>

------------------------------------------------------------------------------
(* Registration *)

(* Mutant of Register: an id is drawn that may have been used before. *)
RegisterUntracked(c) ==
  /\ client[c].pc = "register"
  /\ registryLock = None
  /\ \E i \in Id \ used :
       /\ MoveTree(i, "staging")
       /\ client' = [client EXCEPT ![c].pc = "register_login", ![c].id = i]
  /\ registryLock' = c
  /\ SameData /\ UNCHANGED <<lease, removalLock, ghosts>>

(* The registry lock, held through the login and the publication.           *)
Register(c) ==
  LET free == /\ NoArtifacts(data, trees)
              /\ \A i \in Id : data.doc[i] # client[c].alias
              /\ \A i \in Id : trees.at[i] # "staging"
  IN  /\ client[c].pc = "register"
      /\ registryLock = None
      /\ \/ (~free \/ used = Id) /\ End(c) /\ SameTrees /\ UNCHANGED used
         \/ /\ free
            /\ \E i \in Id \ used :
                 /\ used' = used \cup {i}
                 /\ MoveTree(i, "staging")
                 /\ client' = [client EXCEPT ![c].pc = "register_login", ![c].id = i]
            /\ registryLock' = c
            /\ UNCHANGED <<lease, removalLock>>
      /\ SameData /\ UNCHANGED <<changed, gone, undone, counters>>

RegisterLogin(c) ==
  /\ client[c].pc = "register_login"
  /\ Goto(c, "register_move")
  /\ SameData /\ SameTrees /\ UNCHANGED <<locks, ghosts>>

(* publish: the tree first, then the document.                              *)
RegisterMove(c) ==
  /\ client[c].pc = "register_move"
  /\ MoveTree(client[c].id, "live")
  /\ Goto(c, "register_sync")
  /\ SameData /\ UNCHANGED <<locks, ghosts>>

RegisterSync(c) ==
  /\ client[c].pc = "register_sync"
  /\ SyncTrees /\ SameData
  /\ Goto(c, "register_publish")
  /\ UNCHANGED <<locks, ghosts>>

RegisterPublish(c) ==
  /\ client[c].pc = "register_publish"
  /\ data.barrier = None
  /\ \A i \in Id : data.doc[i] # client[c].alias
  /\ ChangeData([data EXCEPT !.doc[client[c].id] = client[c].alias])
  /\ Goto(c, "save_sync")
  /\ SameTrees /\ UNCHANGED <<locks, ghosts>>

(* A login that failed, an identity another profile has, or an error before *)
(* the document is published: the tree goes back to staging and away.       *)
RegisterAbort(c) ==
  /\ client[c].pc \in {"register_login", "register_move", "register_sync", "register_publish"}
  /\ MoveTree(client[c].id, "none")
  /\ End(c)
  /\ SameData /\ UNCHANGED ghosts

------------------------------------------------------------------------------
(* Faults *)

(* A command is killed, or gives up on an error and leaves what it made.    *)
Kill(c) ==
  /\ client[c].pc # "idle"
  /\ <<kills + 1, powerLosses>> \in FaultPlan
  /\ kills' = kills + 1
  /\ End(c)
  /\ SameData /\ SameTrees /\ UNCHANGED <<changed, used, gone, undone, commands, powerLosses>>

(* What is inside a tree may be older than the snapshot afterwards.         *)
PowerLoss ==
  /\ <<kills, powerLosses + 1>> \in FaultPlan
  /\ powerLosses' = powerLosses + 1
  /\ data' \in onData /\ onData' = {data'} /\ passedData' = {}
  /\ trees' \in onTrees /\ onTrees' = {trees'} /\ passedTrees' = {}
  /\ undone' = (undone \/ data' \in passedData \/ trees' \in passedTrees)
  /\ changed' \in BOOLEAN /\ (changed' => WholeTree(data', trees'))
  /\ lease' = [i \in Id |-> None]
  /\ removalLock' = None /\ registryLock' = None
  /\ client' = [c \in Client |-> Idle]
  /\ UNCHANGED <<used, gone, commands, kills>>

(* Somebody without the lease, a provider that outlived its command or a    *)
(* tool of the user's, writes into the tree of an unfinished removal.       *)
WriteTree ==
  /\ WholeTree(data, trees)
  /\ ~changed
  /\ changed' = TRUE
  /\ SameData /\ SameTrees /\ UNCHANGED <<locks, client, used, gone, undone, counters>>

------------------------------------------------------------------------------

RecoverRemoval(c) ==
  \/ Preflight(c) \/ Quiesce(c) \/ LockTree(c) \/ Relock(c)
  \/ Settle(c) \/ SyncRestored(c) \/ RollbackSidecar(c) \/ SyncRollbackSidecar(c)
  \/ RollbackPublish(c) \/ SyncRollback(c)

RecoverReauth(c) == ReauthScan(c) \/ ReauthClean(c) \/ Select(c) \/ Lease(c)

Remove(c) ==
  \/ RemoveLock(c) \/ RemoveBarrier(c) \/ SyncBarrier(c) \/ WriteSidecar(c)
  \/ PublishSidecar(c) \/ SyncSidecar(c) \/ Entomb(c) \/ SyncTomb(c)
  \/ PublishRemoval(c) \/ SyncRemoval(c) \/ Unlink(c) \/ Unlinked(c)
  \/ SyncUnlinked(c) \/ DropSidecar(c) \/ SyncDropped(c) \/ TreeChanged(c)

Registration(c) ==
  \/ Register(c) \/ RegisterLogin(c) \/ RegisterMove(c) \/ RegisterSync(c)
  \/ RegisterPublish(c) \/ RegisterAbort(c)

Step(c) ==
  \/ RecoverRemoval(c) \/ RecoverReauth(c) \/ Remove(c) \/ Registration(c)
  \/ Rename(c) \/ SaveSync(c) \/ BeginReauth(c) \/ EndReauth(c)

Next ==
  \/ \E c \in Client :
       \/ Step(c) \/ Kill(c)
       \/ \E kind \in Kind, alias \in Option(Alias), to \in Option(Alias) : Start(c, kind, alias, to)
  \/ PowerLoss \/ WriteTree

Spec == Init /\ [][Next]_vars

(* A command that is not killed runs on; a lock it waits for is free once   *)
(* its holder is done.                                                      *)
FairSpec == Spec /\ \A c \in Client : WF_vars(Step(c))

------------------------------------------------------------------------------
(* Properties *)

HistoryTypeOK ==
  /\ changed \in BOOLEAN /\ undone \in BOOLEAN
  /\ passedData \subseteq onData /\ passedTrees \subseteq onTrees

TypeOK ==
  /\ data \in Data /\ onData \subseteq Data
  /\ trees \in Trees /\ onTrees \subseteq Trees
  /\ lease \in [Id -> Option(Client)]
  /\ removalLock \in Option(Client) /\ registryLock \in Option(Client)
  /\ client \in [Client -> Command]
  /\ used \subseteq Id /\ gone \subseteq used
  /\ HistoryTypeOK
  /\ commands \in 0..MaxCommands
  /\ <<kills, powerLosses>> \in FaultPlan \cup {<<0, 0>>}

(* Whatever kills, errors and power losses leave at any point, recovery     *)
(* tells the old state from the new one: an interrupted removal, or an      *)
(* interrupted recovery of one, ends in removal_recovery_required only if   *)
(* the tree was changed behind the barrier.  Nor does a sidecar that was    *)
(* never published outlive the barrier, which is lifted last.  The one      *)
(* exception is a power loss that takes back what a recovery had found and  *)
(* taken for durable; RemovalSurvivesFaults is the claim without it.        *)
RemovalConverges ==
  ~undone =>
    /\ data.tmp => data.barrier # None
    /\ ~Ambiguous(data, trees)
    /\ Effective(data) # None /\ Verdict(data, trees, Effective(data), ~changed) = "required" =>
         changed /\ data.barrier # None

(* A registered profile has its whole tree, in place or, under the barrier  *)
(* of its own removal, as a tombstone: no document that can survive names a *)
(* profile whose credentials are gone, but for the power loss of            *)
(* RemovalConverges.                                                        *)
NoDanglingRow ==
  ~undone =>
    \A i \in Rows(data) :
      \/ trees.at[i] = "live"
      \/ trees.at[i] = "tombstone" /\ data.barrier # None /\ data.barrier.id = i

(* What recover_incomplete_removal says of itself: it converges an          *)
(* interrupted removal to an unambiguously complete old or new state, here  *)
(* whatever faults come, for a tree nobody has changed.                     *)
RemovalSurvivesFaults ==
  ~changed =>
    /\ ~Ambiguous(data, trees)
    /\ Effective(data) # None => Verdict(data, trees, Effective(data), TRUE) # "required"

(* A removal that was reported stays: neither a power loss nor a recovery   *)
(* brings the row or the tree back.                                         *)
GoneStaysGone == \A i \in gone : data.doc[i] = None /\ trees.at[i] = "none"

(* Two registered profiles never share an alias, however registrations,     *)
(* renames and a recovery that publishes an older document interleave.      *)
AliasesUnique == \A i, k \in Rows(data) : data.doc[i] = data.doc[k] => i = k

(* While a command works under a profile's lease, nobody moves the tree or  *)
(* unregisters the profile under it.                                        *)
LeaseProtects ==
  \A c \in Client : client[c].pc = "login" =>
    trees.at[client[c].id] = "live" /\ data.doc[client[c].id] # None

(* Every command ends: leases, removal lock and registry lock are taken in  *)
(* one order, and no command waits for a lock while another waits for it.   *)
CommandsEnd == []<>(\A c \in Client : client[c].pc = "idle")

=============================================================================
