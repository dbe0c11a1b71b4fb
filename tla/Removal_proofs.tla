---------------------------- MODULE Removal_proofs ----------------------------
(***************************************************************************)
(* That an interrupted removal can always be told from a finished one, and *)
(* no document names a tree that is gone, for any ids, aliases, commands,  *)
(* clients, kills and power losses, as long as no power loss takes back    *)
(* what a recovery took for durable.                                       *)
(*                                                                         *)
(* The exception is needed.  A removal killed after it published its new   *)
(* document leaves it unsynced; a recovery takes it for durable and        *)
(* unlinks the tree, and a power loss may then bring the old document      *)
(* back.  A recovery killed after it moved the tree back leaves that       *)
(* unsynced too, and the next one does not sync what it finds in place.    *)
(***************************************************************************)
EXTENDS Profiles_proofs

------------------------------------------------------------------------------
(* The inductive invariant *)

(* What a power loss may leave and no recovery has passed over.             *)
DataLeft == onData \ passedData
TreesLeft == onTrees \ passedTrees

(* The data root d goes with the provider root p.                           *)
Consistent(d, p) ==
  /\ d.barrier # None =>
       /\ d.sidecar \in {None, d.barrier}
       /\ p.at[d.barrier.id] \in {"live", "tombstone"}
       /\ d.sidecar = None => Tombstones(p) = {}
       /\ Tombstones(p) \subseteq {d.barrier.id}
  /\ d.barrier = None /\ d.sidecar # None =>
       /\ d.doc[d.sidecar.id] = None
       /\ p.at[d.sidecar.id] \in {"tombstone", "partial", "none"}
       /\ Tombstones(p) \subseteq {d.sidecar.id}
  /\ d.barrier = None /\ d.sidecar = None => Tombstones(p) = {}
  /\ d.tmp => d.barrier # None
  /\ \A i \in Rows(d) :
       \/ p.at[i] = "live"
       \/ p.at[i] = "tombstone" /\ d.barrier # None /\ d.barrier.id = i

(* Whatever is left of the one root goes with whatever is left of the       *)
(* other.  While a tombstone stands behind the barrier, the barrier is      *)
(* there to stay.                                                           *)
AllConsistent ==
  /\ data \in DataLeft /\ trees \in TreesLeft
  /\ \A d \in DataLeft, p \in TreesLeft : Consistent(d, p)
  /\ data.barrier # None /\ Tombstones(trees) # {} => \A d \in DataLeft : d.barrier # None

NoProof(d) == d.barrier = None /\ d.sidecar = None

(* What the command that has the registry lock knows of what may be left.   *)
LeftInStep(k) ==
  /\ k.pc = "tomb" => DataLeft = {data}
  /\ k.pc = "unlink" => \A d \in DataLeft : d.barrier = None
  /\ k.pc \in Registering => NoProof(data)
  /\ k.pc \in {"barrier_sync", "sidecar_tmp", "sidecar"} => data.sidecar = None
  /\ k.pc \in {"back_sync", "back_sidecar", "back_sidecar_sync", "back_publish"} =>
       data.barrier = k.proof
  /\ k.pc \in {"back_sidecar_sync", "back_publish"} => data.sidecar = None /\ ~data.tmp
  /\ k.pc \in {"back_sidecar", "back_sidecar_sync", "back_publish"} =>
       \A p \in TreesLeft : p.at[k.proof.id] = "live"
  /\ k.pc \in {"sidecar_sync", "tomb", "tomb_sync", "publish"} => ~data.tmp
  /\ k.pc \in {"publish", "publish_sync"} =>
       \A p \in TreesLeft : p.at[k.proof.id] = "tombstone"
  /\ k.pc = "register_sync" => trees.at[k.id] = "live"
  /\ k.pc = "register_publish" => \A p \in TreesLeft : p.at[k.id] = "live"

RemovalInv ==
  /\ AllConsistent
  /\ \A c \in Client : LeftInStep(client[c])

------------------------------------------------------------------------------
(* What may be left *)

LEMMA PresentIsLeft ==
  ASSUME LedgerInv, RemovalInv
  PROVE  data \in DataLeft /\ trees \in TreesLeft /\ DataLeft \subseteq onData /\ TreesLeft \subseteq onTrees
  BY DEF RemovalInv, AllConsistent, DataLeft, TreesLeft

LEMMA ConsistentNext ==
  ASSUME data' \in DataLeft', trees' \in TreesLeft',
         \A d \in DataLeft', p \in TreesLeft' : Consistent(d, p),
         data'.barrier # None /\ Tombstones(trees') # {} => \A d \in DataLeft' : d.barrier # None
  PROVE  AllConsistent'
  BY DEF AllConsistent, Consistent, Tombstones, Rows

LEMMA ConsistentNow ==
  ASSUME LedgerInv, RemovalInv
  PROVE  /\ \A d \in DataLeft, p \in TreesLeft : Consistent(d, p)
         /\ \A p \in TreesLeft : Consistent(data, p)
         /\ \A d \in DataLeft : Consistent(d, trees)
         /\ data.barrier # None /\ Tombstones(trees) # {} => \A d \in DataLeft : d.barrier # None
  BY DEF RemovalInv, AllConsistent

(* Only the places of the trees count. *)
LEMMA SamePlaces ==
  ASSUME NEW d, NEW p, NEW q, p.at = q.at, Consistent(d, q)
  PROVE  Consistent(d, p)
  BY DEF Consistent, Tombstones

(* One operation on a directory, or its sync. *)
LEMMA DataChanges ==
  ASSUME LedgerInv, RemovalInv, SameTrees, NEW d, ChangeData(d),
         \A p \in TreesLeft : Consistent(d, p),
         d.barrier # None => data.barrier # None \/ Tombstones(trees) = {}
  PROVE  AllConsistent' /\ TreesLeft' = TreesLeft
  <1>1. TreesLeft' = TreesLeft /\ trees' = trees /\ data' = d
    BY DEF TreesLeft, SameTrees, ChangeData
  <1>2. d \in DataLeft' /\ \A x \in DataLeft' : x \in DataLeft \/ x = d
    BY DEF DataLeft, ChangeData
  <1>3. \A x \in DataLeft', p \in TreesLeft' : Consistent(x, p)
    BY <1>1, <1>2, ConsistentNow
  <1>4. ASSUME d.barrier # None, Tombstones(trees) # {} PROVE \A x \in DataLeft' : x.barrier # None
    BY <1>2, <1>4, ConsistentNow
  <1>5. data' \in DataLeft' /\ trees' \in TreesLeft'
    BY <1>1, <1>2, PresentIsLeft
  <1> QED BY <1>1, <1>3, <1>4, <1>5, ConsistentNext

LEMMA TreesChange ==
  ASSUME LedgerInv, RemovalInv, SameData, NEW p, ChangeTrees(p),
         \A d \in DataLeft : Consistent(d, p),
         data.barrier # None /\ Tombstones(p) # {} => DataLeft = {data}
  PROVE  AllConsistent' /\ DataLeft' = DataLeft
  <1>1. DataLeft' = DataLeft /\ data' = data /\ trees' = p
    BY DEF DataLeft, SameData, ChangeTrees
  <1>2. p \in TreesLeft' /\ \A x \in TreesLeft' : x \in TreesLeft \/ x = p
    BY DEF TreesLeft, ChangeTrees
  <1>3. \A d \in DataLeft', x \in TreesLeft' : Consistent(d, x)
    BY <1>1, <1>2, ConsistentNow
  <1>4. data' \in DataLeft' /\ trees' \in TreesLeft'
    BY <1>1, <1>2, PresentIsLeft
  <1> QED BY <1>1, <1>3, <1>4, ConsistentNext

LEMMA DataSyncs ==
  ASSUME LedgerInv, RemovalInv, SameTrees, SyncData
  PROVE  AllConsistent' /\ TreesLeft' = TreesLeft /\ DataLeft' = {data} /\ data' = data
  <1>1. TreesLeft' = TreesLeft /\ DataLeft' = {data} /\ data' = data /\ trees' = trees
    BY DEF TreesLeft, SameTrees, DataLeft, SyncData
  <1> QED BY <1>1, PresentIsLeft, ConsistentNow, ConsistentNext

LEMMA TreesSync ==
  ASSUME LedgerInv, RemovalInv, SameData, SyncTrees
  PROVE  AllConsistent' /\ DataLeft' = DataLeft /\ TreesLeft' = {trees} /\ trees' = trees
  <1>1. DataLeft' = DataLeft /\ TreesLeft' = {trees} /\ trees' = trees /\ data' = data
    BY DEF TreesLeft, SameData, DataLeft, SyncTrees
  <1> QED BY <1>1, PresentIsLeft, ConsistentNow, ConsistentNext

LEMMA NothingChanges ==
  ASSUME LedgerInv, RemovalInv, SameData, SameTrees
  PROVE  AllConsistent' /\ DataLeft' = DataLeft /\ TreesLeft' = TreesLeft
  <1>1. DataLeft' = DataLeft /\ TreesLeft' = TreesLeft /\ data' = data /\ trees' = trees
    BY DEF TreesLeft, SameData, DataLeft, SameTrees
  <1> QED BY <1>1, PresentIsLeft, ConsistentNow, ConsistentNext

(* A recovery passes over what it does not find.                            *)
LEMMA PassesOver ==
  ASSUME LedgerInv, RemovalInv, UNCHANGED <<data, onData, trees, onTrees>>,
         passedData \subseteq passedData', data \notin passedData',
         passedTrees \subseteq passedTrees', trees \notin passedTrees'
  PROVE  AllConsistent' /\ DataLeft' \subseteq DataLeft /\ TreesLeft' \subseteq TreesLeft
  <1>1. /\ DataLeft' \subseteq DataLeft /\ TreesLeft' \subseteq TreesLeft /\ data' = data /\ trees' = trees
        /\ data \in DataLeft' /\ trees \in TreesLeft'
    BY PresentIsLeft DEF TreesLeft, DataLeft
  <1> QED BY <1>1, ConsistentNow, ConsistentNext

(* No tree moves.                                                           *)
TreesStill ==
  /\ trees'.at = trees.at /\ trees' \in TreesLeft'
  /\ \A p \in TreesLeft' : \E q \in TreesLeft : p.at = q.at

LEMMA StillTrees ==
  ASSUME LedgerInv, RemovalInv, SameTrees
  PROVE  TreesStill
  <1>1. TreesLeft' = TreesLeft /\ trees' = trees
    BY DEF SameTrees, TreesLeft
  <1> QED BY <1>1, PresentIsLeft DEF TreesStill

------------------------------------------------------------------------------
(* Only the command that has the registry lock has something to keep *)

LEMMA WriterAlone ==
  ASSUME NEW k, k.pc \notin Writing
  PROVE  LeftInStep(k)
  BY DEF LeftInStep, Writing, Removing, Finishing, Restoring, Registering

LEMMA WriterAloneNext ==
  ASSUME NEW c, client'[c].pc \notin Writing
  PROVE  LeftInStep(client[c])'
  BY DEF LeftInStep, Writing, Removing, Finishing, Restoring, Registering

(* A step after which c has the lock. *)
LEMMA WriterGoesOn ==
  ASSUME LedgerInv, LedgerInv', RemovalInv, NEW c \in Client, registryLock' = c,
         AllConsistent', LeftInStep(client[c])'
  PROVE  RemovalInv'
  <1>1. \A o \in Client : LeftInStep(client[o])'
    <2> SUFFICES ASSUME NEW o \in Client, o # c PROVE LeftInStep(client[o])'
      OBVIOUS
    <2>1. client'[o].pc \notin Writing
      BY DEF LedgerInv, LocksInStep, Writing
    <2> QED BY <2>1, WriterAloneNext
  <1> QED BY <1>1 DEF RemovalInv

(* A step after which nobody has it. *)
LEMMA NobodyWrites ==
  ASSUME LedgerInv, LedgerInv', RemovalInv, registryLock' = None, AllConsistent'
  PROVE  RemovalInv'
  <1>1. \A o \in Client : LeftInStep(client[o])'
    <2> SUFFICES ASSUME NEW o \in Client PROVE LeftInStep(client[o])'
      OBVIOUS
    <2>1. client'[o].pc \notin Writing
      BY ProfilesAssumption DEF LedgerInv, LocksInStep, Writing
    <2> QED BY <2>1, WriterAloneNext
  <1> QED BY <1>1 DEF RemovalInv

(* A step of a command that has not got it: no tree moves.                  *)
LEMMA Bystander ==
  ASSUME LedgerInv, LedgerInv', RemovalInv, NEW c \in Client, registryLock # c, registryLock' = registryLock,
         \A o \in Client \ {c} : client'[o] = client[o],
         SameData, TreesStill
  PROVE  RemovalInv'
  <1>1. DataLeft' = DataLeft /\ data' = data
    BY DEF SameData, DataLeft
  <1>2. /\ \A p \in TreesLeft' : \E q \in TreesLeft : p.at = q.at
        /\ trees'.at = trees.at /\ trees' \in TreesLeft'
    BY DEF TreesStill
  <1>3. AllConsistent'
    <2>1. \A d \in DataLeft', p \in TreesLeft' : Consistent(d, p)
      BY <1>1, <1>2, SamePlaces, ConsistentNow
    <2>2. Tombstones(trees') = Tombstones(trees)
      BY <1>2 DEF Tombstones
    <2> QED BY <1>1, <1>2, <2>1, <2>2, PresentIsLeft, ConsistentNow, ConsistentNext
  <1>4. CASE registryLock = None
    BY <1>3, <1>4, NobodyWrites
  <1>5. CASE registryLock # None
    <2>1. PICK w \in Client : registryLock = w /\ w # c /\ client'[w] = client[w] /\ registryLock' = w
      BY <1>5 DEF LedgerInv, TypeOK, Option
    <2>2. LeftInStep(client[w])
      BY DEF RemovalInv
    <2>3. LeftInStep(client[w])'
      BY <1>1, <1>2, <2>1, <2>2 DEF LeftInStep, NoProof
    <2> QED BY <1>3, <2>1, <2>3, WriterGoesOn
  <1> QED BY <1>4, <1>5

------------------------------------------------------------------------------
(* Steps of commands that do not write the registry *)

(* A command gives up, or goes on, and returns its locks.                   *)
LEMMA Returns ==
  ASSUME LedgerInv, NEW c \in Client, client[c].pc \notin Writing, Unlock(c)
  PROVE  registryLock # c /\ registryLock' = registryLock
  BY DEF LedgerInv, LocksInStep, Unlock

LEMMA HoldsNot ==
  ASSUME LedgerInv, NEW c \in Client, client[c].pc \notin Writing
  PROVE  registryLock # c
  BY DEF LedgerInv, LocksInStep

LEMMA EndsBystander ==
  ASSUME LedgerInv, LedgerInv', RemovalInv, NEW c \in Client, client[c].pc \notin Writing, End(c),
         SameData, TreesStill
  PROVE  RemovalInv'
  <1>1. \A o \in Client \ {c} : client'[o] = client[o]
    BY DEF End, LedgerInv, TypeOK
  <1>2. registryLock # c /\ registryLock' = registryLock
    BY Returns DEF End
  <1> QED BY <1>1, <1>2, Bystander

LEMMA LooksRemoval ==
  ASSUME LedgerInv, LedgerInv', RemovalInv, NEW c \in Client,
         Preflight(c) \/ Quiesce(c) \/ LockTree(c) \/ Relock(c)
  PROVE  RemovalInv'
  <1>1. /\ client[c].pc \notin Writing /\ SameData /\ TreesStill
    BY StillTrees DEF Preflight, Quiesce, LockTree, Relock, ghosts, counters, Writing, Removing, Finishing, Restoring, Registering
  <1>2. \A o \in Client \ {c} : client'[o] = client[o]
    BY DEF LedgerInv, TypeOK, Preflight, Quiesce, LockTree, Relock, End, Goto, Resume
  <1>3. registryLock' = registryLock \/ Unlock(c)
    BY DEF Preflight, Quiesce, LockTree, Relock, End, Resume, locks
  <1>4. registryLock # c /\ registryLock' = registryLock
    BY <1>1, <1>3, Returns, HoldsNot
  <1> QED BY <1>1, <1>2, <1>4, Bystander

LEMMA ChoosesRemoval ==
  ASSUME LedgerInv, LedgerInv', RemovalInv, NEW c \in Client,
         ReauthScan(c) \/ Select(c) \/ Lease(c) \/ RemoveLock(c)
  PROVE  RemovalInv'
  <1>1. /\ client[c].pc \notin Writing /\ SameData /\ TreesStill
    BY StillTrees DEF ReauthScan, Select, Lease, RemoveLock, ghosts, counters, Writing, Removing, Finishing, Restoring, Registering
  <1>2. \A o \in Client \ {c} : client'[o] = client[o]
    BY DEF LedgerInv, TypeOK, ReauthScan, Select, Lease, RemoveLock, End, Goto
  <1>3. registryLock' = registryLock \/ Unlock(c)
    BY DEF ReauthScan, Select, Lease, RemoveLock, End, locks
  <1>4. registryLock # c /\ registryLock' = registryLock
    BY <1>1, <1>3, Returns, HoldsNot
  <1> QED BY <1>1, <1>2, <1>4, Bystander

LEMMA ReauthRemoval ==
  ASSUME LedgerInv, LedgerInv', RemovalInv, NEW c \in Client,
         ReauthClean(c) \/ BeginReauth(c) \/ EndReauth(c)
  PROVE  RemovalInv'
  <1>1. /\ client[c].pc \notin Writing /\ SameData
    BY DEF ReauthClean, BeginReauth, EndReauth, ghosts, counters, Writing, Removing, Finishing, Restoring, Registering
  <1>2. \A o \in Client \ {c} : client'[o] = client[o]
    BY DEF LedgerInv, TypeOK, ReauthClean, BeginReauth, EndReauth, End, Goto, Resume
  <1>3. registryLock' = registryLock \/ Unlock(c)
    BY DEF ReauthClean, BeginReauth, EndReauth, End, Resume, locks
  <1>4. registryLock # c /\ registryLock' = registryLock
    BY <1>1, <1>3, Returns, HoldsNot
  <1>5. TreesStill
    <2>1. \/ SameTrees
          \/ \E S : ChangeTrees([trees EXCEPT !.reauth = S])
          \/ \E S : ChangeAndSyncTrees([trees EXCEPT !.reauth = S])
      BY DEF ReauthClean, BeginReauth, EndReauth
    <2>2. CASE SameTrees
      BY <2>2, StillTrees
    <2>3. CASE \E S : \/ ChangeTrees([trees EXCEPT !.reauth = S])
                     \/ ChangeAndSyncTrees([trees EXCEPT !.reauth = S])
      <3>1. PICK S : \/ ChangeTrees([trees EXCEPT !.reauth = S])
                     \/ ChangeAndSyncTrees([trees EXCEPT !.reauth = S])
        BY <2>3
      <3>2. PICK p : p = [trees EXCEPT !.reauth = S] /\ p.at = trees.at
        <4>1. trees \in Trees
          BY DEF LedgerInv, TypeOK
        <4>2. [trees EXCEPT !.reauth = S].at = trees.at
          BY <4>1 DEF Trees
        <4> QED BY <4>2
      <3>3. trees' = p /\ p \in TreesLeft' /\ \A x \in TreesLeft' : x = p \/ x \in TreesLeft
        BY <3>1, <3>2 DEF ChangeTrees, ChangeAndSyncTrees, TreesLeft
      <3> QED BY <3>2, <3>3, PresentIsLeft DEF TreesStill
    <2> QED BY <2>1, <2>2, <2>3
  <1> QED BY <1>1, <1>2, <1>4, <1>5, Bystander

LEMMA StartRemoval ==
  ASSUME LedgerInv, LedgerInv', RemovalInv, NEW c \in Client, NEW kind, NEW alias, NEW to,
         Start(c, kind, alias, to)
  PROVE  RemovalInv'
  <1>1. /\ client[c].pc \notin Writing /\ SameData /\ TreesStill /\ UNCHANGED registryLock
    BY StillTrees DEF Start, locks, Writing, Removing, Finishing, Restoring, Registering
  <1>2. \A o \in Client \ {c} : client'[o] = client[o]
    BY DEF LedgerInv, TypeOK, Start
  <1> QED BY <1>1, <1>2, HoldsNot, Bystander

------------------------------------------------------------------------------
(* Steps that only sync, or wait, under the registry lock *)

LEMMA WriterIs ==
  ASSUME LedgerInv, NEW c \in Client, client[c].pc \in Writing, NEW pc \in Pc, Goto(c, pc),
         UNCHANGED locks
  PROVE  /\ registryLock = c /\ registryLock' = c
         /\ client'[c].pc = pc /\ client'[c].id = client[c].id /\ client'[c].proof = client[c].proof
         /\ Shape(client[c]) /\ Wrote(client[c]) /\ data \in Data /\ trees \in Trees
  <1>1. registryLock = c /\ registryLock' = c /\ TypeOK
        /\ Shape(client[c]) /\ Wrote(client[c])
    BY DEF LedgerInv, LocksInStep, locks, ghosts, counters
  <1>2. PICK k : /\ client' = [client EXCEPT ![c] = k]
                 /\ k.pc = pc /\ k.id = client[c].id /\ k.proof = client[c].proof
    <2> DEFINE k == [client[c] EXCEPT !.pc = pc]
    <2>1. /\ client' = [client EXCEPT ![c] = k]
          /\ k.pc = pc /\ k.id = client[c].id /\ k.proof = client[c].proof
      BY <1>1, GoesTo
    <2> HIDE DEF k
    <2> QED BY <2>1
  <1>3. client'[c] = k /\ data \in Data /\ trees \in Trees
    BY <1>1, <1>2 DEF TypeOK
  <1> QED BY <1>1, <1>2, <1>3

LEMMA SyncRestoredRemoval ==
  ASSUME LedgerInv, LedgerInv', RemovalInv, NEW c \in Client, SyncRestored(c)
  PROVE  RemovalInv'
  <1>1. /\ client[c].pc = "back_sync" /\ Goto(c, "back_sidecar") /\ "back_sidecar" \in Pc /\ client[c].pc \in Writing
        /\ UNCHANGED locks /\ SyncTrees /\ SameData /\ client[c].pc \in Restoring
    BY DEF SyncRestored, Pc, Writing, Restoring
  <1>2. /\ registryLock' = c
        /\ client'[c].pc = "back_sidecar" /\ client'[c].proof = client[c].proof /\ Wrote(client[c])
    BY <1>1, WriterIs
  <1>3. AllConsistent' /\ DataLeft' = DataLeft /\ TreesLeft' = {trees} /\ trees' = trees
    BY <1>1, <1>2, TreesSync
  <1>4. LeftInStep(client[c])
    BY DEF RemovalInv
  <1>5. trees.at[client[c].proof.id] = "live" /\ data.barrier = client[c].proof
    BY <1>1, <1>2, <1>4 DEF Wrote, LeftInStep
  <1>6. LeftInStep(client[c])'
    BY <1>1, <1>2, <1>3, <1>5 DEF LeftInStep, Registering, SameData
  <1> QED BY <1>2, <1>3, <1>6, WriterGoesOn

(* The data root is synced. *)
LEMMA DataSyncRemoval ==
  ASSUME LedgerInv, LedgerInv', RemovalInv, NEW c \in Client,
         SyncRollbackSidecar(c) \/ SyncBarrier(c) \/ SyncSidecar(c) \/ SyncRemoval(c)
  PROVE  RemovalInv'
  <1>1. PICK pc \in Pc :
        /\ Goto(c, pc) /\ UNCHANGED locks /\ SyncData /\ SameTrees
        /\ \/ client[c].pc = "back_sidecar_sync" /\ pc = "back_publish"
           \/ client[c].pc = "barrier_sync" /\ pc = "sidecar_tmp"
           \/ client[c].pc = "sidecar_sync" /\ pc = "tomb"
           \/ client[c].pc = "publish_sync" /\ pc = "unlink"
    BY DEF SyncRollbackSidecar, SyncBarrier, SyncSidecar, SyncRemoval, Pc
  <1>2. client[c].pc \in Writing
    BY <1>1 DEF Writing, Removing, Restoring
  <1>3. /\ registryLock' = c
        /\ client'[c].pc = pc /\ client'[c].proof = client[c].proof /\ Wrote(client[c])
    BY <1>1, <1>2, WriterIs
  <1>4. AllConsistent' /\ TreesLeft' = TreesLeft /\ DataLeft' = {data} /\ data' = data
    BY <1>1, <1>3, DataSyncs
  <1>5. LeftInStep(client[c]) /\ (client[c].pc = "publish_sync" => data.barrier = None)
    BY <1>3 DEF RemovalInv, Wrote
  <1>6. LeftInStep(client[c])'
    BY <1>1, <1>3, <1>4, <1>5 DEF LeftInStep, Registering
  <1> QED BY <1>3, <1>4, <1>6, WriterGoesOn

(* The provider root is synced. *)
LEMMA TreesSyncRemoval ==
  ASSUME LedgerInv, LedgerInv', RemovalInv, NEW c \in Client,
         SyncTomb(c) \/ SyncUnlinked(c) \/ RegisterSync(c)
  PROVE  RemovalInv'
  <1>1. PICK pc \in Pc :
        /\ Goto(c, pc) /\ UNCHANGED locks /\ SyncTrees /\ SameData
        /\ \/ client[c].pc = "tomb_sync" /\ pc = "publish"
           \/ client[c].pc = "unlink_sync" /\ pc = "drop"
           \/ client[c].pc = "register_sync" /\ pc = "register_publish"
    BY DEF SyncTomb, SyncUnlinked, RegisterSync, Pc
  <1>2. client[c].pc \in Writing
    BY <1>1 DEF Writing, Removing, Finishing, Registering
  <1>3. /\ registryLock' = c
        /\ client'[c].pc = pc /\ client'[c].proof = client[c].proof /\ client'[c].id = client[c].id
        /\ Shape(client[c]) /\ Wrote(client[c])
    BY <1>1, <1>2, WriterIs
  <1>4. AllConsistent' /\ DataLeft' = DataLeft /\ TreesLeft' = {trees} /\ data' = data
    BY <1>1, <1>3, TreesSync DEF SameData
  <1>5. LeftInStep(client[c])
    BY DEF RemovalInv
  <1>6. pc = "publish" => trees.at[client[c].proof.id] = "tombstone"
    BY <1>1, <1>3 DEF Shape, Wrote, Removing
  <1>7. LeftInStep(client[c])'
    BY <1>1, <1>3, <1>4, <1>5, <1>6 DEF LeftInStep, Registering, NoProof
  <1> QED BY <1>3, <1>4, <1>7, WriterGoesOn

LEMMA RegisterLoginRemoval ==
  ASSUME LedgerInv, LedgerInv', RemovalInv, NEW c \in Client, RegisterLogin(c)
  PROVE  RemovalInv'
  <1>1. /\ client[c].pc = "register_login" /\ Goto(c, "register_move") /\ "register_move" \in Pc
        /\ client[c].pc \in Writing /\ UNCHANGED locks /\ SameData /\ SameTrees
    BY DEF RegisterLogin, Pc, Writing, Registering
  <1>2. /\ registryLock' = c /\ client'[c].pc = "register_move"
    BY <1>1, WriterIs
  <1>3. AllConsistent' /\ DataLeft' = DataLeft /\ TreesLeft' = TreesLeft /\ data' = data
    BY <1>1, <1>2, NothingChanges DEF SameData
  <1>4. LeftInStep(client[c])
    BY DEF RemovalInv
  <1>5. LeftInStep(client[c])'
    BY <1>1, <1>2, <1>3, <1>4 DEF LeftInStep, Registering, NoProof
  <1> QED BY <1>2, <1>3, <1>5, WriterGoesOn

(* The command is over, and the data root synced. *)
LEMMA SyncEndRemoval ==
  ASSUME LedgerInv, LedgerInv', RemovalInv, NEW c \in Client,
         SyncRollback(c) \/ SaveSync(c) \/ SyncDropped(c)
  PROVE  RemovalInv'
  <1>1. /\ client[c].pc \in {"back_publish_sync", "save_sync", "drop_sync"}
        /\ SyncData /\ SameTrees /\ Unlock(c)
    BY DEF SyncRollback, SaveSync, SyncDropped, ghosts, counters, Resume, End
  <1>2. registryLock = c
    BY <1>1 DEF LedgerInv, LocksInStep, Writing, Finishing, Restoring
  <1>3. registryLock' = None
    BY <1>1, <1>2 DEF Unlock
  <1>4. AllConsistent'
    BY <1>1, DataSyncs
  <1> QED BY <1>3, <1>4, NobodyWrites

------------------------------------------------------------------------------
(* Steps that change the data root *)

LEMMA RollbackSidecarRemoval ==
  ASSUME LedgerInv, LedgerInv', RemovalInv, NEW c \in Client, RollbackSidecar(c)
  PROVE  RemovalInv'
  <1>1. /\ client[c].pc = "back_sidecar" /\ Goto(c, "back_sidecar_sync") /\ "back_sidecar_sync" \in Pc
        /\ client[c].pc \in Writing /\ UNCHANGED locks /\ SameTrees
        /\ ChangeData([data EXCEPT !.sidecar = None, !.tmp = FALSE])
    BY DEF RollbackSidecar, Pc, Writing, Restoring
  <1>2. /\ registryLock' = c /\ data \in Data
        /\ client'[c].pc = "back_sidecar_sync" /\ client'[c].proof = client[c].proof
        /\ Shape(client[c])
    BY <1>1, WriterIs
  <1>3. PICK d : ChangeData(d) /\ d = Dir(data.doc, data.barrier, None, FALSE)
    <2>1. [data EXCEPT !.sidecar = None, !.tmp = FALSE] = Dir(data.doc, data.barrier, None, FALSE)
      BY <1>2, EditSidecar
    <2> QED BY <1>1, <2>1
  <1>4. d.doc = data.doc /\ d.barrier = data.barrier /\ d.sidecar = None /\ d.tmp = FALSE
    BY <1>3 DEF Dir
  <1>5. LeftInStep(client[c])
    BY DEF RemovalInv
  <1>6. /\ data.barrier = client[c].proof /\ client[c].proof \in Proof /\ client[c].proof # None
        /\ \A p \in TreesLeft : p.at[client[c].proof.id] = "live"
    BY <1>1, <1>2, <1>5, ProofNotNone DEF LeftInStep, Shape, Restoring
  <1>7. ASSUME NEW p \in TreesLeft PROVE Consistent(d, p)
    <2>1. Consistent(data, p)
      BY ConsistentNow
    <2>2. Tombstones(p) = {}
      BY <1>6, <2>1 DEF Consistent, Tombstones
    <2> QED BY <1>4, <1>6, <2>1, <2>2 DEF Consistent, Rows
  <1>8. AllConsistent' /\ TreesLeft' = TreesLeft
    BY <1>1, <1>2, <1>3, <1>4, <1>7, DataChanges
  <1>9. LeftInStep(client[c])'
    BY <1>2, <1>3, <1>4, <1>6, <1>8 DEF LeftInStep, Registering, ChangeData
  <1> QED BY <1>2, <1>8, <1>9, WriterGoesOn

LEMMA RollbackPublishRemoval ==
  ASSUME LedgerInv, LedgerInv', RemovalInv, NEW c \in Client, RollbackPublish(c)
  PROVE  RemovalInv'
  <1>1. /\ client[c].pc = "back_publish" /\ Goto(c, "back_publish_sync") /\ "back_publish_sync" \in Pc
        /\ client[c].pc \in Writing /\ UNCHANGED locks /\ SameTrees
        /\ ChangeData([data EXCEPT !.barrier = None])
    BY DEF RollbackPublish, Pc, Writing, Restoring
  <1>2. /\ registryLock' = c /\ data \in Data
        /\ client'[c].pc = "back_publish_sync" /\ Shape(client[c])
    BY <1>1, WriterIs
  <1>3. PICK d : ChangeData(d) /\ d = Dir(data.doc, None, data.sidecar, data.tmp)
    BY <1>1, <1>2, EditBarrier
  <1>4. d.doc = data.doc /\ d.barrier = None /\ d.sidecar = data.sidecar /\ d.tmp = data.tmp
    BY <1>3 DEF Dir
  <1>5. LeftInStep(client[c])
    BY DEF RemovalInv
  <1>6. /\ data.barrier = client[c].proof /\ client[c].proof # None /\ data.sidecar = None /\ ~data.tmp
        /\ \A p \in TreesLeft : p.at[client[c].proof.id] = "live"
    BY <1>1, <1>2, <1>5, ProofNotNone DEF LeftInStep, Shape, Restoring
  <1>7. ASSUME NEW p \in TreesLeft PROVE Consistent(d, p)
    <2>1. Consistent(data, p)
      BY ConsistentNow
    <2>2. Tombstones(p) = {}
      BY <1>6, <2>1 DEF Consistent, Tombstones
    <2>3. \A i \in Rows(data) : p.at[i] = "live"
      BY <1>6, <2>1 DEF Consistent
    <2> QED BY <1>4, <1>6, <2>2, <2>3 DEF Consistent, Rows
  <1>8. AllConsistent' /\ TreesLeft' = TreesLeft
    BY <1>1, <1>2, <1>3, <1>4, <1>7, DataChanges
  <1>9. LeftInStep(client[c])'
    BY <1>2, <1>3, <1>4, <1>6 DEF LeftInStep, Registering, ChangeData, NoProof
  <1> QED BY <1>2, <1>8, <1>9, WriterGoesOn

LEMMA WriteSidecarRemoval ==
  ASSUME LedgerInv, LedgerInv', RemovalInv, NEW c \in Client, WriteSidecar(c)
  PROVE  RemovalInv'
  <1>1. /\ client[c].pc = "sidecar_tmp" /\ Goto(c, "sidecar") /\ "sidecar" \in Pc
        /\ client[c].pc \in Writing /\ UNCHANGED locks /\ SameTrees
        /\ ChangeData([data EXCEPT !.tmp = TRUE])
    BY DEF WriteSidecar, Pc, Writing, Removing
  <1>2. /\ registryLock' = c /\ data \in Data
        /\ client'[c].pc = "sidecar" /\ Shape(client[c]) /\ Wrote(client[c])
    BY <1>1, WriterIs
  <1>3. PICK d : ChangeData(d) /\ d = Dir(data.doc, data.barrier, data.sidecar, TRUE)
    BY <1>1, <1>2, EditTmp
  <1>4. d.doc = data.doc /\ d.barrier = data.barrier /\ d.sidecar = data.sidecar /\ d.tmp = TRUE
    BY <1>3 DEF Dir
  <1>5. LeftInStep(client[c])
    BY DEF RemovalInv
  <1>6. data.barrier # None /\ data.sidecar = None
    BY <1>1, <1>2, <1>5, ProofNotNone DEF LeftInStep, Shape, Wrote, Removing
  <1>7. ASSUME NEW p \in TreesLeft PROVE Consistent(d, p)
    <2>1. Consistent(data, p)
      BY ConsistentNow
    <2> QED BY <1>4, <1>6, <2>1 DEF Consistent, Rows
  <1>8. AllConsistent' /\ TreesLeft' = TreesLeft
    BY <1>1, <1>2, <1>3, <1>4, <1>7, DataChanges
  <1>9. LeftInStep(client[c])'
    BY <1>2, <1>3, <1>4, <1>6 DEF LeftInStep, Registering, ChangeData
  <1> QED BY <1>2, <1>8, <1>9, WriterGoesOn

LEMMA PublishSidecarRemoval ==
  ASSUME LedgerInv, LedgerInv', RemovalInv, NEW c \in Client, PublishSidecar(c)
  PROVE  RemovalInv'
  <1>1. /\ client[c].pc = "sidecar" /\ Goto(c, "sidecar_sync") /\ "sidecar_sync" \in Pc
        /\ client[c].pc \in Writing /\ UNCHANGED locks /\ SameTrees
        /\ ChangeData([data EXCEPT !.tmp = FALSE, !.sidecar = client[c].proof])
    BY DEF PublishSidecar, Pc, Writing, Removing
  <1>2. /\ registryLock' = c /\ data \in Data
        /\ client'[c].pc = "sidecar_sync" /\ Shape(client[c]) /\ Wrote(client[c])
    BY <1>1, WriterIs
  <1>3. PICK d : ChangeData(d) /\ d = Dir(data.doc, data.barrier, client[c].proof, FALSE)
    BY <1>1, <1>2, EditSidecar
  <1>4. d.doc = data.doc /\ d.barrier = data.barrier /\ d.sidecar = client[c].proof /\ d.tmp = FALSE
    BY <1>3 DEF Dir
  <1>5. LeftInStep(client[c])
    BY DEF RemovalInv
  <1>6. data.barrier = client[c].proof /\ client[c].proof # None /\ data.sidecar = None
    BY <1>1, <1>2, <1>5, ProofNotNone DEF LeftInStep, Shape, Wrote, Removing
  <1>7. ASSUME NEW p \in TreesLeft PROVE Consistent(d, p)
    <2>1. Consistent(data, p)
      BY ConsistentNow
    <2> QED BY <1>4, <1>6, <2>1 DEF Consistent, Rows
  <1>8. AllConsistent' /\ TreesLeft' = TreesLeft
    BY <1>1, <1>2, <1>3, <1>4, <1>7, DataChanges
  <1>9. LeftInStep(client[c])'
    BY <1>2, <1>3, <1>4, <1>6 DEF LeftInStep, Registering, ChangeData
  <1> QED BY <1>2, <1>8, <1>9, WriterGoesOn

LEMMA PublishRemovalRemoval ==
  ASSUME LedgerInv, LedgerInv', RemovalInv, NEW c \in Client, PublishRemoval(c)
  PROVE  RemovalInv'
  <1>1. /\ client[c].pc = "publish" /\ Goto(c, "publish_sync") /\ "publish_sync" \in Pc
        /\ client[c].pc \in Writing /\ UNCHANGED locks /\ SameTrees
        /\ ChangeData(WithoutRow(data, client[c].proof.id))
    BY DEF PublishRemoval, WithoutRow, Pc, Writing, Removing
  <1>2. /\ registryLock' = c /\ data \in Data
        /\ client'[c].pc = "publish_sync" /\ client'[c].proof = client[c].proof
        /\ Shape(client[c]) /\ Wrote(client[c])
    BY <1>1, WriterIs
  <1>3. PICK j \in Id : j = client[c].proof.id
    BY <1>1, <1>2, ProofNotNone DEF Shape, Removing
  <1>4. PICK d : ChangeData(d) /\ d = Dir([data.doc EXCEPT ![j] = None], None, data.sidecar, data.tmp)
    BY <1>1, <1>2, <1>3, EditRemoved
  <1>5. d.doc = [data.doc EXCEPT ![j] = None] /\ d.barrier = None /\ d.sidecar = data.sidecar /\ d.tmp = data.tmp
    BY <1>4 DEF Dir
  <1>6. LeftInStep(client[c])
    BY DEF RemovalInv
  <1>7. /\ data.barrier = client[c].proof /\ data.sidecar = client[c].proof /\ client[c].proof # None /\ ~data.tmp
        /\ \A p \in TreesLeft : p.at[j] = "tombstone"
    BY <1>1, <1>2, <1>3, <1>6, ProofNotNone DEF LeftInStep, Shape, Wrote, Removing
  <1>8. d.doc[j] = None /\ \A i \in Id \ {j} : d.doc[i] = data.doc[i]
    BY <1>2, <1>5, DataIsDir DEF Document
  <1>9. ASSUME NEW p \in TreesLeft PROVE Consistent(d, p)
    <2>1. Consistent(data, p)
      BY ConsistentNow
    <2>2. Tombstones(p) \subseteq {j} /\ p.at[j] = "tombstone"
      BY <1>3, <1>7, <2>1 DEF Consistent
    <2>3. \A i \in Rows(d) : p.at[i] = "live"
      BY <1>3, <1>7, <1>8, <2>1 DEF Consistent, Rows
    <2> QED BY <1>3, <1>5, <1>7, <1>8, <2>2, <2>3 DEF Consistent
  <1>10. AllConsistent' /\ TreesLeft' = TreesLeft
    BY <1>1, <1>2, <1>4, <1>5, <1>9, DataChanges
  <1>11. LeftInStep(client[c])'
    BY <1>2, <1>3, <1>7, <1>10 DEF LeftInStep, Registering
  <1> QED BY <1>2, <1>10, <1>11, WriterGoesOn

LEMMA DropSidecarRemoval ==
  ASSUME LedgerInv, LedgerInv', RemovalInv, NEW c \in Client, DropSidecar(c)
  PROVE  RemovalInv'
  <1>1. /\ client[c].pc = "drop" /\ Goto(c, "drop_sync") /\ "drop_sync" \in Pc
        /\ client[c].pc \in Writing /\ UNCHANGED locks /\ SameTrees
        /\ ChangeData([data EXCEPT !.sidecar = None, !.tmp = FALSE])
    BY DEF DropSidecar, Pc, Writing, Finishing
  <1>2. /\ registryLock' = c /\ data \in Data
        /\ client'[c].pc = "drop_sync" /\ Shape(client[c]) /\ Wrote(client[c])
    BY <1>1, WriterIs
  <1>3. PICK d : ChangeData(d) /\ d = Dir(data.doc, data.barrier, None, FALSE)
    <2>1. [data EXCEPT !.sidecar = None, !.tmp = FALSE] = Dir(data.doc, data.barrier, None, FALSE)
      BY <1>2, EditSidecar
    <2> QED BY <1>1, <2>1
  <1>4. d.doc = data.doc /\ d.barrier = data.barrier /\ d.sidecar = None /\ d.tmp = FALSE
    BY <1>3 DEF Dir
  <1>5. /\ data.barrier = None /\ data.sidecar = client[c].proof /\ client[c].proof # None
        /\ \A p \in TreesLeft : p.at[client[c].proof.id] = "none"
    BY <1>1, <1>2, ProofNotNone, PresentIsLeft DEF Shape, Wrote, Finishing
  <1>6. ASSUME NEW p \in TreesLeft PROVE Consistent(d, p)
    <2>1. Consistent(data, p)
      BY ConsistentNow
    <2>2. Tombstones(p) = {}
      BY <1>5, <2>1 DEF Consistent, Tombstones
    <2> QED BY <1>4, <1>5, <2>1, <2>2 DEF Consistent, Rows
  <1>7. AllConsistent' /\ TreesLeft' = TreesLeft
    BY <1>1, <1>2, <1>3, <1>4, <1>6, DataChanges
  <1>8. LeftInStep(client[c])'
    BY <1>2 DEF LeftInStep, Registering
  <1> QED BY <1>2, <1>7, <1>8, WriterGoesOn

------------------------------------------------------------------------------
(* Steps that move a tree *)

(* A tree that moves leaves the others where they are. *)
LEMMA Moves ==
  ASSUME TypeOK, NEW i \in Id, NEW place \in Place, MoveTree(i, place)
  PROVE  \E p \in Trees : /\ ChangeTrees(p) /\ p.at[i] = place
                          /\ \A k \in Id \ {i} : p.at[k] = trees.at[k]
  <1>1. /\ [trees EXCEPT !.at[i] = place] \in Trees
        /\ [trees EXCEPT !.at[i] = place].at = [trees.at EXCEPT ![i] = place]
    BY EditTree DEF TypeOK
  <1>2. ChangeTrees([trees EXCEPT !.at[i] = place])
    BY DEF MoveTree
  <1>3. PICK p \in Trees : ChangeTrees(p) /\ p.at = [trees.at EXCEPT ![i] = place]
    BY <1>1, <1>2
  <1>4. trees.at \in [Id -> Place]
    BY DEF TypeOK, Trees
  <1> QED BY <1>3, <1>4

LEMMA EntombRemoval ==
  ASSUME LedgerInv, LedgerInv', RemovalInv, NEW c \in Client, Entomb(c)
  PROVE  RemovalInv'
  <1>1. /\ client[c].pc = "tomb" /\ Goto(c, "tomb_sync") /\ "tomb_sync" \in Pc
        /\ client[c].pc \in Writing /\ UNCHANGED locks /\ SameData
        /\ MoveTree(client[c].proof.id, "tombstone") /\ "tombstone" \in Place
    BY DEF Entomb, Pc, Place, Writing, Removing
  <1>2. /\ registryLock' = c
        /\ client'[c].pc = "tomb_sync" /\ Shape(client[c]) /\ Wrote(client[c]) /\ TypeOK
    BY <1>1, WriterIs DEF LedgerInv
  <1>3. PICK j \in Id : j = client[c].proof.id
    BY <1>1, <1>2, ProofNotNone DEF Shape, Removing
  <1>4. PICK p \in Trees : /\ ChangeTrees(p) /\ p.at[j] = "tombstone"
                           /\ \A k \in Id \ {j} : p.at[k] = trees.at[k]
    BY <1>1, <1>2, <1>3, Moves
  <1>5. LeftInStep(client[c])
    BY DEF RemovalInv
  <1>6. /\ data.barrier = client[c].proof /\ data.sidecar = client[c].proof /\ client[c].proof # None
        /\ DataLeft = {data} /\ ~data.tmp
    BY <1>1, <1>2, <1>5, ProofNotNone DEF LeftInStep, Shape, Wrote, Removing
  <1>7. Consistent(data, trees)
    BY ConsistentNow, PresentIsLeft
  <1>8. Consistent(data, p)
    <2>1. Tombstones(p) \subseteq {j}
      BY <1>3, <1>4, <1>6, <1>7 DEF Consistent, Tombstones
    <2>2. \A i \in Rows(data) : p.at[i] = "live" \/ i = j
      BY <1>3, <1>4, <1>6, <1>7 DEF Consistent, Rows
    <2> QED BY <1>3, <1>4, <1>6, <2>1, <2>2 DEF Consistent
  <1>9. AllConsistent' /\ DataLeft' = DataLeft /\ data' = data
    BY <1>1, <1>2, <1>4, <1>6, <1>8, TreesChange DEF SameData
  <1>10. LeftInStep(client[c])'
    BY <1>2, <1>6, <1>9 DEF LeftInStep, Registering
  <1> QED BY <1>2, <1>9, <1>10, WriterGoesOn

LEMMA UnlinksRemoval ==
  ASSUME LedgerInv, LedgerInv', RemovalInv, NEW c \in Client, Unlink(c) \/ Unlinked(c)
  PROVE  RemovalInv'
  <1>1. PICK pc \in {"unlinked", "unlink_sync"}, place \in {"partial", "none"} :
        /\ client[c].pc \in {"unlink", "unlinked"} /\ Goto(c, pc) /\ MoveTree(client[c].proof.id, place)
        /\ UNCHANGED locks /\ SameData
    BY DEF Unlink, Unlinked
  <1>2. client[c].pc \in Writing /\ client[c].pc \in Finishing /\ pc \in Pc /\ place \in Place
    BY <1>1 DEF Pc, Place, Writing, Finishing
  <1>3. /\ registryLock' = c
        /\ client'[c].pc = pc /\ Shape(client[c]) /\ Wrote(client[c]) /\ TypeOK
    BY <1>1, <1>2, WriterIs DEF LedgerInv
  <1>4. PICK j \in Id : j = client[c].proof.id
    BY <1>2, <1>3, ProofNotNone DEF Shape
  <1>5. PICK p \in Trees : /\ ChangeTrees(p) /\ p.at[j] = place
                           /\ \A k \in Id \ {j} : p.at[k] = trees.at[k]
    BY <1>1, <1>2, <1>3, <1>4, Moves
  <1>6. LeftInStep(client[c])
    BY DEF RemovalInv
  <1>7. /\ data.barrier = None /\ trees.at[j] \in {"tombstone", "partial"}
        /\ client[c].pc = "unlink" => \A d \in DataLeft : d.barrier = None
        /\ client[c].pc = "unlinked" => trees.at[j] = "partial"
    BY <1>1, <1>2, <1>3, <1>4, <1>6 DEF LeftInStep, Wrote, Finishing
  <1>8. ASSUME NEW d \in DataLeft PROVE Consistent(d, p)
    <2>1. Consistent(d, trees) /\ j \in Tombstones(trees)
      BY <1>4, <1>7, ConsistentNow DEF Tombstones
    <2>2. d.barrier = None
      BY <1>1, <1>7, <2>1 DEF Consistent
    <2>3. d.sidecar # None /\ d.sidecar.id = j /\ d.doc[j] = None /\ Tombstones(trees) \subseteq {j} /\ ~d.tmp
      BY <2>1, <2>2 DEF Consistent
    <2>4. Tombstones(p) \subseteq {j}
      BY <1>5, <2>3 DEF Tombstones
    <2>5. \A i \in Rows(d) : p.at[i] = "live"
      BY <1>5, <2>1, <2>2, <2>3 DEF Consistent, Rows
    <2> QED BY <1>1, <1>5, <2>2, <2>3, <2>4, <2>5 DEF Consistent
  <1>9. AllConsistent' /\ DataLeft' = DataLeft /\ data' = data
    BY <1>1, <1>3, <1>5, <1>7, <1>8, TreesChange DEF SameData
  <1>10. LeftInStep(client[c])'
    BY <1>1, <1>3, <1>9 DEF LeftInStep, Registering
  <1> QED BY <1>3, <1>9, <1>10, WriterGoesOn

(* A tree that neither the document nor a proof names may go anywhere but   *)
(* to a tombstone.                                                          *)
LEMMA UnnamedMoves ==
  ASSUME NEW d, NEW q, NEW p, NEW i \in Id, Consistent(d, q), ProofsAvoid(d, i), d.doc[i] = None,
         d.barrier # None => d.barrier.id \in Id, d.sidecar # None => d.sidecar.id \in Id,
         p.at[i] \in {"none", "staging", "live"}, \A k \in Id \ {i} : p.at[k] = q.at[k]
  PROVE  Consistent(d, p) /\ Tombstones(p) \subseteq Tombstones(q)
  <1>1. Tombstones(p) \subseteq Tombstones(q)
    BY DEF Tombstones
  <1>2. /\ d.barrier # None => p.at[d.barrier.id] = q.at[d.barrier.id]
        /\ d.sidecar # None => p.at[d.sidecar.id] = q.at[d.sidecar.id]
    BY DEF ProofsAvoid
  <1>3. \A k \in Rows(d) : p.at[k] = q.at[k]
    BY DEF Rows
  <1> QED BY <1>1, <1>2, <1>3 DEF Consistent

LEMMA UnnamedIsConsistent ==
  ASSUME LedgerInv, RemovalInv, NEW i \in Id, Unnamed(i), NEW p,
         p.at[i] \in {"none", "staging", "live"}, \A k \in Id \ {i} : p.at[k] = trees.at[k]
  PROVE  /\ \A d \in DataLeft : Consistent(d, p)
         /\ Tombstones(p) \subseteq Tombstones(trees)
  <1>1. ASSUME NEW d \in DataLeft PROVE Consistent(d, p) /\ Tombstones(p) \subseteq Tombstones(trees)
    <2>1. Consistent(d, trees) /\ d \in onData /\ d \in Data
      BY ConsistentNow, PresentIsLeft DEF LedgerInv, TypeOK
    <2>2. ProofsAvoid(d, i) /\ d.doc[i] = None
      BY <2>1 DEF Unnamed
    <2>3. (d.barrier # None => d.barrier.id \in Id) /\ (d.sidecar # None => d.sidecar.id \in Id)
      BY <2>1, DataIsDir, ProofNotNone DEF Option
    <2> QED BY <2>1, <2>2, <2>3, UnnamedMoves
  <1> QED BY <1>1, PresentIsLeft

LEMMA RegistrarKnows ==
  ASSUME LedgerInv, RemovalInv, NEW c \in Client, client[c].pc \in Registering
  PROVE  client[c].id \in Id /\ Unnamed(client[c].id) /\ NoProof(data) /\ registryLock = c
  <1>1. Shape(client[c]) /\ RegistersAlone /\ LocksInStep /\ LeftInStep(client[c])
    BY DEF LedgerInv, RemovalInv
  <1> QED BY <1>1 DEF Shape, RegistersAlone, LocksInStep, LeftInStep, Writing

LEMMA RegisterMoveRemoval ==
  ASSUME LedgerInv, LedgerInv', RemovalInv, NEW c \in Client, RegisterMove(c)
  PROVE  RemovalInv'
  <1>1. /\ client[c].pc = "register_move" /\ Goto(c, "register_sync") /\ "register_sync" \in Pc
        /\ client[c].pc \in Writing /\ client[c].pc \in Registering /\ UNCHANGED locks /\ SameData
        /\ MoveTree(client[c].id, "live") /\ "live" \in Place
    BY DEF RegisterMove, Pc, Place, Writing, Registering
  <1>2. /\ registryLock' = c
        /\ client'[c].pc = "register_sync" /\ client'[c].id = client[c].id /\ TypeOK
    BY <1>1, WriterIs DEF LedgerInv
  <1>3. PICK j \in Id : j = client[c].id /\ Unnamed(j) /\ NoProof(data)
    BY <1>1, RegistrarKnows
  <1>4. PICK p \in Trees : /\ ChangeTrees(p) /\ p.at[j] = "live"
                           /\ \A k \in Id \ {j} : p.at[k] = trees.at[k]
    BY <1>1, <1>2, <1>3, Moves
  <1>5. \A d \in DataLeft : Consistent(d, p)
    BY <1>3, <1>4, UnnamedIsConsistent
  <1>6. AllConsistent' /\ DataLeft' = DataLeft /\ data' = data /\ trees' = p
    BY <1>1, <1>2, <1>3, <1>4, <1>5, TreesChange DEF SameData, ChangeTrees, NoProof
  <1>7. LeftInStep(client[c])'
    BY <1>2, <1>3, <1>4, <1>6 DEF LeftInStep, NoProof
  <1> QED BY <1>2, <1>6, <1>7, WriterGoesOn

LEMMA RegisterAbortRemoval ==
  ASSUME LedgerInv, LedgerInv', RemovalInv, NEW c \in Client, RegisterAbort(c)
  PROVE  RemovalInv'
  <1>1. /\ client[c].pc \in Registering /\ Unlock(c) /\ SameData
        /\ MoveTree(client[c].id, "none") /\ "none" \in Place
    BY DEF RegisterAbort, Place, Registering, End, ghosts, counters
  <1>2. PICK j \in Id : j = client[c].id /\ Unnamed(j) /\ NoProof(data) /\ registryLock = c
    BY <1>1, RegistrarKnows
  <1>3. registryLock' = None /\ TypeOK
    BY <1>1, <1>2 DEF Unlock, LedgerInv
  <1>4. PICK p \in Trees : /\ ChangeTrees(p) /\ p.at[j] = "none"
                           /\ \A k \in Id \ {j} : p.at[k] = trees.at[k]
    BY <1>1, <1>2, <1>3, Moves
  <1>5. \A d \in DataLeft : Consistent(d, p)
    BY <1>2, <1>4, UnnamedIsConsistent
  <1>6. AllConsistent'
    BY <1>1, <1>2, <1>4, <1>5, TreesChange DEF NoProof
  <1> QED BY <1>3, <1>6, NobodyWrites

LEMMA RegisterPublishRemoval ==
  ASSUME LedgerInv, LedgerInv', RemovalInv, NEW c \in Client, RegisterPublish(c)
  PROVE  RemovalInv'
  <1>1. /\ client[c].pc = "register_publish" /\ Goto(c, "save_sync") /\ "save_sync" \in Pc
        /\ client[c].pc \in Writing /\ client[c].pc \in Registering /\ UNCHANGED locks /\ SameTrees
        /\ ChangeData([data EXCEPT !.doc[client[c].id] = client[c].alias])
    BY DEF RegisterPublish, Pc, Writing, Registering
  <1>2. /\ registryLock' = c /\ data \in Data
        /\ client'[c].pc = "save_sync"
    BY <1>1, WriterIs
  <1>3. PICK j \in Id : j = client[c].id /\ NoProof(data)
    BY <1>1, RegistrarKnows
  <1>4. PICK d : ChangeData(d) /\ d = Dir([data.doc EXCEPT ![j] = client[c].alias], data.barrier, data.sidecar, data.tmp)
    BY <1>1, <1>2, <1>3, EditDoc
  <1>5. /\ d.doc = [data.doc EXCEPT ![j] = client[c].alias]
        /\ d.barrier = data.barrier /\ d.sidecar = data.sidecar /\ d.tmp = data.tmp
    BY <1>4 DEF Dir
  <1>6. LeftInStep(client[c])
    BY DEF RemovalInv
  <1>7. \A i \in Id \ {j} : d.doc[i] = data.doc[i]
    BY <1>2, <1>5, DataIsDir DEF Document
  <1>8. ASSUME NEW p \in TreesLeft PROVE Consistent(d, p)
    <2>1. Consistent(data, p) /\ p.at[j] = "live"
      BY <1>1, <1>3, <1>6, ConsistentNow DEF LeftInStep
    <2>2. \A i \in Rows(d) : p.at[i] = "live"
      BY <1>3, <1>7, <2>1 DEF Consistent, Rows, NoProof
    <2> QED BY <1>3, <1>5, <2>1, <2>2 DEF Consistent, NoProof
  <1>9. AllConsistent'
    BY <1>1, <1>2, <1>4, <1>5, <1>8, DataChanges
  <1>10. LeftInStep(client[c])'
    BY <1>2, <1>3, <1>4, <1>5 DEF LeftInStep, Registering, NoProof, ChangeData
  <1> QED BY <1>2, <1>9, <1>10, WriterGoesOn

------------------------------------------------------------------------------
(* Steps that take the registry lock *)

LEMMA GoneTo ==
  ASSUME LedgerInv, NEW c \in Client, NEW pc \in Pc, Goto(c, pc)
  PROVE  client'[c].pc = pc /\ client'[c].id = client[c].id /\ client'[c].proof = client[c].proof
  <1> DEFINE k == [client[c] EXCEPT !.pc = pc]
  <1>1. /\ client' = [client EXCEPT ![c] = k]
        /\ k.pc = pc /\ k.id = client[c].id /\ k.proof = client[c].proof
    BY GoesTo DEF LedgerInv
  <1> HIDE DEF k
  <1>2. client'[c] = k
    BY <1>1 DEF LedgerInv, TypeOK
  <1> QED BY <1>1, <1>2

LEMMA SettleRemoval ==
  ASSUME LedgerInv, LedgerInv', RemovalInv, NEW c \in Client, Settle(c)
  PROVE  RemovalInv'
  <1>1. client[c].pc = "settle" /\ registryLock = None /\ client[c].pc \notin Writing
    BY DEF Settle, Writing, Removing, Finishing, Restoring, Registering
  <1>2. /\ client[c].proof \in Proof /\ client[c].proof # None /\ client[c].proof = Effective(data) /\ TypeOK
    BY <1>1, ProofNotNone DEF LedgerInv, Shape, Settling, Recovering
  <1>3. PICK j \in Id : j = client[c].proof.id
    BY <1>2, ProofNotNone
  <1>4. Consistent(data, trees)
    BY ConsistentNow, PresentIsLeft
  <1>5. PICK verdict : verdict = Verdict(data, trees, client[c].proof, lease[j] = c /\ ~changed)
    OBVIOUS
  <1>6. CASE verdict = "required"
    <2>1. End(c) /\ SameTrees /\ SameData
      BY <1>3, <1>5, <1>6 DEF Settle
    <2> QED BY <1>1, <2>1, StillTrees, EndsBystander
  <1>7. CASE verdict = "back"
    <2>1. data.barrier # None /\ trees.at[j] \in {"live", "tombstone"}
      BY <1>3, <1>5, <1>7 DEF Verdict
    <2>2. data.barrier = client[c].proof
      BY <1>2, <1>4, <2>1 DEF Consistent, Effective
    <2>3. /\ registryLock' = c /\ SameData
          /\ IF trees.at[j] = "live"
               THEN /\ Goto(c, "back_sidecar") /\ UNCHANGED <<trees, onTrees>>
                    /\ passedTrees' = passedTrees \cup {p \in onTrees : p.at[j] # "live"}
               ELSE Goto(c, "back_sync") /\ MoveTree(j, "live")
      BY <1>3, <1>5, <1>7 DEF Settle
    <2>4. "back_sidecar" \in Pc /\ "back_sync" \in Pc /\ "live" \in Place
      BY DEF Pc, Place
    <2>5. CASE trees.at[j] = "live"
      <3>1. client'[c].pc = "back_sidecar" /\ client'[c].proof = client[c].proof
        BY <2>3, <2>4, <2>5, GoneTo
      <3>2. /\ passedTrees \subseteq passedTrees' /\ trees \notin passedTrees'
            /\ data' = data /\ onData' = onData /\ passedData' = passedData /\ data \notin passedData
        BY <2>3, <2>5, PresentIsLeft DEF SameData, TreesLeft, DataLeft
      <3>3. AllConsistent'
        BY <2>3, <2>5, <3>2, PassesOver
      <3>4. \A p \in TreesLeft' : p.at[j] = "live"
        BY <2>3, <2>5 DEF TreesLeft
      <3>5. LeftInStep(client[c])'
        BY <1>3, <2>2, <3>1, <3>2, <3>4 DEF LeftInStep, Registering
      <3> QED BY <2>3, <3>3, <3>5, WriterGoesOn
    <2>6. CASE trees.at[j] = "tombstone"
      <3>1. client'[c].pc = "back_sync" /\ client'[c].proof = client[c].proof
        BY <2>3, <2>4, <2>6, GoneTo
      <3>2. PICK p \in Trees : /\ ChangeTrees(p) /\ p.at[j] = "live"
                               /\ \A k \in Id \ {j} : p.at[k] = trees.at[k]
        BY <1>2, <2>3, <2>4, <2>6, Moves
      <3>3. j \in Tombstones(trees)
        BY <2>6 DEF Tombstones
      <3>4. Tombstones(p) = {}
        BY <1>3, <1>4, <2>1, <2>2, <3>2 DEF Consistent, Tombstones
      <3>5. ASSUME NEW d \in DataLeft PROVE Consistent(d, p)
        <4>1. Consistent(d, trees) /\ d.barrier # None
          BY <2>1, <3>3, ConsistentNow
        <4>2. d.barrier.id = j
          BY <3>3, <4>1 DEF Consistent
        <4>3. \A i \in Rows(d) : p.at[i] = "live"
          BY <3>2, <4>1, <4>2 DEF Consistent, Rows
        <4> QED BY <3>2, <3>4, <4>1, <4>2, <4>3 DEF Consistent
      <3>6. AllConsistent' /\ DataLeft' = DataLeft /\ data' = data
        BY <2>3, <3>2, <3>4, <3>5, TreesChange DEF SameData
      <3>7. LeftInStep(client[c])'
        BY <2>2, <3>1, <3>6 DEF LeftInStep, Registering
      <3> QED BY <2>3, <3>6, <3>7, WriterGoesOn
    <2> QED BY <2>1, <2>5, <2>6
  <1>8. CASE verdict \in {"finish", "drop"}
    <2>1. PICK pc \in {"unlink", "unlink_sync"} :
            /\ registryLock' = c /\ Goto(c, pc) /\ SameTrees /\ UNCHANGED <<data, onData>>
            /\ passedData' = passedData \cup {d \in onData : d.barrier # None}
      BY <1>3, <1>5, <1>8 DEF Settle
    <2>2. pc \in Pc /\ data.barrier = None
      BY <1>5, <1>8, <2>1, VerdictTable DEF Pc
    <2>3. client'[c].pc = pc
      BY <2>1, <2>2, GoneTo
    <2>4. /\ passedData \subseteq passedData' /\ data \notin passedData'
          /\ trees' = trees /\ onTrees' = onTrees /\ passedTrees' = passedTrees /\ trees \notin passedTrees
      BY <2>1, <2>2, PresentIsLeft DEF SameTrees, TreesLeft, DataLeft
    <2>5. AllConsistent'
      BY <2>1, <2>4, PassesOver
    <2>6. \A d \in DataLeft' : d.barrier = None
      BY <2>1 DEF DataLeft
    <2>7. LeftInStep(client[c])'
      BY <2>1, <2>3, <2>6 DEF LeftInStep, Registering
    <2> QED BY <2>1, <2>5, <2>7, WriterGoesOn
  <1> QED BY <1>5, <1>6, <1>7, <1>8, VerdictTable

(* The change of a row that is there: its tree stays where it is.           *)
LEMMA RenameRemoval ==
  ASSUME LedgerInv, LedgerInv', RemovalInv, NEW c \in Client, Rename(c)
  PROVE  RemovalInv'
  <1>1. /\ client[c].pc = "rename" /\ registryLock = None /\ SameTrees
        /\ client[c].pc \notin Writing
    BY DEF Rename, ghosts, counters, Writing, Removing, Finishing, Restoring, Registering
  <1>2. CASE End(c) /\ SameData
    BY <1>1, <1>2, StillTrees, EndsBystander
  <1>3. CASE ~(End(c) /\ SameData)
    <2>1. /\ Shape(client[c]) /\ data \in Data /\ "save_sync" \in Pc
      BY DEF LedgerInv, TypeOK, Pc
    <2>2. PICK i \in Id : i = client[c].id /\ client[c].alias # None
      BY <1>1, <2>1 DEF Shape, Working
    <2>3. /\ NoArtifacts(data, trees) /\ data.doc[i] # None /\ registryLock' = c
          /\ ChangeData([data EXCEPT !.doc[i] = client[c].to]) /\ Goto(c, "save_sync")
      BY <1>3, <2>2 DEF Rename
    <2>4. PICK d : ChangeData(d) /\ d = Dir([data.doc EXCEPT ![i] = client[c].to], data.barrier, data.sidecar, data.tmp)
      BY <2>1, <2>3, EditDoc
    <2>5. /\ d.doc = [data.doc EXCEPT ![i] = client[c].to]
          /\ d.barrier = data.barrier /\ d.sidecar = data.sidecar /\ d.tmp = data.tmp
      BY <2>4 DEF Dir
    <2>6. \A k \in Id \ {i} : d.doc[k] = data.doc[k]
      BY <2>1, <2>5, DataIsDir DEF Document
    <2>7. NoProof(data) /\ ~data.tmp
      BY <2>3 DEF NoArtifacts, NoProof
    <2>8. ASSUME NEW p \in TreesLeft PROVE Consistent(d, p)
      <3>1. Consistent(data, p)
        BY ConsistentNow
      <3>2. \A k \in Rows(d) : p.at[k] = "live"
        BY <2>3, <2>6, <2>7, <3>1 DEF Consistent, Rows, NoProof
      <3> QED BY <2>5, <2>7, <3>1, <3>2 DEF Consistent, NoProof
    <2>9. AllConsistent'
      BY <1>1, <2>4, <2>5, <2>7, <2>8, DataChanges DEF NoProof
    <2>10. client'[c].pc = "save_sync"
      BY <2>1, <2>3, GoneTo
    <2>11. LeftInStep(client[c])'
      BY <2>4, <2>5, <2>7, <2>10 DEF LeftInStep, Registering, NoProof, ChangeData
    <2> QED BY <1>1, <2>3, <2>9, <2>11, WriterGoesOn
  <1> QED BY <1>2, <1>3

LEMMA RemoveBarrierRemoval ==
  ASSUME LedgerInv, LedgerInv', RemovalInv, NEW c \in Client, RemoveBarrier(c)
  PROVE  RemovalInv'
  <1>1. /\ client[c].pc = "remove_registry" /\ registryLock = None /\ SameTrees
        /\ client[c].pc \notin Writing
    BY DEF RemoveBarrier, ghosts, counters, Writing, Removing, Finishing, Restoring, Registering
  <1>2. CASE End(c) /\ SameData
    BY <1>1, <1>2, StillTrees, EndsBystander
  <1>3. CASE ~(End(c) /\ SameData)
    <2>1. Shape(client[c]) /\ data \in Data /\ TypeOK
      BY DEF LedgerInv, TypeOK
    <2>2. PICK i \in Id : i = client[c].id /\ client[c].alias # None
      BY <1>1, <2>1 DEF Shape, Working
    <2>3. PICK proof \in Proof : proof = [id |-> i, doc |-> data.doc] /\ proof.id = i /\ proof # None
      <3>1. data.doc \in Document
        BY <2>1, DataIsDir
      <3>2. [id |-> i, doc |-> data.doc] \in Proof
        BY <3>1 DEF Proof
      <3> QED BY <3>2, ProofNotNone
    <2>4. /\ NoArtifacts(data, trees) /\ data.doc[i] # None /\ registryLock' = c
          /\ ChangeData([data EXCEPT !.barrier = proof])
          /\ client' = [client EXCEPT ![c].pc = "barrier_sync", ![c].proof = proof]
      BY <1>3, <2>2, <2>3 DEF RemoveBarrier
    <2>5. PICK d : ChangeData(d) /\ d = Dir(data.doc, proof, data.sidecar, data.tmp)
      BY <2>1, <2>4, EditBarrier
    <2>6. d.doc = data.doc /\ d.barrier = proof /\ d.sidecar = data.sidecar /\ d.tmp = data.tmp
      BY <2>5 DEF Dir
    <2>7. NoProof(data) /\ ~data.tmp
      BY <2>4 DEF NoArtifacts, NoProof
    <2>8. ASSUME NEW p \in TreesLeft PROVE Consistent(d, p)
      <3>1. Consistent(data, p)
        BY ConsistentNow
      <3>2. Tombstones(p) = {} /\ \A k \in Rows(data) : p.at[k] = "live"
        BY <2>7, <3>1 DEF Consistent, NoProof
      <3>3. p.at[i] = "live"
        BY <2>4, <3>2 DEF Rows
      <3> QED BY <2>3, <2>6, <2>7, <3>2, <3>3 DEF Consistent, Rows, NoProof
    <2>9. AllConsistent'
      BY <1>1, <2>4, <2>5, <2>8, DataChanges DEF NoArtifacts
    <2>10. client'[c].pc = "barrier_sync"
      BY <2>1, <2>4 DEF TypeOK, Command
    <2>11. LeftInStep(client[c])'
      BY <2>5, <2>6, <2>7, <2>10 DEF LeftInStep, Registering, NoProof, ChangeData
    <2> QED BY <1>1, <2>4, <2>9, <2>11, WriterGoesOn
  <1> QED BY <1>2, <1>3

LEMMA RegisterRemoval ==
  ASSUME LedgerInv, LedgerInv', RemovalInv, NEW c \in Client, Register(c)
  PROVE  RemovalInv'
  <1>1. /\ client[c].pc = "register" /\ registryLock = None /\ SameData
        /\ client[c].pc \notin Writing
    BY DEF Register, counters, Writing, Removing, Finishing, Restoring, Registering
  <1>2. CASE End(c) /\ SameTrees
    BY <1>1, <1>2, StillTrees, EndsBystander
  <1>3. CASE ~(End(c) /\ SameTrees)
    <2>1. PICK i \in Id \ used :
            /\ MoveTree(i, "staging") /\ registryLock' = c /\ NoArtifacts(data, trees)
            /\ client' = [client EXCEPT ![c].pc = "register_login", ![c].id = i]
      BY <1>3 DEF Register
    <2>2. TypeOK /\ "staging" \in Place /\ Unnamed(i)
      BY <2>1 DEF LedgerInv, UnusedIsFresh, Place
    <2>3. PICK p \in Trees : /\ ChangeTrees(p) /\ p.at[i] = "staging"
                             /\ \A k \in Id \ {i} : p.at[k] = trees.at[k]
      BY <2>1, <2>2, Moves
    <2>4. NoProof(data)
      BY <2>1 DEF NoArtifacts, NoProof
    <2>5. \A d \in DataLeft : Consistent(d, p)
      BY <2>1, <2>2, <2>3, UnnamedIsConsistent
    <2>6. AllConsistent' /\ DataLeft' = DataLeft /\ data' = data
      BY <1>1, <2>3, <2>4, <2>5, TreesChange DEF SameData, NoProof
    <2>7. client'[c].pc = "register_login"
      BY <2>1, <2>2 DEF TypeOK, Command
    <2>8. LeftInStep(client[c])'
      BY <2>4, <2>6, <2>7 DEF LeftInStep, NoProof
    <2> QED BY <1>1, <2>1, <2>6, <2>8, WriterGoesOn
  <1> QED BY <1>2, <1>3

------------------------------------------------------------------------------
(* Faults, and the whole *)

(* A command is killed, or gives up on a tree that was changed: everything  *)
(* stays as it is, and only the locks go.                                   *)
LEMMA KillRemoval ==
  ASSUME LedgerInv, LedgerInv', RemovalInv, NEW c \in Client, Kill(c) \/ TreeChanged(c)
  PROVE  RemovalInv'
  <1>1. AllConsistent' /\ DataLeft' = DataLeft /\ TreesLeft' = TreesLeft /\ data' = data /\ trees' = trees
    BY NothingChanges DEF Kill, TreeChanged, SameData, SameTrees
  <1>2. ASSUME NEW o \in Client PROVE LeftInStep(client[o])'
    <2>1. client'[o] = Idle \/ client'[o] = client[o]
      BY DEF Kill, TreeChanged, End, LedgerInv, TypeOK
    <2>2. CASE client'[o] = Idle
      BY <2>2, IdleTyped, WriterAloneNext DEF Writing, Removing, Finishing, Restoring, Registering
    <2>3. CASE client'[o] = client[o]
      <3>1. LeftInStep(client[o])
        BY DEF RemovalInv
      <3> QED BY <1>1, <2>3, <3>1 DEF LeftInStep, NoProof
    <2> QED BY <2>1, <2>2, <2>3
  <1> QED BY <1>1, <1>2 DEF RemovalInv

(* A power loss leaves what goes together, and all of it synced, or takes   *)
(* back what a recovery passed over.                                        *)
LEMMA PowerLossRemoval ==
  ASSUME LedgerInv, LedgerInv', RemovalInv, PowerLoss
  PROVE  undone' \/ RemovalInv'
  <1> SUFFICES ASSUME ~undone' PROVE RemovalInv'
    OBVIOUS
  <1>1. /\ DataLeft' = {data'} /\ TreesLeft' = {trees'} /\ data' \in DataLeft /\ trees' \in TreesLeft
    BY DEF PowerLoss, DataLeft, TreesLeft
  <1>2. AllConsistent'
    BY <1>1, ConsistentNow, ConsistentNext
  <1>3. ASSUME NEW o \in Client PROVE LeftInStep(client[o])'
    <2>1. client'[o].pc \notin Writing
      BY IdleTyped DEF PowerLoss, Writing, Removing, Finishing, Restoring, Registering
    <2> QED BY <2>1, WriterAloneNext
  <1> QED BY <1>2, <1>3 DEF RemovalInv

(* Somebody writes into a tree, or nothing happens. *)
LEMMA StutterRemoval ==
  ASSUME LedgerInv, RemovalInv, WriteTree \/ UNCHANGED vars
  PROVE  RemovalInv'
  <1>1. SameData /\ SameTrees /\ client' = client /\ data' = data /\ trees' = trees
    BY DEF vars, passed, WriteTree, SameData, SameTrees
  <1>2. AllConsistent' /\ DataLeft' = DataLeft /\ TreesLeft' = TreesLeft
    BY <1>1, NothingChanges
  <1>3. (\A c \in Client : LeftInStep(client[c]))'
    BY <1>1, <1>2 DEF RemovalInv, LeftInStep, NoProof
  <1> QED BY <1>2, <1>3 DEF RemovalInv

LEMMA StepRemoval ==
  ASSUME LedgerInv, LedgerInv', RemovalInv, NEW c \in Client, Step(c)
  PROVE  RemovalInv'
  <1>1. CASE RecoverRemoval(c)
    BY <1>1, LooksRemoval, SettleRemoval, SyncRestoredRemoval, RollbackSidecarRemoval, DataSyncRemoval,
       RollbackPublishRemoval, SyncEndRemoval DEF RecoverRemoval
  <1>2. CASE RecoverReauth(c)
    BY <1>2, ChoosesRemoval, ReauthRemoval DEF RecoverReauth
  <1>3. CASE Remove(c)
    BY <1>3, ChoosesRemoval, RemoveBarrierRemoval, DataSyncRemoval, WriteSidecarRemoval, PublishSidecarRemoval,
       EntombRemoval, TreesSyncRemoval, PublishRemovalRemoval, UnlinksRemoval, DropSidecarRemoval,
       SyncEndRemoval, KillRemoval DEF Remove
  <1>4. CASE Registration(c)
    BY <1>4, RegisterRemoval, RegisterLoginRemoval, RegisterMoveRemoval, TreesSyncRemoval,
       RegisterPublishRemoval, RegisterAbortRemoval DEF Registration
  <1> QED BY <1>1, <1>2, <1>3, <1>4, RenameRemoval, SyncEndRemoval, ReauthRemoval DEF Step

LEMMA InitRemoval == Init => RemovalInv
  <1> SUFFICES ASSUME Init PROVE RemovalInv
    OBVIOUS
  <1>1. DataLeft = {data} /\ TreesLeft = {trees}
    BY DEF Init, DataLeft, TreesLeft
  <1>2. /\ data.barrier = None /\ data.sidecar = None /\ data.tmp = FALSE
        /\ \A i \in Id : data.doc[i] # None => trees.at[i] = "live"
        /\ \A i \in Id : trees.at[i] \in {"live", "none"}
    BY DEF Init
  <1>3. Consistent(data, trees)
    BY <1>2 DEF Consistent, Tombstones, Rows
  <1>4. \A c \in Client : LeftInStep(client[c])
    <2> SUFFICES ASSUME NEW c \in Client PROVE LeftInStep(client[c])
      OBVIOUS
    <2>1. client[c].pc \notin Writing
      BY IdleTyped DEF Init, Writing, Removing, Finishing, Restoring, Registering
    <2> QED BY <2>1, WriterAlone
  <1> QED BY <1>1, <1>3, <1>4 DEF RemovalInv, AllConsistent

LEMMA UndoneStays ==
  ASSUME [Next]_vars, undone
  PROVE  undone'
  <1>1. CASE \E c \in Client : Step(c)
    <2>1. PICK c \in Client : Step(c)
      BY <1>1
    <2>2. CASE RecoverRemoval(c)
      BY <2>2 DEF RecoverRemoval, Preflight, Quiesce, LockTree, Relock, Settle,
         SyncRestored, RollbackSidecar, SyncRollbackSidecar, RollbackPublish, SyncRollback, ghosts
    <2>3. CASE RecoverReauth(c) \/ Rename(c) \/ SaveSync(c) \/ BeginReauth(c) \/ EndReauth(c)
      BY <2>3 DEF RecoverReauth, ReauthScan, ReauthClean, Select, Lease,
         Rename, SaveSync, BeginReauth, EndReauth, ghosts
    <2>4. CASE Remove(c)
      BY <2>4 DEF Remove, RemoveLock, RemoveBarrier, SyncBarrier, WriteSidecar,
         PublishSidecar, SyncSidecar, Entomb, SyncTomb, PublishRemoval, SyncRemoval, Unlink, Unlinked,
         SyncUnlinked, DropSidecar, SyncDropped, TreeChanged, ghosts
    <2>5. CASE Registration(c)
      BY <2>5 DEF Registration, Register, RegisterLogin, RegisterMove, RegisterSync,
         RegisterPublish, RegisterAbort, ghosts
    <2> QED BY <2>1, <2>2, <2>3, <2>4, <2>5 DEF Step
  <1>2. CASE ~\E c \in Client : Step(c)
    BY <1>2 DEF Next, Kill, Start, PowerLoss, WriteTree, vars
  <1> QED BY <1>1, <1>2

LEMMA NextRemoval == LedgerInv /\ LedgerInv' /\ (undone \/ RemovalInv) /\ [Next]_vars => (undone \/ RemovalInv)'
  <1> SUFFICES ASSUME LedgerInv, LedgerInv', undone \/ RemovalInv, [Next]_vars
               PROVE  undone' \/ RemovalInv'
    OBVIOUS
  <1>1. CASE undone
    BY <1>1, UndoneStays
  <1>2. CASE RemovalInv
    BY <1>2, StepRemoval, KillRemoval, StartRemoval, PowerLossRemoval, StutterRemoval DEF Next
  <1> QED BY <1>1, <1>2

(* What a power loss may leave of the one root goes with what it may leave  *)
(* of the other, whatever commands run and whatever kills and power losses  *)
(* come, until a power loss takes back what a recovery took for durable.    *)
THEOREM RemovalInvariant == Spec => [](LedgerInv /\ (undone \/ RemovalInv))
  <1>1. Init => undone \/ RemovalInv
    BY InitRemoval
  <1> QED BY <1>1, NextRemoval, LedgerInvariant, PTL DEF Spec

(* Whatever kills, errors and power losses interrupt the commands, in any   *)
(* number and order: the artifacts that recovery finds are never ambiguous, *)
(* their verdict is removal_recovery_required only for a tree that was      *)
(* changed behind its barrier, and no temporary outlives its barrier,       *)
(* unless a power loss took back what a recovery took for durable.          *)
THEOREM RemovalsConverge == Spec => []RemovalConverges
  <1>1. LedgerInv /\ (undone \/ RemovalInv) => RemovalConverges
    <2> SUFFICES ASSUME LedgerInv, RemovalInv PROVE RemovalConverges
      BY DEF RemovalConverges
    <2>1. Consistent(data, trees) /\ trees \in Trees /\ data \in Data /\ changed \in BOOLEAN
      BY ConsistentNow, PresentIsLeft DEF LedgerInv, TypeOK, HistoryTypeOK
    <2>2. ~Ambiguous(data, trees)
      BY <2>1 DEF Consistent, Ambiguous, Effective
    <2>3. ASSUME Effective(data) # None, Verdict(data, trees, Effective(data), ~changed) = "required"
          PROVE  changed /\ data.barrier # None
      BY <2>1, <2>3 DEF Consistent, Verdict, Effective
    <2> QED BY <2>1, <2>2, <2>3 DEF RemovalConverges, Consistent
  <1> QED BY <1>1, RemovalInvariant, PTL

(* No document that can be there names a profile whose tree is gone, or is  *)
(* hidden by anything but the profile's own unfinished removal, however     *)
(* many kills and power losses come, unless a power loss took back what a   *)
(* recovery took for durable.                                               *)
THEOREM RowsHaveTrees == Spec => []NoDanglingRow
  <1>1. LedgerInv /\ (undone \/ RemovalInv) => NoDanglingRow
    BY ConsistentNow, PresentIsLeft DEF Consistent, NoDanglingRow
  <1> QED BY <1>1, RemovalInvariant, PTL

==============================================================================
