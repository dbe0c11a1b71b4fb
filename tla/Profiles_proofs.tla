--------------------------- MODULE Profiles_proofs ---------------------------
(***************************************************************************)
(* That registrations, renames, removals and their recovery keep the       *)
(* profile registry and its directories together, for any ids, aliases,    *)
(* commands, kills and power losses.                                       *)
(*                                                                         *)
(* The invariant LedgerInv is about the locks, the leases and the ids, and *)
(* what each command knows of the files by what it does next.  That an     *)
(* interrupted removal can be told from a finished one is module           *)
(* Removal_proofs.                                                         *)
(***************************************************************************)
EXTENDS Profiles, TLAPS

------------------------------------------------------------------------------
(* The inductive invariant under all faults *)

(* The steps by what they hold.  Removing: a removal before its tree goes;  *)
(* Finishing: the end it shares with a recovery; Restoring: a recovery that *)
(* puts the old state back.                                                 *)
Removing == {"barrier_sync", "sidecar_tmp", "sidecar", "sidecar_sync", "tomb",
             "tomb_sync", "publish", "publish_sync"}
Finishing == {"unlink", "unlinked", "unlink_sync", "drop", "drop_sync"}
Restoring == {"back_sync", "back_sidecar", "back_sidecar_sync", "back_publish",
              "back_publish_sync"}
Registering == {"register_login", "register_move", "register_sync", "register_publish"}
Working == {"rename", "reauth", "login", "remove_locks", "remove_registry"}
Writing == Removing \cup Finishing \cup Restoring \cup Registering \cup {"save_sync"}
Serial == Removing \cup Finishing \cup Restoring \cup {"settle", "remove_registry"}
Recovering == {"tree", "relock", "settle"}

(* What is there now is among what a power loss may leave.                  *)
PresentMayStay == data \in onData /\ trees \in onTrees

Distinct(d) == \A i, k \in Id : d.doc[i] # None /\ d.doc[i] = d.doc[k] => i = k

LocksInStep ==
  \A c \in Client :
    /\ client[c].pc \in Writing <=> registryLock = c
    /\ client[c].pc \in Serial <=> removalLock = c

(* What a command is made of, by what it does next.                         *)
Shape(k) ==
  /\ k.pc # "idle" =>
       /\ k.kind \in Kind
       /\ k.alias # None <=> k.kind # "list"
       /\ k.to # None <=> k.kind = "rename"
  /\ k.pc = "lease" => k.id \in Id /\ k.kind \in {"rename", "remove", "reauth"}
  /\ k.pc \in {"rename"} => k.kind = "rename"
  /\ k.pc \in {"reauth", "remove_locks", "remove_registry"} => k.kind # "list"
  /\ k.pc \in {"register"} \cup Registering => k.kind = "register"
  /\ k.pc \in Working \cup Registering \cup Removing => k.id \in Id
  /\ k.pc \in Removing \cup Finishing \cup Restoring \cup Recovering => k.proof \in Proof
  /\ k.pc \in Removing => k.proof.id = k.id
  /\ k.pc \in {"tree", "relock"} => k.snap \in Data /\ k.proof = Effective(k.snap)
  /\ k.pc = "reauth_clean" => k.snap \in Data

(* The lease it works under, and what that lease protects.                  *)
Held(c, k) ==
  /\ k.pc \in Working \cup Removing => lease[k.id] = c
  /\ k.pc \in Restoring => lease[k.proof.id] = c
  /\ k.pc \in Working => trees.at[k.id] = "live"
  /\ k.pc = "login" => data.doc[k.id] # None

(* What the command that has the registry lock knows of the files.          *)
Wrote(k) ==
  /\ k.pc \in {"barrier_sync", "sidecar_tmp", "sidecar", "sidecar_sync", "tomb"} =>
       trees.at[k.id] = "live"
  /\ k.pc \in {"barrier_sync", "sidecar_tmp", "sidecar", "sidecar_sync", "tomb",
               "tomb_sync", "publish"} => data.barrier = k.proof
  /\ k.pc \in {"tomb_sync", "publish", "publish_sync"} => trees.at[k.id] = "tombstone"
  /\ k.pc \in {"sidecar_sync", "tomb", "tomb_sync", "publish", "publish_sync"} =>
       data.sidecar = k.proof
  /\ k.pc = "unlink" => trees.at[k.proof.id] \in {"tombstone", "partial"}
  /\ k.pc = "unlinked" => trees.at[k.proof.id] = "partial"
  /\ k.pc \in {"unlink_sync", "drop", "drop_sync"} => trees.at[k.proof.id] = "none"
  /\ k.pc \in {"drop", "drop_sync"} => \A p \in onTrees : p.at[k.proof.id] = "none"
  /\ k.pc \in {"publish_sync"} \cup Finishing =>
       data.barrier = None /\ data.doc[k.proof.id] = None
  /\ k.pc \in Finishing \ {"drop_sync"} => data.sidecar = k.proof
  /\ k.pc = "drop_sync" => data.sidecar = None
  /\ k.pc \in Restoring => trees.at[k.proof.id] = "live"

Settling(k) == k.pc = "settle" => k.proof = Effective(data)

(* No document and no proof names the id.                                   *)
ProofsAvoid(d, i) ==
  /\ d.barrier # None => d.barrier.id # i
  /\ d.sidecar # None => d.sidecar.id # i

Unnamed(i) == \A d \in onData : d.doc[i] = None /\ ProofsAvoid(d, i)

CommandAvoids(k, i) == k.id # i /\ (k.proof # None => k.proof.id # i)

(* Ids that were not given out are named nowhere.                           *)
UnusedIsFresh ==
  \A i \in Id \ used :
    /\ Unnamed(i) /\ lease[i] = None
    /\ \A p \in onTrees : p.at[i] = "none"
    /\ \A c \in Client : CommandAvoids(client[c], i)

(* The id of a registration is known to nobody else before it is published. *)
RegistersAlone ==
  \A c \in Client : client[c].pc \in Registering =>
    /\ Unnamed(client[c].id) /\ lease[client[c].id] = None
    /\ client[c].id \in used \ gone
    /\ \A o \in Client \ {c} : CommandAvoids(client[o], client[c].id)

GoneIsUnnamed ==
  \A i \in gone : Unnamed(i) /\ \A p \in onTrees : p.at[i] = "none"

LedgerInv ==
  /\ TypeOK
  /\ PresentMayStay
  /\ \A d \in onData : Distinct(d)
  /\ LocksInStep
  /\ \A c \in Client : Shape(client[c])
  /\ \A c \in Client : Held(c, client[c])
  /\ \A c \in Client : Wrote(client[c])
  /\ \A c \in Client : Settling(client[c])
  /\ UnusedIsFresh
  /\ RegistersAlone
  /\ GoneIsUnnamed

------------------------------------------------------------------------------
(* Operators *)

(* The ways the data root is changed. *)
Dir(doc, barrier, sidecar, tmp) ==
  [doc |-> doc, barrier |-> barrier, sidecar |-> sidecar, tmp |-> tmp]

LEMMA DirTyped ==
  ASSUME NEW a \in Document, NEW b \in Option(Proof), NEW s \in Option(Proof), NEW t \in BOOLEAN
  PROVE  Dir(a, b, s, t) \in Data
  BY DEF Dir, Data

LEMMA DataIsDir ==
  ASSUME NEW d \in Data
  PROVE  /\ d = Dir(d.doc, d.barrier, d.sidecar, d.tmp)
         /\ d.doc \in Document /\ d.barrier \in Option(Proof)
         /\ d.sidecar \in Option(Proof) /\ d.tmp \in BOOLEAN
  BY DEF Dir, Data

LEMMA EditDoc ==
  ASSUME NEW d \in Data, NEW i, NEW a
  PROVE  [d EXCEPT !.doc[i] = a] = Dir([d.doc EXCEPT ![i] = a], d.barrier, d.sidecar, d.tmp)
  BY DataIsDir DEF Dir

LEMMA EditBarrier ==
  ASSUME NEW d \in Data, NEW x
  PROVE  [d EXCEPT !.barrier = x] = Dir(d.doc, x, d.sidecar, d.tmp)
  BY DataIsDir DEF Dir

LEMMA EditTmp ==
  ASSUME NEW d \in Data, NEW x
  PROVE  [d EXCEPT !.tmp = x] = Dir(d.doc, d.barrier, d.sidecar, x)
  BY DataIsDir DEF Dir

LEMMA EditSidecar ==
  ASSUME NEW d \in Data, NEW x, NEW y
  PROVE  /\ [d EXCEPT !.sidecar = x, !.tmp = y] = Dir(d.doc, d.barrier, x, y)
         /\ [d EXCEPT !.tmp = y, !.sidecar = x] = Dir(d.doc, d.barrier, x, y)
  <1> DEFINE g == [d EXCEPT !.sidecar = x]
  <1> DEFINE h == [d EXCEPT !.tmp = y]
  <1>1. /\ [d EXCEPT !.sidecar = x, !.tmp = y] = [g EXCEPT !.tmp = y]
        /\ [d EXCEPT !.tmp = y, !.sidecar = x] = [h EXCEPT !.sidecar = x]
    OBVIOUS
  <1>2. /\ g = Dir(d.doc, d.barrier, x, d.tmp)
        /\ h = Dir(d.doc, d.barrier, d.sidecar, y)
    BY DataIsDir DEF Dir
  <1> HIDE DEF g, h
  <1>3. [g EXCEPT !.tmp = y] = Dir(d.doc, d.barrier, x, y)
    BY <1>2 DEF Dir
  <1>4. [h EXCEPT !.sidecar = x] = Dir(d.doc, d.barrier, x, y)
    BY <1>2 DEF Dir
  <1> QED BY <1>1, <1>3, <1>4

WithoutRow(d, i) == [d EXCEPT !.barrier = None, !.doc = Without(@, i)]

LEMMA EditRemoved ==
  ASSUME NEW d \in Data, NEW i
  PROVE  WithoutRow(d, i) = Dir([d.doc EXCEPT ![i] = None], None, d.sidecar, d.tmp)
  <1> DEFINE g == [d EXCEPT !.barrier = None]
  <1>1. WithoutRow(d, i) = [g EXCEPT !.doc = Without(@, i)]
    BY DEF WithoutRow
  <1>2. g = Dir(d.doc, None, d.sidecar, d.tmp)
    BY DataIsDir DEF Dir
  <1> HIDE DEF g
  <1>3. [g EXCEPT !.doc = Without(@, i)] = Dir(Without(d.doc, i), None, d.sidecar, d.tmp)
    BY <1>2 DEF Dir
  <1> QED BY <1>1, <1>3 DEF Without

(* The ways the provider root is changed. *)
LEMMA EditTree ==
  ASSUME NEW p \in Trees, NEW i \in Id, NEW x \in Place
  PROVE  /\ [p EXCEPT !.at[i] = x] \in Trees
         /\ [p EXCEPT !.at[i] = x].at = [p.at EXCEPT ![i] = x]
  <1>1. p = [at |-> p.at, reauth |-> p.reauth] /\ p.at \in [Id -> Place] /\ p.reauth \in SUBSET Id
    BY DEF Trees
  <1>2. [p EXCEPT !.at[i] = x] = [at |-> [p.at EXCEPT ![i] = x], reauth |-> p.reauth]
    BY <1>1
  <1> QED BY <1>1, <1>2 DEF Trees

LEMMA ProofNotNone == \A x \in Proof : x # None /\ x.id \in Id
  BY NoneAssumption DEF Proof

LEMMA EffectiveTyped ==
  ASSUME NEW d \in Data
  PROVE  /\ Effective(d) \in Option(Proof)
         /\ Effective(d) # None => Effective(d) \in Proof /\ Effective(d) \in {d.barrier, d.sidecar}
  BY DataIsDir DEF Effective, Option

LEMMA IdleTyped ==
  /\ Idle \in Command /\ Idle.pc = "idle" /\ Idle.id = None /\ Idle.proof = None
  /\ Idle.kind = None /\ Idle.alias = None /\ Idle.to = None /\ Idle.snap = None
  BY DEF Idle, Command, Pc, Option

(* What a command becomes. *)
LEMMA GoesTo ==
  ASSUME TypeOK, NEW c \in Client, NEW pc \in Pc, Goto(c, pc)
  PROVE  /\ client' = [client EXCEPT ![c] = [client[c] EXCEPT !.pc = pc]]
         /\ [client[c] EXCEPT !.pc = pc] \in Command
         /\ [client[c] EXCEPT !.pc = pc].pc = pc
         /\ [client[c] EXCEPT !.pc = pc].kind = client[c].kind
         /\ [client[c] EXCEPT !.pc = pc].alias = client[c].alias
         /\ [client[c] EXCEPT !.pc = pc].to = client[c].to
         /\ [client[c] EXCEPT !.pc = pc].id = client[c].id
         /\ [client[c] EXCEPT !.pc = pc].proof = client[c].proof
         /\ [client[c] EXCEPT !.pc = pc].snap = client[c].snap
  BY DEF TypeOK, Goto, Command

------------------------------------------------------------------------------
(* Steps of one command: what to show of each *)

(* The command c becomes k, which names no id that neither it nor a file    *)
(* named before.                                                            *)
Becomes(c, k) ==
  /\ client' = [client EXCEPT ![c] = k]
  /\ \A i \in Id : Unnamed(i) /\ CommandAvoids(client[c], i) => CommandAvoids(k, i)

(* It gives leases back, or takes that of an id it names.                   *)
LeasesMove(c) ==
  /\ lease' \in [Id -> Option(Client)]
  /\ \A i \in Id : \/ lease'[i] = lease[i]
                   \/ lease[i] = c /\ lease'[i] = None
                   \/ lease[i] = None /\ lease'[i] = c /\ ~CommandAvoids(client[c], i)

LocksMove ==
  /\ removalLock' \in Option(Client) /\ registryLock' \in Option(Client)
  /\ LocksInStep'

BoundsKept ==
  /\ commands' \in 0..MaxCommands
  /\ <<kills', powerLosses'>> \in FaultPlan \cup {<<0, 0>>}

InStep(c, k) == Shape(k) /\ Held(c, k)' /\ Wrote(k)' /\ Settling(k)'

(* What every step but a report, a start or a fault leaves alone.           *)
kept == <<used, gone, counters>>

DataQuiet == data' = data /\ onData' \subseteq onData /\ data \in onData'

(* No tree moves, though a directory may be synced.                         *)
TreesQuiet ==
  /\ trees' \in Trees /\ onTrees' \subseteq Trees
  /\ trees' \in onTrees' /\ trees'.at = trees.at
  /\ \A p \in onTrees' : \E q \in onTrees : p.at = q.at

LEMMA Others ==
  ASSUME TypeOK, NEW c \in Client, NEW k \in Command, Becomes(c, k)
  PROVE  /\ client' \in [Client -> Command]
         /\ client'[c] = k
         /\ \A o \in Client : o # c => client'[o] = client[o]
  BY DEF TypeOK, Becomes

(* What others hold they keep. *)
LEMMA LeasesKept ==
  ASSUME LedgerInv, HistoryTypeOK', NEW c \in Client, NEW o \in Client, o # c, LeasesMove(c),
         NEW i \in Id, lease[i] = o
  PROVE  lease'[i] = o
  BY ProfilesAssumption DEF LeasesMove

LEMMA UnnamedKept ==
  ASSUME DataQuiet, NEW i \in Id, Unnamed(i)
  PROVE  Unnamed(i)'
  BY DEF DataQuiet, Unnamed, ProofsAvoid

(* The id of a registration stays its own, and unused ids stay unused.      *)
LEMMA FreshKept ==
  ASSUME LedgerInv, HistoryTypeOK', NEW c \in Client, NEW k \in Command, Becomes(c, k), LeasesMove(c),
         NEW i \in Id, lease[i] = None, CommandAvoids(client[c], i), Unnamed(i)
  PROVE  lease'[i] = None /\ CommandAvoids(k, i)
  BY ProfilesAssumption DEF LeasesMove, Becomes

LEMMA QuietStep ==
  ASSUME LedgerInv, HistoryTypeOK', NEW c \in Client, NEW k \in Command, Becomes(c, k), LeasesMove(c),
         LocksMove, BoundsKept, DataQuiet, TreesQuiet, UNCHANGED <<used, gone>>,
         InStep(c, k),
         k.pc \in Registering =>
           client[c].pc \in Registering /\ k.id = client[c].id /\ lease' = lease
  PROVE  LedgerInv'
  <1>0. /\ TypeOK /\ PresentMayStay /\ UnusedIsFresh /\ RegistersAlone /\ GoneIsUnnamed
        /\ \A o \in Client : Shape(client[o]) /\ Held(o, client[o]) /\ Wrote(client[o]) /\ Settling(client[o])
        /\ \A d \in onData : Distinct(d)
    BY DEF LedgerInv
  <1>1. /\ client' \in [Client -> Command] /\ client'[c] = k
        /\ \A o \in Client : o # c => client'[o] = client[o]
    BY <1>0, Others
  <1>2. TypeOK'
    BY <1>0, <1>1 DEF TypeOK, DataQuiet, TreesQuiet, LeasesMove, LocksMove, BoundsKept
  <1>3. PresentMayStay' /\ (\A d \in onData : Distinct(d))'
    BY <1>0 DEF PresentMayStay, DataQuiet, TreesQuiet, Distinct
  <1>4. ASSUME NEW o \in Client
        PROVE  (Shape(client[o]) /\ Held(o, client[o]) /\ Wrote(client[o]) /\ Settling(client[o]))'
    <2>1. CASE o = c
      BY <1>1, <2>1 DEF InStep, Shape
    <2>2. CASE o # c
      <3>1. client'[o] = client[o] /\ client[o] \in Command
        BY <1>0, <1>1, <2>2 DEF TypeOK
      <3>2. Shape(client[o])' /\ Settling(client[o])'
        BY <1>0, <3>1 DEF Shape, Settling, DataQuiet
      <3>3. Held(o, client[o])'
        <4>1. \A i \in Id : lease[i] = o => lease'[i] = o
          BY <2>2, LeasesKept
        <4>2. /\ client[o].pc \in Working \cup Removing => client[o].id \in Id
              /\ client[o].pc \in Restoring => client[o].proof.id \in Id
          BY <1>0, ProofNotNone DEF Shape
        <4> QED BY <1>0, <3>1, <4>1, <4>2 DEF Held, DataQuiet, TreesQuiet
      <3>4. Wrote(client[o])'
        BY <1>0, <3>1 DEF Wrote, DataQuiet, TreesQuiet
      <3> QED BY <3>2, <3>3, <3>4
    <2> QED BY <2>1, <2>2
  <1>5. UnusedIsFresh'
    <2> SUFFICES ASSUME NEW i \in Id, i \notin used
                 PROVE  /\ Unnamed(i)' /\ lease'[i] = None
                        /\ \A p \in onTrees' : p.at[i] = "none"
                        /\ \A o \in Client : CommandAvoids(client'[o], i)
      BY DEF UnusedIsFresh, CommandAvoids
    <2>1. /\ Unnamed(i) /\ lease[i] = None
          /\ \A p \in onTrees : p.at[i] = "none"
          /\ \A o \in Client : CommandAvoids(client[o], i)
      BY <1>0 DEF UnusedIsFresh
    <2>2. Unnamed(i)' /\ lease'[i] = None /\ CommandAvoids(k, i)
      BY <2>1, UnnamedKept, FreshKept
    <2>3. \A p \in onTrees' : p.at[i] = "none"
      BY <2>1 DEF TreesQuiet
    <2> QED BY <1>1, <2>1, <2>2, <2>3
  <1>6. RegistersAlone'
    <2> SUFFICES ASSUME NEW r \in Client, NEW i, client'[r].pc \in Registering, i = client'[r].id
                 PROVE  /\ Unnamed(i)' /\ lease'[i] = None
                        /\ i \in used \ gone
                        /\ \A o \in Client \ {r} : CommandAvoids(client'[o], i)
      BY DEF RegistersAlone, CommandAvoids, Unnamed
    <2>1. client[r].pc \in Registering /\ i = client[r].id
      BY <1>1
    <2>3. /\ Unnamed(i) /\ lease[i] = None /\ i \in used \ gone /\ i \in Id
          /\ \A o \in Client \ {r} : CommandAvoids(client[o], i)
      BY <1>0, <2>1 DEF RegistersAlone, Shape
    <2>4. Unnamed(i)'
      BY <2>3, UnnamedKept
    <2>5. CASE r = c
      BY <1>1, <2>3, <2>4, <2>5
    <2>6. CASE r # c
      <3>1. lease'[i] = None /\ CommandAvoids(k, i)
        BY <2>3, <2>6, FreshKept
      <3> QED BY <1>1, <2>3, <2>4, <2>6, <3>1
    <2> QED BY <2>5, <2>6
  <1>7. GoneIsUnnamed'
    <2> SUFFICES ASSUME NEW i \in gone
                 PROVE  Unnamed(i)' /\ \A p \in onTrees' : p.at[i] = "none"
      BY DEF GoneIsUnnamed
    <2>1. i \in Id /\ Unnamed(i) /\ \A p \in onTrees : p.at[i] = "none"
      BY <1>0 DEF GoneIsUnnamed, TypeOK
    <2>2. Unnamed(i)'
      BY <2>1, UnnamedKept
    <2> QED BY <2>1, <2>2 DEF TreesQuiet
  <1> QED BY <1>2, <1>3, <1>4, <1>5, <1>6, <1>7 DEF LedgerInv, LocksMove

LEMMA FilesQuiet ==
  ASSUME LedgerInv
  PROVE  /\ SameData => DataQuiet
         /\ UNCHANGED <<data, onData>> => DataQuiet
         /\ SyncData => DataQuiet
         /\ SameTrees => TreesQuiet
         /\ UNCHANGED <<trees, onTrees>> => TreesQuiet
         /\ SyncTrees => TreesQuiet
  BY DEF LedgerInv, TypeOK, PresentMayStay, SameData, SyncData, SameTrees, SyncTrees, DataQuiet, TreesQuiet

LEMMA LeasesSame ==
  ASSUME LedgerInv, HistoryTypeOK', NEW c \in Client, lease' = lease
  PROVE  LeasesMove(c)
  BY DEF LedgerInv, TypeOK, LeasesMove

LEMMA BoundsSame ==
  ASSUME LedgerInv, HistoryTypeOK', UNCHANGED counters
  PROVE  BoundsKept
  BY DEF LedgerInv, TypeOK, counters, BoundsKept

(* A command gives all its locks back. *)
LEMMA Unlocks ==
  ASSUME LedgerInv, HistoryTypeOK', NEW c \in Client, NEW k \in Command, Becomes(c, k), Unlock(c),
         k.pc \notin Writing, k.pc \notin Serial
  PROVE  LeasesMove(c) /\ LocksMove
  <1>1. /\ client'[c] = k /\ \A o \in Client : o # c => client'[o] = client[o]
    BY Others DEF LedgerInv
  <1>2. LeasesMove(c)
    BY DEF LedgerInv, TypeOK, Unlock, LeasesMove, Option
  <1>3. LocksMove
    BY <1>1, ProfilesAssumption DEF LedgerInv, TypeOK, LocksInStep, Unlock, LocksMove, Option
  <1> QED BY <1>2, <1>3

(* It keeps its locks. *)
LEMMA LocksSame ==
  ASSUME LedgerInv, HistoryTypeOK', NEW c \in Client, NEW k \in Command, Becomes(c, k),
         removalLock' = removalLock, registryLock' = registryLock,
         k.pc \in Writing <=> client[c].pc \in Writing,
         k.pc \in Serial <=> client[c].pc \in Serial
  PROVE  LocksMove
  <1>1. /\ client'[c] = k /\ \A o \in Client : o # c => client'[o] = client[o]
    BY Others DEF LedgerInv
  <1> QED BY <1>1 DEF LedgerInv, TypeOK, LocksInStep, LocksMove

LEMMA RegistryLocked ==
  ASSUME LedgerInv, HistoryTypeOK', NEW c \in Client, NEW k \in Command, Becomes(c, k),
         removalLock' = removalLock, registryLock = None, registryLock' = c,
         k.pc \in Writing,
         k.pc \in Serial <=> client[c].pc \in Serial
  PROVE  LocksMove
  <1>1. /\ client'[c] = k /\ \A o \in Client : o # c => client'[o] = client[o]
    BY Others DEF LedgerInv
  <1> QED BY <1>1, ProfilesAssumption DEF LedgerInv, TypeOK, LocksInStep, LocksMove, Option

LEMMA RemovalLocked ==
  ASSUME LedgerInv, HistoryTypeOK', NEW c \in Client, NEW k \in Command, Becomes(c, k),
         registryLock' = registryLock, removalLock = None, removalLock' = c,
         k.pc \in Serial,
         k.pc \in Writing <=> client[c].pc \in Writing
  PROVE  LocksMove
  <1>1. /\ client'[c] = k /\ \A o \in Client : o # c => client'[o] = client[o]
    BY Others DEF LedgerInv
  <1> QED BY <1>1, ProfilesAssumption DEF LedgerInv, TypeOK, LocksInStep, LocksMove, Option

(* A command at none of the steps that know something.                      *)
Free == {"idle", "preflight", "quiesce", "reauth_scan", "select"}

LEMMA FreeInStep ==
  ASSUME NEW c \in Client, NEW k \in Command, k.pc \in Free,
         k.pc # "idle" => /\ k.kind \in Kind
                          /\ k.alias # None <=> k.kind # "list"
                          /\ k.to # None <=> k.kind = "rename"
  PROVE  /\ InStep(c, k) /\ k.pc \notin Writing /\ k.pc \notin Serial /\ k.pc \notin Registering
  <1>1. /\ k.pc \notin Writing /\ k.pc \notin Serial /\ k.pc \notin Registering /\ k.pc \notin Working
        /\ k.pc \notin Removing /\ k.pc \notin Finishing /\ k.pc \notin Restoring /\ k.pc \notin Recovering
    BY DEF Free, Writing, Serial, Registering, Working, Removing, Finishing, Restoring, Recovering
  <1>2. Shape(k)
    BY <1>1 DEF Shape, Free
  <1>3. Held(c, k)' /\ Settling(k)'
    BY <1>1 DEF Held, Settling, Free
  <1>4. Wrote(k)'
    BY <1>1 DEF Wrote, Free
  <1> QED BY <1>1, <1>2, <1>3, <1>4 DEF InStep

LEMMA EndBecomes ==
  ASSUME NEW c \in Client, client' = [client EXCEPT ![c] = Idle]
  PROVE  Becomes(c, Idle)
  BY IdleTyped, ProfilesAssumption DEF Becomes, CommandAvoids

LEMMA EndStep ==
  ASSUME LedgerInv, HistoryTypeOK', NEW c \in Client, End(c), DataQuiet, TreesQuiet, BoundsKept,
         UNCHANGED <<used, gone>>
  PROVE  LedgerInv'
  <1>1. Becomes(c, Idle) /\ Unlock(c) /\ Idle \in Command
    BY IdleTyped, EndBecomes DEF End
  <1>2. InStep(c, Idle) /\ Idle.pc \notin Writing /\ Idle.pc \notin Serial /\ Idle.pc \notin Registering
    BY IdleTyped, FreeInStep DEF Free
  <1>3. LeasesMove(c) /\ LocksMove
    BY <1>1, <1>2, Unlocks
  <1> QED BY <1>1, <1>2, <1>3, QuietStep

LEMMA ResumeStep ==
  ASSUME LedgerInv, HistoryTypeOK', NEW c \in Client, NEW pc \in {"reauth_scan", "select"}, Resume(c, pc),
         client[c].pc # "idle", DataQuiet, TreesQuiet, BoundsKept, UNCHANGED <<used, gone>>
  PROVE  LedgerInv'
  <1> DEFINE k == [client[c] EXCEPT !.pc = pc, !.proof = None, !.snap = None]
  <1>1. client[c] \in Command /\ Shape(client[c]) /\ client \in [Client -> Command]
    BY DEF LedgerInv, TypeOK
  <1>2. /\ k \in Command /\ k.pc = pc /\ k.proof = None /\ k.id = client[c].id
        /\ k.kind = client[c].kind /\ k.alias = client[c].alias /\ k.to = client[c].to
    <2>1. pc \in Pc /\ None \in Option(Proof) /\ None \in Option(Data)
      BY DEF Pc, Option
    <2>2. k \in Command
      BY ONLY <1>1, <2>1 DEF Command
    <2> QED BY ONLY <1>1, <2>2 DEF Command
  <1>3. client' = [client EXCEPT ![c] = k]
    BY <1>1 DEF Resume
  <1> HIDE DEF k
  <1>4. Becomes(c, k) /\ Unlock(c)
    BY <1>2, <1>3 DEF Becomes, CommandAvoids, Resume
  <1>5. InStep(c, k) /\ k.pc \notin Writing /\ k.pc \notin Serial /\ k.pc \notin Registering
    BY <1>1, <1>2, FreeInStep DEF Free, Shape
  <1>6. LeasesMove(c) /\ LocksMove
    BY <1>2, <1>4, <1>5, Unlocks
  <1> QED BY <1>2, <1>4, <1>5, <1>6, QuietStep

(* A command that only goes on. *)
LEMMA GotoBecomes ==
  ASSUME LedgerInv, HistoryTypeOK', NEW c \in Client, NEW pc \in Pc, Goto(c, pc)
  PROVE  \E k \in Command :
           /\ Becomes(c, k)
           /\ k.pc = pc /\ k.kind = client[c].kind /\ k.alias = client[c].alias /\ k.to = client[c].to
           /\ k.id = client[c].id /\ k.proof = client[c].proof /\ k.snap = client[c].snap
  <1> DEFINE k == [client[c] EXCEPT !.pc = pc]
  <1>1. /\ client' = [client EXCEPT ![c] = k] /\ k \in Command
        /\ k.pc = pc /\ k.kind = client[c].kind /\ k.alias = client[c].alias /\ k.to = client[c].to
        /\ k.id = client[c].id /\ k.proof = client[c].proof /\ k.snap = client[c].snap
    BY GoesTo DEF LedgerInv
  <1> HIDE DEF k
  <1>2. Becomes(c, k)
    BY <1>1 DEF Becomes, CommandAvoids
  <1> QED BY <1>1, <1>2

LEMMA GotoStep ==
  ASSUME LedgerInv, HistoryTypeOK', NEW c \in Client, NEW pc \in Pc, Goto(c, pc), UNCHANGED <<locks, kept>>,
         DataQuiet, TreesQuiet,
         pc \in Writing <=> client[c].pc \in Writing,
         pc \in Serial <=> client[c].pc \in Serial,
         pc \in Registering <=> client[c].pc \in Registering,
         \A k \in Command :
           /\ k.pc = pc /\ k.kind = client[c].kind /\ k.alias = client[c].alias /\ k.to = client[c].to
           /\ k.id = client[c].id /\ k.proof = client[c].proof /\ k.snap = client[c].snap
           => InStep(c, k)
  PROVE  LedgerInv'
  <1>1. PICK k \in Command :
           /\ Becomes(c, k)
           /\ k.pc = pc /\ k.kind = client[c].kind /\ k.alias = client[c].alias /\ k.to = client[c].to
           /\ k.id = client[c].id /\ k.proof = client[c].proof /\ k.snap = client[c].snap
    BY GotoBecomes
  <1>2. InStep(c, k)
    BY <1>1
  <1>3. /\ lease' = lease /\ removalLock' = removalLock /\ registryLock' = registryLock
        /\ UNCHANGED <<used, gone>> /\ UNCHANGED counters
    BY DEF locks, ghosts, kept
  <1>4. LeasesMove(c) /\ LocksMove /\ BoundsKept
    BY <1>1, <1>3, LeasesSame, LocksSame, BoundsSame
  <1> QED BY <1>1, <1>2, <1>3, <1>4, QuietStep

(* Steps that sync a directory, or only wait. *)

LEMMA SyncRestoredLedger ==
  ASSUME LedgerInv, HistoryTypeOK', NEW c \in Client, SyncRestored(c)
  PROVE  LedgerInv'
  <1>1. /\ client[c].pc = "back_sync" /\ Goto(c, "back_sidecar") /\ "back_sidecar" \in Pc
        /\ UNCHANGED <<locks, kept>> /\ DataQuiet /\ TreesQuiet
    BY FilesQuiet DEF SyncRestored, Pc, ghosts, kept
  <1>2. Shape(client[c]) /\ Held(c, client[c]) /\ Wrote(client[c]) /\ Settling(client[c])
    BY DEF LedgerInv
  <1>3. ASSUME NEW k \in Command,
               k.pc = "back_sidecar", k.kind = client[c].kind, k.alias = client[c].alias, k.to = client[c].to,
               k.id = client[c].id, k.proof = client[c].proof, k.snap = client[c].snap
        PROVE  InStep(c, k)
    <2>1. Shape(k)
      BY <1>1, <1>2, <1>3 DEF Shape, Writing, Serial, Registering, Working, Removing, Finishing, Restoring, Recovering
    <2>2. Held(c, k)' /\ Settling(k)'
      BY <1>1, <1>2, <1>3 DEF Held, Settling, Working, Removing, Restoring, locks, DataQuiet, TreesQuiet
    <2>3. Wrote(k)'
      BY <1>1, <1>2, <1>3 DEF Wrote, Finishing, Restoring, DataQuiet, TreesQuiet
    <2> QED BY <2>1, <2>2, <2>3 DEF InStep
  <1>4. /\ "back_sidecar" \in Writing <=> client[c].pc \in Writing
        /\ "back_sidecar" \in Serial <=> client[c].pc \in Serial
        /\ "back_sidecar" \in Registering <=> client[c].pc \in Registering
    BY <1>1 DEF Writing, Serial, Registering, Removing, Finishing, Restoring
  <1> QED BY <1>1, <1>3, <1>4, GotoStep

LEMMA SyncRollbackSidecarLedger ==
  ASSUME LedgerInv, HistoryTypeOK', NEW c \in Client, SyncRollbackSidecar(c)
  PROVE  LedgerInv'
  <1>1. /\ client[c].pc = "back_sidecar_sync" /\ Goto(c, "back_publish") /\ "back_publish" \in Pc
        /\ UNCHANGED <<locks, kept>> /\ DataQuiet /\ TreesQuiet
    BY FilesQuiet DEF SyncRollbackSidecar, Pc, ghosts, kept
  <1>2. Shape(client[c]) /\ Held(c, client[c]) /\ Wrote(client[c]) /\ Settling(client[c])
    BY DEF LedgerInv
  <1>3. ASSUME NEW k \in Command,
               k.pc = "back_publish", k.kind = client[c].kind, k.alias = client[c].alias, k.to = client[c].to,
               k.id = client[c].id, k.proof = client[c].proof, k.snap = client[c].snap
        PROVE  InStep(c, k)
    <2>1. Shape(k)
      BY <1>1, <1>2, <1>3 DEF Shape, Writing, Serial, Registering, Working, Removing, Finishing, Restoring, Recovering
    <2>2. Held(c, k)' /\ Settling(k)'
      BY <1>1, <1>2, <1>3 DEF Held, Settling, Working, Removing, Restoring, locks, DataQuiet, TreesQuiet
    <2>3. Wrote(k)'
      BY <1>1, <1>2, <1>3 DEF Wrote, Finishing, Restoring, DataQuiet, TreesQuiet
    <2> QED BY <2>1, <2>2, <2>3 DEF InStep
  <1>4. /\ "back_publish" \in Writing <=> client[c].pc \in Writing
        /\ "back_publish" \in Serial <=> client[c].pc \in Serial
        /\ "back_publish" \in Registering <=> client[c].pc \in Registering
    BY <1>1 DEF Writing, Serial, Registering, Removing, Finishing, Restoring
  <1> QED BY <1>1, <1>3, <1>4, GotoStep

LEMMA SyncBarrierLedger ==
  ASSUME LedgerInv, HistoryTypeOK', NEW c \in Client, SyncBarrier(c)
  PROVE  LedgerInv'
  <1>1. /\ client[c].pc = "barrier_sync" /\ Goto(c, "sidecar_tmp") /\ "sidecar_tmp" \in Pc
        /\ UNCHANGED <<locks, kept>> /\ DataQuiet /\ TreesQuiet
    BY FilesQuiet DEF SyncBarrier, Pc, ghosts, kept
  <1>2. Shape(client[c]) /\ Held(c, client[c]) /\ Wrote(client[c]) /\ Settling(client[c])
    BY DEF LedgerInv
  <1>3. ASSUME NEW k \in Command,
               k.pc = "sidecar_tmp", k.kind = client[c].kind, k.alias = client[c].alias, k.to = client[c].to,
               k.id = client[c].id, k.proof = client[c].proof, k.snap = client[c].snap
        PROVE  InStep(c, k)
    <2>1. Shape(k)
      BY <1>1, <1>2, <1>3 DEF Shape, Writing, Serial, Registering, Working, Removing, Finishing, Restoring, Recovering
    <2>2. Held(c, k)' /\ Settling(k)'
      BY <1>1, <1>2, <1>3 DEF Held, Settling, Working, Removing, Restoring, locks, DataQuiet, TreesQuiet
    <2>3. Wrote(k)'
      BY <1>1, <1>2, <1>3 DEF Wrote, Finishing, Restoring, DataQuiet, TreesQuiet
    <2> QED BY <2>1, <2>2, <2>3 DEF InStep
  <1>4. /\ "sidecar_tmp" \in Writing <=> client[c].pc \in Writing
        /\ "sidecar_tmp" \in Serial <=> client[c].pc \in Serial
        /\ "sidecar_tmp" \in Registering <=> client[c].pc \in Registering
    BY <1>1 DEF Writing, Serial, Registering, Removing, Finishing, Restoring
  <1> QED BY <1>1, <1>3, <1>4, GotoStep

LEMMA SyncSidecarLedger ==
  ASSUME LedgerInv, HistoryTypeOK', NEW c \in Client, SyncSidecar(c)
  PROVE  LedgerInv'
  <1>1. /\ client[c].pc = "sidecar_sync" /\ Goto(c, "tomb") /\ "tomb" \in Pc
        /\ UNCHANGED <<locks, kept>> /\ DataQuiet /\ TreesQuiet
    BY FilesQuiet DEF SyncSidecar, Pc, ghosts, kept
  <1>2. Shape(client[c]) /\ Held(c, client[c]) /\ Wrote(client[c]) /\ Settling(client[c])
    BY DEF LedgerInv
  <1>3. ASSUME NEW k \in Command,
               k.pc = "tomb", k.kind = client[c].kind, k.alias = client[c].alias, k.to = client[c].to,
               k.id = client[c].id, k.proof = client[c].proof, k.snap = client[c].snap
        PROVE  InStep(c, k)
    <2>1. Shape(k)
      BY <1>1, <1>2, <1>3 DEF Shape, Writing, Serial, Registering, Working, Removing, Finishing, Restoring, Recovering
    <2>2. Held(c, k)' /\ Settling(k)'
      BY <1>1, <1>2, <1>3 DEF Held, Settling, Working, Removing, Restoring, locks, DataQuiet, TreesQuiet
    <2>3. Wrote(k)'
      BY <1>1, <1>2, <1>3 DEF Wrote, Finishing, Restoring, DataQuiet, TreesQuiet
    <2> QED BY <2>1, <2>2, <2>3 DEF InStep
  <1>4. /\ "tomb" \in Writing <=> client[c].pc \in Writing
        /\ "tomb" \in Serial <=> client[c].pc \in Serial
        /\ "tomb" \in Registering <=> client[c].pc \in Registering
    BY <1>1 DEF Writing, Serial, Registering, Removing, Finishing, Restoring
  <1> QED BY <1>1, <1>3, <1>4, GotoStep

LEMMA SyncTombLedger ==
  ASSUME LedgerInv, HistoryTypeOK', NEW c \in Client, SyncTomb(c)
  PROVE  LedgerInv'
  <1>1. /\ client[c].pc = "tomb_sync" /\ Goto(c, "publish") /\ "publish" \in Pc
        /\ UNCHANGED <<locks, kept>> /\ DataQuiet /\ TreesQuiet
    BY FilesQuiet DEF SyncTomb, Pc, ghosts, kept
  <1>2. Shape(client[c]) /\ Held(c, client[c]) /\ Wrote(client[c]) /\ Settling(client[c])
    BY DEF LedgerInv
  <1>3. ASSUME NEW k \in Command,
               k.pc = "publish", k.kind = client[c].kind, k.alias = client[c].alias, k.to = client[c].to,
               k.id = client[c].id, k.proof = client[c].proof, k.snap = client[c].snap
        PROVE  InStep(c, k)
    <2>1. Shape(k)
      BY <1>1, <1>2, <1>3 DEF Shape, Writing, Serial, Registering, Working, Removing, Finishing, Restoring, Recovering
    <2>2. Held(c, k)' /\ Settling(k)'
      BY <1>1, <1>2, <1>3 DEF Held, Settling, Working, Removing, Restoring, locks, DataQuiet, TreesQuiet
    <2>3. Wrote(k)'
      BY <1>1, <1>2, <1>3 DEF Wrote, Finishing, Restoring, DataQuiet, TreesQuiet
    <2> QED BY <2>1, <2>2, <2>3 DEF InStep
  <1>4. /\ "publish" \in Writing <=> client[c].pc \in Writing
        /\ "publish" \in Serial <=> client[c].pc \in Serial
        /\ "publish" \in Registering <=> client[c].pc \in Registering
    BY <1>1 DEF Writing, Serial, Registering, Removing, Finishing, Restoring
  <1> QED BY <1>1, <1>3, <1>4, GotoStep

LEMMA SyncRemovalLedger ==
  ASSUME LedgerInv, HistoryTypeOK', NEW c \in Client, SyncRemoval(c)
  PROVE  LedgerInv'
  <1>1. /\ client[c].pc = "publish_sync" /\ Goto(c, "unlink") /\ "unlink" \in Pc
        /\ UNCHANGED <<locks, kept>> /\ DataQuiet /\ TreesQuiet
    BY FilesQuiet DEF SyncRemoval, Pc, ghosts, kept
  <1>2. Shape(client[c]) /\ Held(c, client[c]) /\ Wrote(client[c]) /\ Settling(client[c])
    BY DEF LedgerInv
  <1>3. ASSUME NEW k \in Command,
               k.pc = "unlink", k.kind = client[c].kind, k.alias = client[c].alias, k.to = client[c].to,
               k.id = client[c].id, k.proof = client[c].proof, k.snap = client[c].snap
        PROVE  InStep(c, k)
    <2>1. Shape(k)
      BY <1>1, <1>2, <1>3 DEF Shape, Writing, Serial, Registering, Working, Removing, Finishing, Restoring, Recovering
    <2>2. Held(c, k)' /\ Settling(k)'
      BY <1>1, <1>2, <1>3 DEF Held, Settling, Working, Removing, Restoring, locks, DataQuiet, TreesQuiet
    <2>3. Wrote(k)'
      BY <1>1, <1>2, <1>3 DEF Wrote, Finishing, Restoring, DataQuiet, TreesQuiet, Shape, Removing
    <2> QED BY <2>1, <2>2, <2>3 DEF InStep
  <1>4. /\ "unlink" \in Writing <=> client[c].pc \in Writing
        /\ "unlink" \in Serial <=> client[c].pc \in Serial
        /\ "unlink" \in Registering <=> client[c].pc \in Registering
    BY <1>1 DEF Writing, Serial, Registering, Removing, Finishing, Restoring
  <1> QED BY <1>1, <1>3, <1>4, GotoStep

LEMMA SyncUnlinkedLedger ==
  ASSUME LedgerInv, HistoryTypeOK', NEW c \in Client, SyncUnlinked(c)
  PROVE  LedgerInv'
  <1>1. /\ client[c].pc = "unlink_sync" /\ Goto(c, "drop") /\ "drop" \in Pc
        /\ UNCHANGED <<locks, kept>> /\ DataQuiet /\ TreesQuiet
    BY FilesQuiet DEF SyncUnlinked, Pc, ghosts, kept
  <1>2. Shape(client[c]) /\ Held(c, client[c]) /\ Wrote(client[c]) /\ Settling(client[c])
    BY DEF LedgerInv
  <1>3. ASSUME NEW k \in Command,
               k.pc = "drop", k.kind = client[c].kind, k.alias = client[c].alias, k.to = client[c].to,
               k.id = client[c].id, k.proof = client[c].proof, k.snap = client[c].snap
        PROVE  InStep(c, k)
    <2>1. Shape(k)
      BY <1>1, <1>2, <1>3 DEF Shape, Writing, Serial, Registering, Working, Removing, Finishing, Restoring, Recovering
    <2>2. Held(c, k)' /\ Settling(k)'
      BY <1>1, <1>2, <1>3 DEF Held, Settling, Working, Removing, Restoring, locks, DataQuiet, TreesQuiet
    <2>3. Wrote(k)'
      BY <1>1, <1>2, <1>3 DEF Wrote, Finishing, Restoring, DataQuiet, TreesQuiet, SyncUnlinked, SyncTrees
    <2> QED BY <2>1, <2>2, <2>3 DEF InStep
  <1>4. /\ "drop" \in Writing <=> client[c].pc \in Writing
        /\ "drop" \in Serial <=> client[c].pc \in Serial
        /\ "drop" \in Registering <=> client[c].pc \in Registering
    BY <1>1 DEF Writing, Serial, Registering, Removing, Finishing, Restoring
  <1> QED BY <1>1, <1>3, <1>4, GotoStep

LEMMA RegisterLoginLedger ==
  ASSUME LedgerInv, HistoryTypeOK', NEW c \in Client, RegisterLogin(c)
  PROVE  LedgerInv'
  <1>1. /\ client[c].pc = "register_login" /\ Goto(c, "register_move") /\ "register_move" \in Pc
        /\ UNCHANGED <<locks, kept>> /\ DataQuiet /\ TreesQuiet
    BY FilesQuiet DEF RegisterLogin, Pc, ghosts, kept
  <1>2. Shape(client[c]) /\ Held(c, client[c]) /\ Wrote(client[c]) /\ Settling(client[c])
    BY DEF LedgerInv
  <1>3. ASSUME NEW k \in Command,
               k.pc = "register_move", k.kind = client[c].kind, k.alias = client[c].alias, k.to = client[c].to,
               k.id = client[c].id, k.proof = client[c].proof, k.snap = client[c].snap
        PROVE  InStep(c, k)
    <2>1. Shape(k)
      BY <1>1, <1>2, <1>3 DEF Shape, Writing, Serial, Registering, Working, Removing, Finishing, Restoring, Recovering
    <2>2. Held(c, k)' /\ Settling(k)'
      BY <1>1, <1>2, <1>3 DEF Held, Settling, Working, Removing, Restoring, locks, DataQuiet, TreesQuiet
    <2>3. Wrote(k)'
      BY <1>1, <1>2, <1>3 DEF Wrote, Finishing, Restoring, DataQuiet, TreesQuiet
    <2> QED BY <2>1, <2>2, <2>3 DEF InStep
  <1>4. /\ "register_move" \in Writing <=> client[c].pc \in Writing
        /\ "register_move" \in Serial <=> client[c].pc \in Serial
        /\ "register_move" \in Registering <=> client[c].pc \in Registering
    BY <1>1 DEF Writing, Serial, Registering, Removing, Finishing, Restoring
  <1> QED BY <1>1, <1>3, <1>4, GotoStep

LEMMA RegisterSyncLedger ==
  ASSUME LedgerInv, HistoryTypeOK', NEW c \in Client, RegisterSync(c)
  PROVE  LedgerInv'
  <1>1. /\ client[c].pc = "register_sync" /\ Goto(c, "register_publish") /\ "register_publish" \in Pc
        /\ UNCHANGED <<locks, kept>> /\ DataQuiet /\ TreesQuiet
    BY FilesQuiet DEF RegisterSync, Pc, ghosts, kept
  <1>2. Shape(client[c]) /\ Held(c, client[c]) /\ Wrote(client[c]) /\ Settling(client[c])
    BY DEF LedgerInv
  <1>3. ASSUME NEW k \in Command,
               k.pc = "register_publish", k.kind = client[c].kind, k.alias = client[c].alias, k.to = client[c].to,
               k.id = client[c].id, k.proof = client[c].proof, k.snap = client[c].snap
        PROVE  InStep(c, k)
    <2>1. Shape(k)
      BY <1>1, <1>2, <1>3 DEF Shape, Writing, Serial, Registering, Working, Removing, Finishing, Restoring, Recovering
    <2>2. Held(c, k)' /\ Settling(k)'
      BY <1>1, <1>2, <1>3 DEF Held, Settling, Working, Removing, Restoring, locks, DataQuiet, TreesQuiet
    <2>3. Wrote(k)'
      BY <1>1, <1>2, <1>3 DEF Wrote, Finishing, Restoring, DataQuiet, TreesQuiet
    <2> QED BY <2>1, <2>2, <2>3 DEF InStep
  <1>4. /\ "register_publish" \in Writing <=> client[c].pc \in Writing
        /\ "register_publish" \in Serial <=> client[c].pc \in Serial
        /\ "register_publish" \in Registering <=> client[c].pc \in Registering
    BY <1>1 DEF Writing, Serial, Registering, Removing, Finishing, Restoring
  <1> QED BY <1>1, <1>3, <1>4, GotoStep

(* Steps that look, take a lock or give up. *)
LEMMA StartLedger ==
  ASSUME LedgerInv, HistoryTypeOK', NEW c \in Client, NEW kind \in Kind, NEW alias \in Option(Alias),
         NEW to \in Option(Alias), Start(c, kind, alias, to)
  PROVE  LedgerInv'
  <1> DEFINE k == [Idle EXCEPT !.pc = "preflight", !.kind = kind, !.alias = alias, !.to = to]
  <1>1. /\ k \in Command /\ k.pc = "preflight" /\ k.kind = kind /\ k.alias = alias /\ k.to = to
        /\ k.id = None /\ k.proof = None
    BY DEF Idle, Command, Pc, Option
  <1>2. client' = [client EXCEPT ![c] = k]
    BY DEF Start
  <1> HIDE DEF k
  <1>3. Becomes(c, k)
    BY <1>1, <1>2, ProfilesAssumption DEF Becomes, CommandAvoids
  <1>4. InStep(c, k) /\ k.pc \notin Writing /\ k.pc \notin Serial /\ k.pc \notin Registering
    BY <1>1, FreeInStep DEF Start, Free
  <1>5. client[c].pc \notin Writing /\ client[c].pc \notin Serial
    BY DEF Start, Writing, Serial, Removing, Finishing, Restoring, Registering
  <1>6. LeasesMove(c) /\ LocksMove
    BY <1>1, <1>3, <1>4, <1>5, LeasesSame, LocksSame DEF Start, locks
  <1>7. BoundsKept
    BY ProfilesAssumption DEF Start, BoundsKept, LedgerInv, TypeOK
  <1>8. DataQuiet /\ TreesQuiet /\ UNCHANGED <<used, gone>>
    BY FilesQuiet DEF Start
  <1> QED BY <1>1, <1>3, <1>4, <1>6, <1>7, <1>8, QuietStep

LEMMA PreflightLedger ==
  ASSUME LedgerInv, HistoryTypeOK', NEW c \in Client, Preflight(c)
  PROVE  LedgerInv'
  <1> DEFINE pc == IF NoArtifacts(data, trees) THEN "reauth_scan" ELSE "quiesce"
  <1>1. /\ client[c].pc = "preflight" /\ Goto(c, pc) /\ pc \in Pc /\ pc \in Free /\ pc # "idle"
        /\ UNCHANGED <<locks, kept>> /\ DataQuiet /\ TreesQuiet
    BY FilesQuiet DEF Preflight, Pc, Free, ghosts, kept
  <1> HIDE DEF pc
  <1>2. Shape(client[c])
    BY DEF LedgerInv
  <1>3. ASSUME NEW k \in Command,
               k.pc = pc, k.kind = client[c].kind, k.alias = client[c].alias, k.to = client[c].to
        PROVE  InStep(c, k)
    BY <1>1, <1>2, <1>3, FreeInStep DEF Shape
  <1>4. /\ pc \notin Writing /\ pc \notin Serial /\ pc \notin Registering
        /\ client[c].pc \notin Writing /\ client[c].pc \notin Serial /\ client[c].pc \notin Registering
    BY <1>1 DEF Free, Writing, Serial, Registering, Removing, Finishing, Restoring
  <1> QED BY <1>1, <1>3, <1>4, GotoStep

LEMMA QuiesceLedger ==
  ASSUME LedgerInv, HistoryTypeOK', NEW c \in Client, Quiesce(c)
  PROVE  LedgerInv'
  <1>1. /\ client[c].pc = "quiesce" /\ DataQuiet /\ TreesQuiet /\ BoundsKept /\ UNCHANGED <<used, gone>>
    BY FilesQuiet, BoundsSame DEF Quiesce, ghosts, kept
  <1>2. CASE End(c)
    BY <1>1, <1>2, EndStep
  <1>3. CASE ~End(c)
    <2>1. /\ client[c] \in Command /\ Shape(client[c]) /\ client \in [Client -> Command]
          /\ data \in Data /\ data \in onData
      BY DEF LedgerInv, TypeOK, PresentMayStay
    <2>3. Effective(data) \in Option(Proof) /\ (Effective(data) # None => Effective(data) \in Proof /\ Effective(data) \in {data.barrier, data.sidecar})
      BY <2>1, EffectiveTyped
    <2>5. PICK pc \in Pc : /\ pc = IF Effective(data) # None THEN "tree" ELSE "reauth_scan"
                           /\ (pc = "tree" /\ Effective(data) # None) \/ pc = "reauth_scan"
      BY DEF Pc
    <2>2. PICK k : /\ k = [client[c] EXCEPT !.pc = pc, !.proof = Effective(data), !.snap = data]
                   /\ client' = [client EXCEPT ![c] = k] /\ UNCHANGED locks
      BY <1>3, <2>1, <2>5, ZenonT(60) DEF Quiesce
    <2>4. /\ k \in Command /\ k.pc = pc /\ k.proof = Effective(data) /\ k.snap = data
          /\ k.id = client[c].id /\ k.kind = client[c].kind /\ k.alias = client[c].alias /\ k.to = client[c].to
      BY <2>1, <2>2, <2>3 DEF Command, Option
    <2>6. Becomes(c, k)
      BY <2>1, <2>2, <2>3, <2>4 DEF Becomes, CommandAvoids, Unnamed, ProofsAvoid
    <2>7. /\ k.pc \notin Writing /\ k.pc \notin Serial /\ k.pc \notin Registering
          /\ client[c].pc \notin Writing /\ client[c].pc \notin Serial
      BY <1>1, <2>4, <2>5 DEF Writing, Serial, Registering, Removing, Finishing, Restoring
    <2>8. LeasesMove(c) /\ LocksMove
      BY <2>2, <2>4, <2>6, <2>7, LeasesSame, LocksSame DEF locks
    <2>9. InStep(c, k)
      <3>1. Shape(k)
        BY <1>1, <2>1, <2>3, <2>4, <2>5 DEF Shape, Writing, Serial, Registering, Working, Removing, Finishing, Restoring, Recovering
      <3>2. Held(c, k)' /\ Settling(k)'
        BY <2>4, <2>5 DEF Held, Settling, Working, Removing, Restoring
      <3>3. Wrote(k)'
        BY <2>4, <2>5 DEF Wrote, Finishing, Restoring
      <3> QED BY <3>1, <3>2, <3>3 DEF InStep
    <2> QED BY <1>1, <2>4, <2>6, <2>7, <2>8, <2>9, QuietStep
  <1> QED BY <1>2, <1>3

LEMMA LockTreeLedger ==
  ASSUME LedgerInv, HistoryTypeOK', NEW c \in Client, LockTree(c)
  PROVE  LedgerInv'
  <1>1. /\ client[c].pc = "tree" /\ DataQuiet /\ TreesQuiet /\ BoundsKept /\ UNCHANGED <<used, gone>>
    BY FilesQuiet, BoundsSame DEF LockTree, ghosts, kept
  <1>2. CASE End(c)
    BY <1>1, <1>2, EndStep
  <1>3. CASE ~End(c)
    <2>1. /\ Shape(client[c]) /\ TypeOK /\ client[c].proof \in Proof
      BY <1>1 DEF LedgerInv, Shape, Recovering
    <2>2. PICK i \in Id : i = client[c].proof.id
      BY <2>1, ProofNotNone
    <2>3. /\ Goto(c, "relock") /\ "relock" \in Pc
          /\ UNCHANGED <<removalLock, registryLock>>
          /\ \/ lease' = lease
             \/ lease[i] = None /\ lease' = [lease EXCEPT ![i] = c]
      <3>1. "relock" \in Pc
        BY DEF Pc
      <3> QED BY <1>3, <2>2, <3>1 DEF LockTree
    <2>4. PICK k \in Command :
           /\ Becomes(c, k)
           /\ k.pc = "relock" /\ k.kind = client[c].kind /\ k.alias = client[c].alias /\ k.to = client[c].to
           /\ k.id = client[c].id /\ k.proof = client[c].proof /\ k.snap = client[c].snap
      BY <2>3, GotoBecomes
    <2>5. ~CommandAvoids(client[c], i)
      BY <2>1, <2>2, ProofNotNone DEF CommandAvoids
    <2>6. LeasesMove(c)
      BY <2>1, <2>3, <2>5 DEF LeasesMove, TypeOK, Option
    <2>7. /\ k.pc \notin Writing /\ k.pc \notin Serial /\ k.pc \notin Registering
          /\ client[c].pc \notin Writing /\ client[c].pc \notin Serial
      BY <1>1, <2>4 DEF Writing, Serial, Registering, Removing, Finishing, Restoring
    <2>8. LocksMove
      BY <2>3, <2>4, <2>7, LocksSame
    <2>9. InStep(c, k)
      <3>1. Shape(k)
        BY <1>1, <2>1, <2>4 DEF Shape, Writing, Serial, Registering, Working, Removing, Finishing, Restoring, Recovering
      <3>2. Held(c, k)' /\ Settling(k)'
        BY <2>4 DEF Held, Settling, Working, Removing, Restoring
      <3>3. Wrote(k)'
        BY <2>4 DEF Wrote, Finishing, Restoring
      <3> QED BY <3>1, <3>2, <3>3 DEF InStep
    <2> QED BY <1>1, <2>4, <2>6, <2>7, <2>8, <2>9, QuietStep
  <1> QED BY <1>2, <1>3

LEMMA RelockLedger ==
  ASSUME LedgerInv, HistoryTypeOK', NEW c \in Client, Relock(c)
  PROVE  LedgerInv'
  <1>1. /\ client[c].pc = "relock" /\ DataQuiet /\ TreesQuiet /\ BoundsKept /\ UNCHANGED <<used, gone>>
    BY FilesQuiet, BoundsSame DEF Relock, ghosts, kept
  <1>2. CASE End(c)
    BY <1>1, <1>2, EndStep
  <1>3. CASE Resume(c, "reauth_scan")
    BY <1>1, <1>3, ResumeStep
  <1>4. CASE Goto(c, "settle") /\ ~End(c) /\ ~Resume(c, "reauth_scan")
    <2>1. /\ Shape(client[c]) /\ TypeOK
      BY DEF LedgerInv
    <2>2. /\ data.barrier = client[c].snap.barrier /\ data.sidecar = client[c].snap.sidecar
          /\ removalLock = None /\ removalLock' = c /\ UNCHANGED <<lease, registryLock>>
      BY <1>4 DEF Relock
    <2>3. client[c].proof = Effective(data)
      BY <1>1, <2>1, <2>2 DEF Shape, Effective
    <2>4. PICK k \in Command :
           /\ Becomes(c, k)
           /\ k.pc = "settle" /\ k.kind = client[c].kind /\ k.alias = client[c].alias /\ k.to = client[c].to
           /\ k.id = client[c].id /\ k.proof = client[c].proof /\ k.snap = client[c].snap
      BY <1>4, GotoBecomes DEF Pc
    <2>7. /\ k.pc \notin Writing /\ k.pc \in Serial /\ k.pc \notin Registering
          /\ client[c].pc \notin Writing /\ client[c].pc \notin Serial
      BY <1>1, <2>4 DEF Writing, Serial, Registering, Removing, Finishing, Restoring
    <2>8. LeasesMove(c) /\ LocksMove
      BY <2>2, <2>4, <2>7, LeasesSame, RemovalLocked
    <2>9. InStep(c, k)
      <3>1. Shape(k)
        BY <1>1, <2>1, <2>4 DEF Shape, Writing, Serial, Registering, Working, Removing, Finishing, Restoring, Recovering
      <3>2. Held(c, k)'
        BY <2>4 DEF Held, Working, Removing, Restoring
      <3>3. Wrote(k)'
        BY <2>4 DEF Wrote, Finishing, Restoring
      <3>4. Settling(k)'
        BY <1>1, <2>3, <2>4 DEF Settling, DataQuiet
      <3> QED BY <3>1, <3>2, <3>3, <3>4 DEF InStep
    <2> QED BY <1>1, <2>4, <2>7, <2>8, <2>9, QuietStep
  <1> QED BY <1>2, <1>3, <1>4 DEF Relock

------------------------------------------------------------------------------
(* Steps of the command that has the registry lock *)

(* Nobody else is at a step that knows of the files.                        *)
LEMMA WritesAlone ==
  ASSUME LedgerInv, HistoryTypeOK', NEW c \in Client, registryLock \in {c, None}, NEW o \in Client, o # c
  PROVE  /\ client[o].pc \notin Writing /\ client[o].pc \notin Registering
         /\ client[o].pc \notin Removing /\ client[o].pc \notin Finishing /\ client[o].pc \notin Restoring
  BY ProfilesAssumption DEF LedgerInv, LocksInStep, Writing

LEMMA NotWriting ==
  ASSUME NEW k, k.pc \notin Writing
  PROVE  Wrote(k)'
  BY DEF Wrote, Writing, Removing, Finishing, Restoring

(* The tree of the id j goes to x. *)
LEMMA TreeStep ==
  ASSUME LedgerInv, HistoryTypeOK', NEW c \in Client, NEW k \in Command, client' = [client EXCEPT ![c] = k],
         LeasesMove(c), LocksMove, BoundsKept, SameData, registryLock \in {c, None},
         NEW j \in Id, NEW x \in Place, NEW p \in Trees, ChangeTrees(p), p.at = [trees.at EXCEPT ![j] = x],
         used' \in {used, used \cup {j}}, j \in used', j \notin gone, gone' = gone,
         x = "live" \/ lease[j] \in {c, None} \/ trees.at[j] # "live",
         InStep(c, k),
         \A i \in Id \ {j} : Unnamed(i) /\ CommandAvoids(client[c], i) => CommandAvoids(k, i),
         k.pc \in Registering =>
           /\ lease' = lease /\ k.id = j /\ Unnamed(j) /\ lease[j] = None
           /\ \A o \in Client \ {c} : CommandAvoids(client[o], j)
  PROVE  LedgerInv'
  <1>0. /\ TypeOK /\ PresentMayStay /\ UnusedIsFresh /\ RegistersAlone /\ GoneIsUnnamed
        /\ \A o \in Client : Shape(client[o]) /\ Held(o, client[o]) /\ Wrote(client[o]) /\ Settling(client[o])
        /\ \A d \in onData : Distinct(d)
    BY DEF LedgerInv
  <1>1. /\ client' \in [Client -> Command] /\ client'[c] = k
        /\ \A o \in Client : o # c => client'[o] = client[o]
    BY <1>0 DEF TypeOK
  <1>a. /\ trees' = p /\ onTrees' = onTrees \cup {p} /\ data' = data /\ onData' = onData
        /\ \A i \in Id : i # j => p.at[i] = trees.at[i]
    BY <1>0 DEF ChangeTrees, SameData, TypeOK, Trees
  <1>2. TypeOK'
    BY <1>0, <1>1, <1>a DEF TypeOK, LeasesMove, LocksMove, BoundsKept
  <1>3. PresentMayStay' /\ (\A d \in onData : Distinct(d))'
    BY <1>0, <1>a DEF PresentMayStay, Distinct
  <1>4. ASSUME NEW o \in Client
        PROVE  (Shape(client[o]) /\ Held(o, client[o]) /\ Wrote(client[o]) /\ Settling(client[o]))'
    <2>1. CASE o = c
      BY <1>1, <2>1 DEF InStep, Shape
    <2>2. CASE o # c
      <3>1. client'[o] = client[o] /\ client[o] \in Command
        BY <1>0, <1>1, <2>2 DEF TypeOK
      <3>2. Shape(client[o])' /\ Settling(client[o])'
        BY <1>0, <1>a, <3>1 DEF Shape, Settling
      <3>3. Held(o, client[o])'
        <4>1. \A i \in Id : lease[i] = o => lease'[i] = o
          BY <2>2, LeasesKept
        <4>2. /\ client[o].pc \in Working => client[o].id \in Id
              /\ client[o].pc \notin Removing /\ client[o].pc \notin Restoring
          BY <1>0, <2>2, WritesAlone DEF Shape
        <4>3. client[o].pc \in Working => p.at[client[o].id] = "live"
          <5>1. client[o].pc \in Working => lease[client[o].id] = o /\ trees.at[client[o].id] = "live"
            BY <1>0 DEF Held
          <5>2. o # None
            BY ProfilesAssumption
          <5>3. p.at[j] = x
            BY <1>0 DEF TypeOK, Trees
          <5> QED BY <1>a, <2>2, <4>2, <5>1, <5>2, <5>3
        <4>4. client[o].pc = "login" => client[o].pc \in Working
          BY DEF Working
        <4> QED BY <1>0, <1>a, <3>1, <4>1, <4>2, <4>3, <4>4 DEF Held
      <3>4. Wrote(client[o])'
        BY <2>2, <3>1, WritesAlone, NotWriting
      <3> QED BY <3>2, <3>3, <3>4
    <2> QED BY <2>1, <2>2
  <1>5. UnusedIsFresh'
    <2> SUFFICES ASSUME NEW i \in Id, i \notin used'
                 PROVE  /\ Unnamed(i)' /\ lease'[i] = None
                        /\ \A q \in onTrees' : q.at[i] = "none"
                        /\ \A o \in Client : CommandAvoids(client'[o], i)
      BY DEF UnusedIsFresh, CommandAvoids
    <2>0. i \notin used /\ i # j
      OBVIOUS
    <2>1. /\ Unnamed(i) /\ lease[i] = None
          /\ \A q \in onTrees : q.at[i] = "none"
          /\ \A o \in Client : CommandAvoids(client[o], i)
      BY <1>0, <2>0 DEF UnusedIsFresh
    <2>2. Unnamed(i)'
      BY <1>a, <2>1 DEF Unnamed
    <2>3. lease'[i] = None /\ CommandAvoids(k, i)
      BY <2>0, <2>1 DEF LeasesMove
    <2>4. \A q \in onTrees' : q.at[i] = "none"
      BY <1>0, <1>a, <2>0, <2>1 DEF PresentMayStay
    <2> QED BY <1>1, <2>1, <2>2, <2>3, <2>4
  <1>6. RegistersAlone'
    <2> SUFFICES ASSUME NEW r \in Client, NEW i, client'[r].pc \in Registering, i = client'[r].id
                 PROVE  /\ Unnamed(i)' /\ lease'[i] = None
                        /\ i \in used' \ gone'
                        /\ \A o \in Client \ {r} : CommandAvoids(client'[o], i)
      BY DEF RegistersAlone, CommandAvoids, Unnamed
    <2>1. r = c
      BY <1>1, WritesAlone
    <2>2. Unnamed(j)'
      BY <1>1, <1>a, <2>1 DEF Unnamed
    <2> QED BY <1>1, <2>1, <2>2
  <1>7. GoneIsUnnamed'
    <2> SUFFICES ASSUME NEW i \in gone
                 PROVE  Unnamed(i)' /\ \A q \in onTrees' : q.at[i] = "none"
      BY DEF GoneIsUnnamed
    <2>1. i \in Id /\ Unnamed(i) /\ (\A q \in onTrees : q.at[i] = "none") /\ i # j
      BY <1>0 DEF GoneIsUnnamed, TypeOK
    <2>2. Unnamed(i)'
      BY <1>a, <2>1 DEF Unnamed
    <2> QED BY <1>0, <1>a, <2>1, <2>2 DEF PresentMayStay
  <1> QED BY <1>2, <1>3, <1>4, <1>5, <1>6, <1>7 DEF LedgerInv, LocksMove

(* The data root becomes d. *)
LEMMA DataStep ==
  ASSUME LedgerInv, HistoryTypeOK', NEW c \in Client, NEW k \in Command, Becomes(c, k),
         lease' = lease, LocksMove, UNCHANGED kept, SameTrees, registryLock \in {c, None},
         NEW d \in Data, ChangeData(d), Distinct(d),
         Effective(d) = Effective(data) \/ removalLock = c,
         \A i \in Id : d.doc[i] = None => data.doc[i] = None \/ lease[i] = c,
         \A i \in Id : data.doc[i] = None /\ ProofsAvoid(data, i) =>
                         (d.doc[i] = None /\ ProofsAvoid(d, i)) \/ i \in used \ gone,
         InStep(c, k), k.pc \notin Registering
  PROVE  LedgerInv'
  <1>0. /\ TypeOK /\ PresentMayStay /\ UnusedIsFresh /\ RegistersAlone /\ GoneIsUnnamed /\ LocksInStep
        /\ \A o \in Client : Shape(client[o]) /\ Held(o, client[o]) /\ Wrote(client[o]) /\ Settling(client[o])
        /\ \A e \in onData : Distinct(e)
    BY DEF LedgerInv
  <1>1. /\ client' \in [Client -> Command] /\ client'[c] = k
        /\ \A o \in Client : o # c => client'[o] = client[o]
    BY <1>0, Others
  <1>a. /\ data' = d /\ onData' = onData \cup {d} /\ trees' = trees /\ onTrees' = onTrees
        /\ used' = used /\ gone' = gone /\ UNCHANGED counters
    BY DEF ChangeData, SameTrees, ghosts, kept
  <1>2. TypeOK'
    BY <1>0, <1>1, <1>a DEF TypeOK, LocksMove, counters
  <1>3. PresentMayStay' /\ (\A e \in onData : Distinct(e))'
    BY <1>0, <1>a DEF PresentMayStay, Distinct
  <1>4. ASSUME NEW o \in Client
        PROVE  (Shape(client[o]) /\ Held(o, client[o]) /\ Wrote(client[o]) /\ Settling(client[o]))'
    <2>1. CASE o = c
      BY <1>1, <2>1 DEF InStep, Shape
    <2>2. CASE o # c
      <3>1. client'[o] = client[o] /\ client[o] \in Command
        BY <1>0, <1>1, <2>2 DEF TypeOK
      <3>2. Shape(client[o])'
        BY <1>0, <1>a, <3>1 DEF Shape
      <3>3. Settling(client[o])'
        <4>1. client[o].pc = "settle" => removalLock = o
          BY <1>0 DEF LocksInStep, Serial
        <4> QED BY <1>0, <1>a, <2>2, <3>1, <4>1 DEF Settling
      <3>4. Held(o, client[o])'
        <4>1. /\ client[o].pc \in Working => client[o].id \in Id
              /\ client[o].pc \notin Removing /\ client[o].pc \notin Restoring
          BY <1>0, <2>2, WritesAlone DEF Shape
        <4>2. client[o].pc = "login" => client[o].pc \in Working
          BY DEF Working
        <4> QED BY <1>0, <1>a, <2>2, <3>1, <4>1, <4>2 DEF Held
      <3>5. Wrote(client[o])'
        BY <2>2, <3>1, WritesAlone, NotWriting
      <3> QED BY <3>2, <3>3, <3>4, <3>5
    <2> QED BY <2>1, <2>2
  <1>b. ASSUME NEW i \in Id, Unnamed(i), i \notin used \ gone
        PROVE  Unnamed(i)'
    <2>1. data.doc[i] = None /\ ProofsAvoid(data, i)
      BY <1>0, <1>b DEF PresentMayStay, Unnamed
    <2>2. d.doc[i] = None /\ ProofsAvoid(d, i)
      BY <1>b, <2>1
    <2> QED BY <1>a, <1>b, <2>2 DEF Unnamed, ProofsAvoid
  <1>5. UnusedIsFresh'
    <2> SUFFICES ASSUME NEW i \in Id, i \notin used
                 PROVE  /\ Unnamed(i)' /\ lease'[i] = None
                        /\ \A q \in onTrees' : q.at[i] = "none"
                        /\ \A o \in Client : CommandAvoids(client'[o], i)
      BY <1>a DEF UnusedIsFresh, CommandAvoids
    <2>1. /\ Unnamed(i) /\ lease[i] = None
          /\ \A q \in onTrees : q.at[i] = "none"
          /\ \A o \in Client : CommandAvoids(client[o], i)
      BY <1>0 DEF UnusedIsFresh
    <2>2. Unnamed(i)' /\ CommandAvoids(k, i)
      BY <1>b, <2>1 DEF Becomes
    <2> QED BY <1>1, <1>a, <2>1, <2>2
  <1>6. RegistersAlone'
    <2>1. \A r \in Client : client'[r].pc \notin Registering
      BY <1>1, WritesAlone
    <2> QED BY <2>1 DEF RegistersAlone
  <1>7. GoneIsUnnamed'
    <2> SUFFICES ASSUME NEW i \in gone
                 PROVE  Unnamed(i)' /\ \A q \in onTrees' : q.at[i] = "none"
      BY <1>a DEF GoneIsUnnamed
    <2>1. i \in Id /\ Unnamed(i) /\ (\A q \in onTrees : q.at[i] = "none")
      BY <1>0 DEF GoneIsUnnamed, TypeOK
    <2>2. Unnamed(i)'
      BY <1>b, <2>1
    <2> QED BY <1>a, <2>1, <2>2
  <1> QED BY <1>2, <1>3, <1>4, <1>5, <1>6, <1>7 DEF LedgerInv, LocksMove

(* What a file names was given out, and is not gone. *)
LEMMA NamedIsUsed ==
  ASSUME LedgerInv, HistoryTypeOK', NEW i \in Id, ~(data.doc[i] = None /\ ProofsAvoid(data, i))
  PROVE  i \in used \ gone
  <1>1. ~Unnamed(i)
    BY DEF LedgerInv, PresentMayStay, Unnamed
  <1> QED BY <1>1 DEF LedgerInv, UnusedIsFresh, GoneIsUnnamed

LEMMA GotoTree ==
  ASSUME LedgerInv, HistoryTypeOK', NEW c \in Client, NEW pc \in Pc, Goto(c, pc), UNCHANGED <<locks, kept>>, SameData,
         NEW j \in Id, NEW x \in Place, MoveTree(j, x), j \in used \ gone,
         x = "live" \/ lease[j] \in {c, None} \/ trees.at[j] # "live",
         client[c].pc \in Writing, pc \in Writing,
         pc \in Serial <=> client[c].pc \in Serial,
         pc \in Registering => client[c].pc \in Registering /\ client[c].id = j,
         \A k \in Command :
           /\ k.pc = pc /\ k.kind = client[c].kind /\ k.alias = client[c].alias /\ k.to = client[c].to
           /\ k.id = client[c].id /\ k.proof = client[c].proof /\ k.snap = client[c].snap
           => InStep(c, k)
  PROVE  LedgerInv'
  <1>1. PICK k \in Command :
           /\ Becomes(c, k)
           /\ k.pc = pc /\ k.kind = client[c].kind /\ k.alias = client[c].alias /\ k.to = client[c].to
           /\ k.id = client[c].id /\ k.proof = client[c].proof /\ k.snap = client[c].snap
    BY GotoBecomes
  <1>2. InStep(c, k)
    BY <1>1
  <1>3. /\ lease' = lease /\ removalLock' = removalLock /\ registryLock' = registryLock
        /\ UNCHANGED <<used, gone>> /\ UNCHANGED counters
    BY DEF locks, ghosts, kept
  <1>4. LeasesMove(c) /\ LocksMove /\ BoundsKept
    BY <1>1, <1>3, LeasesSame, LocksSame, BoundsSame
  <1>5. registryLock = c
    BY DEF LedgerInv, LocksInStep
  <1>6. PICK p \in Trees : ChangeTrees(p) /\ p.at = [trees.at EXCEPT ![j] = x]
    BY EditTree DEF MoveTree, LedgerInv, TypeOK
  <1>7. pc \in Registering =>
           /\ lease' = lease /\ k.id = j /\ Unnamed(j) /\ lease[j] = None
           /\ \A o \in Client \ {c} : CommandAvoids(client[o], j)
    BY <1>1, <1>3 DEF LedgerInv, RegistersAlone
  <1>8. client' = [client EXCEPT ![c] = k] /\ \A i \in Id \ {j} : Unnamed(i) /\ CommandAvoids(client[c], i) => CommandAvoids(k, i)
    BY <1>1 DEF Becomes
  <1> QED BY <1>1, <1>2, <1>3, <1>4, <1>5, <1>6, <1>7, <1>8, TreeStep

LEMMA GotoData ==
  ASSUME LedgerInv, HistoryTypeOK', NEW c \in Client, NEW pc \in Pc, Goto(c, pc), UNCHANGED <<locks, kept>>, SameTrees,
         NEW d \in Data, ChangeData(d), Distinct(d),
         Effective(d) = Effective(data) \/ removalLock = c,
         \A i \in Id : d.doc[i] = None => data.doc[i] = None \/ lease[i] = c,
         \A i \in Id : data.doc[i] = None /\ ProofsAvoid(data, i) =>
                         (d.doc[i] = None /\ ProofsAvoid(d, i)) \/ i \in used \ gone,
         client[c].pc \in Writing, pc \in Writing, pc \notin Registering,
         pc \in Serial <=> client[c].pc \in Serial,
         \A k \in Command :
           /\ k.pc = pc /\ k.kind = client[c].kind /\ k.alias = client[c].alias /\ k.to = client[c].to
           /\ k.id = client[c].id /\ k.proof = client[c].proof /\ k.snap = client[c].snap
           => InStep(c, k)
  PROVE  LedgerInv'
  <1>1. PICK k \in Command :
           /\ Becomes(c, k)
           /\ k.pc = pc /\ k.kind = client[c].kind /\ k.alias = client[c].alias /\ k.to = client[c].to
           /\ k.id = client[c].id /\ k.proof = client[c].proof /\ k.snap = client[c].snap
    BY GotoBecomes
  <1>2. InStep(c, k)
    BY <1>1
  <1>3. lease' = lease /\ removalLock' = removalLock /\ registryLock' = registryLock
    BY DEF locks
  <1>4. LocksMove
    BY <1>1, <1>3, LocksSame
  <1>5. registryLock = c
    BY DEF LedgerInv, LocksInStep
  <1> QED BY <1>1, <1>2, <1>3, <1>4, <1>5, DataStep

LEMMA EntombLedger ==
  ASSUME LedgerInv, HistoryTypeOK', NEW c \in Client, Entomb(c)
  PROVE  LedgerInv'
  <1>1. /\ client[c].pc = "tomb" /\ Goto(c, "tomb_sync") /\ UNCHANGED <<locks, kept>> /\ SameData
        /\ MoveTree(client[c].proof.id, "tombstone")
    BY DEF Entomb, ghosts, kept
  <1>2. /\ "tomb_sync" \in Pc /\ "tombstone" \in Place
    BY DEF Pc, Place
  <1>3. /\ "tomb_sync" \in Writing /\ client[c].pc \in Writing
        /\ "tomb_sync" \in Serial /\ client[c].pc \in Serial /\ "tomb_sync" \notin Registering
    BY <1>1 DEF Writing, Serial, Registering, Removing, Finishing, Restoring
  <1>4. Shape(client[c]) /\ Held(c, client[c]) /\ Wrote(client[c]) /\ Settling(client[c]) /\ TypeOK
    BY DEF LedgerInv
  <1>5. client[c].proof \in Proof /\ client[c].proof # None /\ client[c].proof.id \in Id
    BY <1>1, <1>4, ProofNotNone DEF Shape, Removing, Finishing
  <1>6. PICK j \in Id : j = client[c].proof.id
    BY <1>5
  <1>7. j \in used \ gone
    <2>1. data.sidecar = client[c].proof
      BY <1>1, <1>4 DEF Wrote, Finishing
    <2> QED BY <1>5, <1>6, <2>1, NamedIsUsed DEF ProofsAvoid
  <1>8. "tombstone" = "live" \/ lease[j] \in {c, None} \/ trees.at[j] # "live"
    BY <1>1, <1>4, <1>6 DEF Held, Wrote, Shape, Removing, Finishing
  <1>9. trees'.at[j] = "tombstone" /\ data' = data
    BY <1>1, <1>2, <1>4, <1>6, EditTree DEF MoveTree, ChangeTrees, TypeOK, Trees, SameData
  <1>10. ASSUME NEW k \in Command,
               k.pc = "tomb_sync", k.kind = client[c].kind, k.alias = client[c].alias, k.to = client[c].to,
               k.id = client[c].id, k.proof = client[c].proof, k.snap = client[c].snap
        PROVE  InStep(c, k)
    <2>1. Shape(k)
      BY <1>1, <1>4, <1>10 DEF Shape, Writing, Serial, Registering, Working, Removing, Finishing, Restoring, Recovering
    <2>2. Held(c, k)' /\ Settling(k)'
      BY <1>1, <1>4, <1>10 DEF Held, Settling, Working, Removing, Restoring, locks
    <2>3. Wrote(k)'
      BY <1>1, <1>4, <1>6, <1>9, <1>10 DEF Wrote, Finishing, Restoring, Shape, Removing
    <2> QED BY <2>1, <2>2, <2>3 DEF InStep
  <1> QED BY <1>1, <1>2, <1>3, <1>6, <1>7, <1>8, <1>10, GotoTree

LEMMA UnlinkLedger ==
  ASSUME LedgerInv, HistoryTypeOK', NEW c \in Client, Unlink(c)
  PROVE  LedgerInv'
  <1>1. /\ client[c].pc = "unlink" /\ Goto(c, "unlinked") /\ UNCHANGED <<locks, kept>> /\ SameData
        /\ MoveTree(client[c].proof.id, "partial")
    BY DEF Unlink, ghosts, kept
  <1>2. /\ "unlinked" \in Pc /\ "partial" \in Place
    BY DEF Pc, Place
  <1>3. /\ "unlinked" \in Writing /\ client[c].pc \in Writing
        /\ "unlinked" \in Serial /\ client[c].pc \in Serial /\ "unlinked" \notin Registering
    BY <1>1 DEF Writing, Serial, Registering, Removing, Finishing, Restoring
  <1>4. Shape(client[c]) /\ Held(c, client[c]) /\ Wrote(client[c]) /\ Settling(client[c]) /\ TypeOK
    BY DEF LedgerInv
  <1>5. client[c].proof \in Proof /\ client[c].proof # None /\ client[c].proof.id \in Id
    BY <1>1, <1>4, ProofNotNone DEF Shape, Removing, Finishing
  <1>6. PICK j \in Id : j = client[c].proof.id
    BY <1>5
  <1>7. j \in used \ gone
    <2>1. data.sidecar = client[c].proof
      BY <1>1, <1>4 DEF Wrote, Finishing
    <2> QED BY <1>5, <1>6, <2>1, NamedIsUsed DEF ProofsAvoid
  <1>8. "partial" = "live" \/ lease[j] \in {c, None} \/ trees.at[j] # "live"
    BY <1>1, <1>4, <1>6 DEF Held, Wrote, Shape, Removing, Finishing
  <1>9. trees'.at[j] = "partial" /\ data' = data
    BY <1>1, <1>2, <1>4, <1>6, EditTree DEF MoveTree, ChangeTrees, TypeOK, Trees, SameData
  <1>10. ASSUME NEW k \in Command,
               k.pc = "unlinked", k.kind = client[c].kind, k.alias = client[c].alias, k.to = client[c].to,
               k.id = client[c].id, k.proof = client[c].proof, k.snap = client[c].snap
        PROVE  InStep(c, k)
    <2>1. Shape(k)
      BY <1>1, <1>4, <1>10 DEF Shape, Writing, Serial, Registering, Working, Removing, Finishing, Restoring, Recovering
    <2>2. Held(c, k)' /\ Settling(k)'
      BY <1>1, <1>4, <1>10 DEF Held, Settling, Working, Removing, Restoring, locks
    <2>3. Wrote(k)'
      BY <1>1, <1>4, <1>6, <1>9, <1>10 DEF Wrote, Finishing, Restoring, Shape, Removing
    <2> QED BY <2>1, <2>2, <2>3 DEF InStep
  <1> QED BY <1>1, <1>2, <1>3, <1>6, <1>7, <1>8, <1>10, GotoTree

LEMMA UnlinkedLedger ==
  ASSUME LedgerInv, HistoryTypeOK', NEW c \in Client, Unlinked(c)
  PROVE  LedgerInv'
  <1>1. /\ client[c].pc = "unlinked" /\ Goto(c, "unlink_sync") /\ UNCHANGED <<locks, kept>> /\ SameData
        /\ MoveTree(client[c].proof.id, "none")
    BY DEF Unlinked, ghosts, kept
  <1>2. /\ "unlink_sync" \in Pc /\ "none" \in Place
    BY DEF Pc, Place
  <1>3. /\ "unlink_sync" \in Writing /\ client[c].pc \in Writing
        /\ "unlink_sync" \in Serial /\ client[c].pc \in Serial /\ "unlink_sync" \notin Registering
    BY <1>1 DEF Writing, Serial, Registering, Removing, Finishing, Restoring
  <1>4. Shape(client[c]) /\ Held(c, client[c]) /\ Wrote(client[c]) /\ Settling(client[c]) /\ TypeOK
    BY DEF LedgerInv
  <1>5. client[c].proof \in Proof /\ client[c].proof # None /\ client[c].proof.id \in Id
    BY <1>1, <1>4, ProofNotNone DEF Shape, Removing, Finishing
  <1>6. PICK j \in Id : j = client[c].proof.id
    BY <1>5
  <1>7. j \in used \ gone
    <2>1. data.sidecar = client[c].proof
      BY <1>1, <1>4 DEF Wrote, Finishing
    <2> QED BY <1>5, <1>6, <2>1, NamedIsUsed DEF ProofsAvoid
  <1>8. "none" = "live" \/ lease[j] \in {c, None} \/ trees.at[j] # "live"
    BY <1>1, <1>4, <1>6 DEF Held, Wrote, Shape, Removing, Finishing
  <1>9. trees'.at[j] = "none" /\ data' = data
    BY <1>1, <1>2, <1>4, <1>6, EditTree DEF MoveTree, ChangeTrees, TypeOK, Trees, SameData
  <1>10. ASSUME NEW k \in Command,
               k.pc = "unlink_sync", k.kind = client[c].kind, k.alias = client[c].alias, k.to = client[c].to,
               k.id = client[c].id, k.proof = client[c].proof, k.snap = client[c].snap
        PROVE  InStep(c, k)
    <2>1. Shape(k)
      BY <1>1, <1>4, <1>10 DEF Shape, Writing, Serial, Registering, Working, Removing, Finishing, Restoring, Recovering
    <2>2. Held(c, k)' /\ Settling(k)'
      BY <1>1, <1>4, <1>10 DEF Held, Settling, Working, Removing, Restoring, locks
    <2>3. Wrote(k)'
      BY <1>1, <1>4, <1>6, <1>9, <1>10 DEF Wrote, Finishing, Restoring, Shape, Removing
    <2> QED BY <2>1, <2>2, <2>3 DEF InStep
  <1> QED BY <1>1, <1>2, <1>3, <1>6, <1>7, <1>8, <1>10, GotoTree

LEMMA RollbackSidecarLedger ==
  ASSUME LedgerInv, HistoryTypeOK', NEW c \in Client, RollbackSidecar(c)
  PROVE  LedgerInv'
  <1>1. /\ client[c].pc = "back_sidecar" /\ Goto(c, "back_sidecar_sync") /\ UNCHANGED <<locks, kept>> /\ SameTrees
        /\ ChangeData([data EXCEPT !.sidecar = None, !.tmp = FALSE])
    BY DEF RollbackSidecar, ghosts, kept
  <1>2. "back_sidecar_sync" \in Pc
    BY DEF Pc
  <1>3. /\ "back_sidecar_sync" \in Writing /\ client[c].pc \in Writing
        /\ "back_sidecar_sync" \in Serial /\ client[c].pc \in Serial /\ "back_sidecar_sync" \notin Registering
    BY <1>1 DEF Writing, Serial, Registering, Removing, Finishing, Restoring
  <1>4. /\ Shape(client[c]) /\ Held(c, client[c]) /\ Wrote(client[c]) /\ Settling(client[c]) /\ TypeOK
        /\ data \in Data /\ Distinct(data) /\ client[c] \in Command /\ removalLock = c
    BY <1>3 DEF LedgerInv, TypeOK, PresentMayStay, LocksInStep
  <1>5. /\ client[c].proof \in Proof /\ client[c].proof # None /\ client[c].proof.id \in Id
        /\ client[c].proof \in Option(Proof)
    BY <1>1, <1>4, ProofNotNone DEF Shape, Removing, Finishing, Restoring, Option
  <1>6. PICK d \in Data : ChangeData(d) /\ d = Dir(data.doc, data.barrier, None, FALSE)
    <2>1. [data EXCEPT !.sidecar = None, !.tmp = FALSE] = Dir(data.doc, data.barrier, None, FALSE)
      BY <1>4, EditSidecar
    <2>2. Dir(data.doc, data.barrier, None, FALSE) \in Data
      BY <1>4, <1>5, DataIsDir, DirTyped DEF Option, Document
    <2> QED BY <1>1, <2>1, <2>2
  <1>7. /\ d.doc = data.doc /\ d.barrier = data.barrier
        /\ d.sidecar = None
    BY <1>6 DEF Dir
  <1>8. Distinct(d)
    BY <1>4, <1>5, <1>7, DataIsDir DEF Distinct, Document
  <1>9. \A i \in Id : d.doc[i] = None => data.doc[i] = None \/ lease[i] = c
    BY <1>1, <1>4, <1>5, <1>7, DataIsDir DEF Document, Held, Shape, Removing
  <1>10. \A i \in Id : data.doc[i] = None /\ ProofsAvoid(data, i) =>
                          (d.doc[i] = None /\ ProofsAvoid(d, i)) \/ i \in used \ gone
    BY <1>1, <1>4, <1>5, <1>7, DataIsDir DEF Document, ProofsAvoid, Wrote
  <1>11. data' = d /\ trees' = trees /\ onTrees' = onTrees
    BY <1>1, <1>6 DEF ChangeData, SameTrees
  <1>12. ASSUME NEW k \in Command,
               k.pc = "back_sidecar_sync", k.kind = client[c].kind, k.alias = client[c].alias, k.to = client[c].to,
               k.id = client[c].id, k.proof = client[c].proof, k.snap = client[c].snap
        PROVE  InStep(c, k)
    <2>1. Shape(k)
      BY <1>1, <1>4, <1>12 DEF Shape, Writing, Serial, Registering, Working, Removing, Finishing, Restoring, Recovering
    <2>2. Held(c, k)' /\ Settling(k)'
      BY <1>1, <1>4, <1>12 DEF Held, Settling, Working, Removing, Restoring, locks
    <2>3. Wrote(k)'
      BY <1>1, <1>4, <1>5, <1>7, <1>11, <1>12, DataIsDir DEF Wrote, Finishing, Restoring, Shape, Removing, Document
    <2> QED BY <2>1, <2>2, <2>3 DEF InStep
  <1> QED BY <1>1, <1>2, <1>3, <1>4, <1>6, <1>8, <1>9, <1>10, <1>12, GotoData

LEMMA RollbackPublishLedger ==
  ASSUME LedgerInv, HistoryTypeOK', NEW c \in Client, RollbackPublish(c)
  PROVE  LedgerInv'
  <1>1. /\ client[c].pc = "back_publish" /\ Goto(c, "back_publish_sync") /\ UNCHANGED <<locks, kept>> /\ SameTrees
        /\ ChangeData([data EXCEPT !.barrier = None])
    BY DEF RollbackPublish, ghosts, kept
  <1>2. "back_publish_sync" \in Pc
    BY DEF Pc
  <1>3. /\ "back_publish_sync" \in Writing /\ client[c].pc \in Writing
        /\ "back_publish_sync" \in Serial /\ client[c].pc \in Serial /\ "back_publish_sync" \notin Registering
    BY <1>1 DEF Writing, Serial, Registering, Removing, Finishing, Restoring
  <1>4. /\ Shape(client[c]) /\ Held(c, client[c]) /\ Wrote(client[c]) /\ Settling(client[c]) /\ TypeOK
        /\ data \in Data /\ Distinct(data) /\ client[c] \in Command /\ removalLock = c
    BY <1>3 DEF LedgerInv, TypeOK, PresentMayStay, LocksInStep
  <1>5. /\ client[c].proof \in Proof /\ client[c].proof # None /\ client[c].proof.id \in Id
        /\ client[c].proof \in Option(Proof)
    BY <1>1, <1>4, ProofNotNone DEF Shape, Removing, Finishing, Restoring, Option
  <1>6. PICK d \in Data : ChangeData(d) /\ d = Dir(data.doc, None, data.sidecar, data.tmp)
    <2>1. [data EXCEPT !.barrier = None] = Dir(data.doc, None, data.sidecar, data.tmp)
      BY <1>4, EditBarrier
    <2>2. Dir(data.doc, None, data.sidecar, data.tmp) \in Data
      BY <1>4, <1>5, DataIsDir, DirTyped DEF Option, Document
    <2> QED BY <1>1, <2>1, <2>2
  <1>7. /\ d.doc = data.doc /\ d.barrier = None
        /\ d.sidecar = data.sidecar
    BY <1>6 DEF Dir
  <1>8. Distinct(d)
    BY <1>4, <1>5, <1>7, DataIsDir DEF Distinct, Document
  <1>9. \A i \in Id : d.doc[i] = None => data.doc[i] = None \/ lease[i] = c
    BY <1>1, <1>4, <1>5, <1>7, DataIsDir DEF Document, Held, Shape, Removing
  <1>10. \A i \in Id : data.doc[i] = None /\ ProofsAvoid(data, i) =>
                          (d.doc[i] = None /\ ProofsAvoid(d, i)) \/ i \in used \ gone
    BY <1>1, <1>4, <1>5, <1>7, DataIsDir DEF Document, ProofsAvoid, Wrote
  <1>11. data' = d /\ trees' = trees /\ onTrees' = onTrees
    BY <1>1, <1>6 DEF ChangeData, SameTrees
  <1>12. ASSUME NEW k \in Command,
               k.pc = "back_publish_sync", k.kind = client[c].kind, k.alias = client[c].alias, k.to = client[c].to,
               k.id = client[c].id, k.proof = client[c].proof, k.snap = client[c].snap
        PROVE  InStep(c, k)
    <2>1. Shape(k)
      BY <1>1, <1>4, <1>12 DEF Shape, Writing, Serial, Registering, Working, Removing, Finishing, Restoring, Recovering
    <2>2. Held(c, k)' /\ Settling(k)'
      BY <1>1, <1>4, <1>12 DEF Held, Settling, Working, Removing, Restoring, locks
    <2>3. Wrote(k)'
      BY <1>1, <1>4, <1>5, <1>7, <1>11, <1>12, DataIsDir DEF Wrote, Finishing, Restoring, Shape, Removing, Document
    <2> QED BY <2>1, <2>2, <2>3 DEF InStep
  <1> QED BY <1>1, <1>2, <1>3, <1>4, <1>6, <1>8, <1>9, <1>10, <1>12, GotoData

LEMMA WriteSidecarLedger ==
  ASSUME LedgerInv, HistoryTypeOK', NEW c \in Client, WriteSidecar(c)
  PROVE  LedgerInv'
  <1>1. /\ client[c].pc = "sidecar_tmp" /\ Goto(c, "sidecar") /\ UNCHANGED <<locks, kept>> /\ SameTrees
        /\ ChangeData([data EXCEPT !.tmp = TRUE])
    BY DEF WriteSidecar, ghosts, kept
  <1>2. "sidecar" \in Pc
    BY DEF Pc
  <1>3. /\ "sidecar" \in Writing /\ client[c].pc \in Writing
        /\ "sidecar" \in Serial /\ client[c].pc \in Serial /\ "sidecar" \notin Registering
    BY <1>1 DEF Writing, Serial, Registering, Removing, Finishing, Restoring
  <1>4. /\ Shape(client[c]) /\ Held(c, client[c]) /\ Wrote(client[c]) /\ Settling(client[c]) /\ TypeOK
        /\ data \in Data /\ Distinct(data) /\ client[c] \in Command /\ removalLock = c
    BY <1>3 DEF LedgerInv, TypeOK, PresentMayStay, LocksInStep
  <1>5. /\ client[c].proof \in Proof /\ client[c].proof # None /\ client[c].proof.id \in Id
        /\ client[c].proof \in Option(Proof)
    BY <1>1, <1>4, ProofNotNone DEF Shape, Removing, Finishing, Restoring, Option
  <1>6. PICK d \in Data : ChangeData(d) /\ d = Dir(data.doc, data.barrier, data.sidecar, TRUE)
    <2>1. [data EXCEPT !.tmp = TRUE] = Dir(data.doc, data.barrier, data.sidecar, TRUE)
      BY <1>4, EditTmp
    <2>2. Dir(data.doc, data.barrier, data.sidecar, TRUE) \in Data
      BY <1>4, <1>5, DataIsDir, DirTyped DEF Option, Document
    <2> QED BY <1>1, <2>1, <2>2
  <1>7. /\ d.doc = data.doc /\ d.barrier = data.barrier
        /\ d.sidecar = data.sidecar
    BY <1>6 DEF Dir
  <1>8. Distinct(d)
    BY <1>4, <1>5, <1>7, DataIsDir DEF Distinct, Document
  <1>9. \A i \in Id : d.doc[i] = None => data.doc[i] = None \/ lease[i] = c
    BY <1>1, <1>4, <1>5, <1>7, DataIsDir DEF Document, Held, Shape, Removing
  <1>10. \A i \in Id : data.doc[i] = None /\ ProofsAvoid(data, i) =>
                          (d.doc[i] = None /\ ProofsAvoid(d, i)) \/ i \in used \ gone
    BY <1>1, <1>4, <1>5, <1>7, DataIsDir DEF Document, ProofsAvoid, Wrote
  <1>11. data' = d /\ trees' = trees /\ onTrees' = onTrees
    BY <1>1, <1>6 DEF ChangeData, SameTrees
  <1>12. ASSUME NEW k \in Command,
               k.pc = "sidecar", k.kind = client[c].kind, k.alias = client[c].alias, k.to = client[c].to,
               k.id = client[c].id, k.proof = client[c].proof, k.snap = client[c].snap
        PROVE  InStep(c, k)
    <2>1. Shape(k)
      BY <1>1, <1>4, <1>12 DEF Shape, Writing, Serial, Registering, Working, Removing, Finishing, Restoring, Recovering
    <2>2. Held(c, k)' /\ Settling(k)'
      BY <1>1, <1>4, <1>12 DEF Held, Settling, Working, Removing, Restoring, locks
    <2>3. Wrote(k)'
      BY <1>1, <1>4, <1>5, <1>7, <1>11, <1>12, DataIsDir DEF Wrote, Finishing, Restoring, Shape, Removing, Document
    <2> QED BY <2>1, <2>2, <2>3 DEF InStep
  <1> QED BY <1>1, <1>2, <1>3, <1>4, <1>6, <1>8, <1>9, <1>10, <1>12, GotoData

LEMMA PublishSidecarLedger ==
  ASSUME LedgerInv, HistoryTypeOK', NEW c \in Client, PublishSidecar(c)
  PROVE  LedgerInv'
  <1>1. /\ client[c].pc = "sidecar" /\ Goto(c, "sidecar_sync") /\ UNCHANGED <<locks, kept>> /\ SameTrees
        /\ ChangeData([data EXCEPT !.tmp = FALSE, !.sidecar = client[c].proof])
    BY DEF PublishSidecar, ghosts, kept
  <1>2. "sidecar_sync" \in Pc
    BY DEF Pc
  <1>3. /\ "sidecar_sync" \in Writing /\ client[c].pc \in Writing
        /\ "sidecar_sync" \in Serial /\ client[c].pc \in Serial /\ "sidecar_sync" \notin Registering
    BY <1>1 DEF Writing, Serial, Registering, Removing, Finishing, Restoring
  <1>4. /\ Shape(client[c]) /\ Held(c, client[c]) /\ Wrote(client[c]) /\ Settling(client[c]) /\ TypeOK
        /\ data \in Data /\ Distinct(data) /\ client[c] \in Command /\ removalLock = c
    BY <1>3 DEF LedgerInv, TypeOK, PresentMayStay, LocksInStep
  <1>5. /\ client[c].proof \in Proof /\ client[c].proof # None /\ client[c].proof.id \in Id
        /\ client[c].proof \in Option(Proof)
    BY <1>1, <1>4, ProofNotNone DEF Shape, Removing, Finishing, Restoring, Option
  <1>6. PICK d \in Data : ChangeData(d) /\ d = Dir(data.doc, data.barrier, client[c].proof, FALSE)
    <2>1. [data EXCEPT !.tmp = FALSE, !.sidecar = client[c].proof] = Dir(data.doc, data.barrier, client[c].proof, FALSE)
      BY <1>4, EditSidecar
    <2>2. Dir(data.doc, data.barrier, client[c].proof, FALSE) \in Data
      BY <1>4, <1>5, DataIsDir, DirTyped DEF Option, Document
    <2> QED BY <1>1, <2>1, <2>2
  <1>7. /\ d.doc = data.doc /\ d.barrier = data.barrier
        /\ d.sidecar = client[c].proof
    BY <1>6 DEF Dir
  <1>8. Distinct(d)
    BY <1>4, <1>5, <1>7, DataIsDir DEF Distinct, Document
  <1>9. \A i \in Id : d.doc[i] = None => data.doc[i] = None \/ lease[i] = c
    BY <1>1, <1>4, <1>5, <1>7, DataIsDir DEF Document, Held, Shape, Removing
  <1>10. \A i \in Id : data.doc[i] = None /\ ProofsAvoid(data, i) =>
                          (d.doc[i] = None /\ ProofsAvoid(d, i)) \/ i \in used \ gone
    BY <1>1, <1>4, <1>5, <1>7, DataIsDir DEF Document, ProofsAvoid, Wrote
  <1>11. data' = d /\ trees' = trees /\ onTrees' = onTrees
    BY <1>1, <1>6 DEF ChangeData, SameTrees
  <1>12. ASSUME NEW k \in Command,
               k.pc = "sidecar_sync", k.kind = client[c].kind, k.alias = client[c].alias, k.to = client[c].to,
               k.id = client[c].id, k.proof = client[c].proof, k.snap = client[c].snap
        PROVE  InStep(c, k)
    <2>1. Shape(k)
      BY <1>1, <1>4, <1>12 DEF Shape, Writing, Serial, Registering, Working, Removing, Finishing, Restoring, Recovering
    <2>2. Held(c, k)' /\ Settling(k)'
      BY <1>1, <1>4, <1>12 DEF Held, Settling, Working, Removing, Restoring, locks
    <2>3. Wrote(k)'
      BY <1>1, <1>4, <1>5, <1>7, <1>11, <1>12, DataIsDir DEF Wrote, Finishing, Restoring, Shape, Removing, Document
    <2> QED BY <2>1, <2>2, <2>3 DEF InStep
  <1> QED BY <1>1, <1>2, <1>3, <1>4, <1>6, <1>8, <1>9, <1>10, <1>12, GotoData

LEMMA PublishRemovalLedger ==
  ASSUME LedgerInv, HistoryTypeOK', NEW c \in Client, PublishRemoval(c)
  PROVE  LedgerInv'
  <1>1. /\ client[c].pc = "publish" /\ Goto(c, "publish_sync") /\ UNCHANGED <<locks, kept>> /\ SameTrees
        /\ ChangeData(WithoutRow(data, client[c].proof.id))
    BY DEF PublishRemoval, WithoutRow, ghosts, kept
  <1>2. "publish_sync" \in Pc
    BY DEF Pc
  <1>3. /\ "publish_sync" \in Writing /\ client[c].pc \in Writing
        /\ "publish_sync" \in Serial /\ client[c].pc \in Serial /\ "publish_sync" \notin Registering
    BY <1>1 DEF Writing, Serial, Registering, Removing, Finishing, Restoring
  <1>4. /\ Shape(client[c]) /\ Held(c, client[c]) /\ Wrote(client[c]) /\ Settling(client[c]) /\ TypeOK
        /\ data \in Data /\ Distinct(data) /\ client[c] \in Command /\ removalLock = c
    BY <1>3 DEF LedgerInv, TypeOK, PresentMayStay, LocksInStep
  <1>5. /\ client[c].proof \in Proof /\ client[c].proof # None /\ client[c].proof.id \in Id
        /\ client[c].proof \in Option(Proof)
    BY <1>1, <1>4, ProofNotNone DEF Shape, Removing, Finishing, Restoring, Option
  <1>6. PICK d \in Data : ChangeData(d) /\ d = Dir([data.doc EXCEPT ![client[c].proof.id] = None], None, data.sidecar, data.tmp)
    <2>1. WithoutRow(data, client[c].proof.id) = Dir([data.doc EXCEPT ![client[c].proof.id] = None], None, data.sidecar, data.tmp)
      BY <1>4, EditRemoved
    <2>2. Dir([data.doc EXCEPT ![client[c].proof.id] = None], None, data.sidecar, data.tmp) \in Data
      BY <1>4, <1>5, DataIsDir, DirTyped DEF Option, Document
    <2> QED BY <1>1, <2>1, <2>2
  <1>7. /\ d.doc = [data.doc EXCEPT ![client[c].proof.id] = None] /\ d.barrier = None
        /\ d.sidecar = data.sidecar
    BY <1>6 DEF Dir
  <1>8. Distinct(d)
    BY <1>4, <1>5, <1>7, DataIsDir DEF Distinct, Document
  <1>9. \A i \in Id : d.doc[i] = None => data.doc[i] = None \/ lease[i] = c
    BY <1>1, <1>4, <1>5, <1>7, DataIsDir DEF Document, Held, Shape, Removing
  <1>10. \A i \in Id : data.doc[i] = None /\ ProofsAvoid(data, i) =>
                          (d.doc[i] = None /\ ProofsAvoid(d, i)) \/ i \in used \ gone
    BY <1>1, <1>4, <1>5, <1>7, DataIsDir DEF Document, ProofsAvoid, Wrote
  <1>11. data' = d /\ trees' = trees /\ onTrees' = onTrees
    BY <1>1, <1>6 DEF ChangeData, SameTrees
  <1>12. ASSUME NEW k \in Command,
               k.pc = "publish_sync", k.kind = client[c].kind, k.alias = client[c].alias, k.to = client[c].to,
               k.id = client[c].id, k.proof = client[c].proof, k.snap = client[c].snap
        PROVE  InStep(c, k)
    <2>1. Shape(k)
      BY <1>1, <1>4, <1>12 DEF Shape, Writing, Serial, Registering, Working, Removing, Finishing, Restoring, Recovering
    <2>2. Held(c, k)' /\ Settling(k)'
      BY <1>1, <1>4, <1>12 DEF Held, Settling, Working, Removing, Restoring, locks
    <2>3. Wrote(k)'
      BY <1>1, <1>4, <1>5, <1>7, <1>11, <1>12, DataIsDir DEF Wrote, Finishing, Restoring, Shape, Removing, Document
    <2> QED BY <2>1, <2>2, <2>3 DEF InStep
  <1> QED BY <1>1, <1>2, <1>3, <1>4, <1>6, <1>8, <1>9, <1>10, <1>12, GotoData

LEMMA DropSidecarLedger ==
  ASSUME LedgerInv, HistoryTypeOK', NEW c \in Client, DropSidecar(c)
  PROVE  LedgerInv'
  <1>1. /\ client[c].pc = "drop" /\ Goto(c, "drop_sync") /\ UNCHANGED <<locks, kept>> /\ SameTrees
        /\ ChangeData([data EXCEPT !.sidecar = None, !.tmp = FALSE])
    BY DEF DropSidecar, ghosts, kept
  <1>2. "drop_sync" \in Pc
    BY DEF Pc
  <1>3. /\ "drop_sync" \in Writing /\ client[c].pc \in Writing
        /\ "drop_sync" \in Serial /\ client[c].pc \in Serial /\ "drop_sync" \notin Registering
    BY <1>1 DEF Writing, Serial, Registering, Removing, Finishing, Restoring
  <1>4. /\ Shape(client[c]) /\ Held(c, client[c]) /\ Wrote(client[c]) /\ Settling(client[c]) /\ TypeOK
        /\ data \in Data /\ Distinct(data) /\ client[c] \in Command /\ removalLock = c
    BY <1>3 DEF LedgerInv, TypeOK, PresentMayStay, LocksInStep
  <1>5. /\ client[c].proof \in Proof /\ client[c].proof # None /\ client[c].proof.id \in Id
        /\ client[c].proof \in Option(Proof)
    BY <1>1, <1>4, ProofNotNone DEF Shape, Removing, Finishing, Restoring, Option
  <1>6. PICK d \in Data : ChangeData(d) /\ d = Dir(data.doc, data.barrier, None, FALSE)
    <2>1. [data EXCEPT !.sidecar = None, !.tmp = FALSE] = Dir(data.doc, data.barrier, None, FALSE)
      BY <1>4, EditSidecar
    <2>2. Dir(data.doc, data.barrier, None, FALSE) \in Data
      BY <1>4, <1>5, DataIsDir, DirTyped DEF Option, Document
    <2> QED BY <1>1, <2>1, <2>2
  <1>7. /\ d.doc = data.doc /\ d.barrier = data.barrier
        /\ d.sidecar = None
    BY <1>6 DEF Dir
  <1>8. Distinct(d)
    BY <1>4, <1>5, <1>7, DataIsDir DEF Distinct, Document
  <1>9. \A i \in Id : d.doc[i] = None => data.doc[i] = None \/ lease[i] = c
    BY <1>1, <1>4, <1>5, <1>7, DataIsDir DEF Document, Held, Shape, Removing
  <1>10. \A i \in Id : data.doc[i] = None /\ ProofsAvoid(data, i) =>
                          (d.doc[i] = None /\ ProofsAvoid(d, i)) \/ i \in used \ gone
    BY <1>1, <1>4, <1>5, <1>7, DataIsDir DEF Document, ProofsAvoid, Wrote
  <1>11. data' = d /\ trees' = trees /\ onTrees' = onTrees
    BY <1>1, <1>6 DEF ChangeData, SameTrees
  <1>12. ASSUME NEW k \in Command,
               k.pc = "drop_sync", k.kind = client[c].kind, k.alias = client[c].alias, k.to = client[c].to,
               k.id = client[c].id, k.proof = client[c].proof, k.snap = client[c].snap
        PROVE  InStep(c, k)
    <2>1. Shape(k)
      BY <1>1, <1>4, <1>12 DEF Shape, Writing, Serial, Registering, Working, Removing, Finishing, Restoring, Recovering
    <2>2. Held(c, k)' /\ Settling(k)'
      BY <1>1, <1>4, <1>12 DEF Held, Settling, Working, Removing, Restoring, locks
    <2>3. Wrote(k)'
      BY <1>1, <1>4, <1>5, <1>7, <1>11, <1>12, DataIsDir DEF Wrote, Finishing, Restoring, Shape, Removing, Document
    <2> QED BY <2>1, <2>2, <2>3 DEF InStep
  <1> QED BY <1>1, <1>2, <1>3, <1>4, <1>6, <1>8, <1>9, <1>10, <1>12, GotoData

(* Recovery settles: it gives up, finishes, or puts the tree back. *)
LEMMA VerdictTable ==
  ASSUME NEW d, NEW p, NEW x, NEW leased
  PROVE  LET verdict == Verdict(d, p, x, leased)
         IN  /\ verdict \in {"required", "back", "finish", "drop"}
             /\ verdict = "back" =>
                  leased /\ d.barrier # None /\ p.at[x.id] \in {"live", "tombstone"}
             /\ verdict \in {"finish", "drop"} => d.barrier = None /\ d.doc[x.id] = None
             /\ verdict = "finish" => p.at[x.id] \in {"tombstone", "partial"}
             /\ verdict = "drop" => p.at[x.id] = "none"
  BY DEF Verdict

LEMMA SettleLedger ==
  ASSUME LedgerInv, HistoryTypeOK', NEW c \in Client, Settle(c)
  PROVE  LedgerInv'
  <1>1. /\ client[c].pc = "settle" /\ registryLock = None /\ UNCHANGED <<data, onData>> /\ DataQuiet /\ BoundsKept
        /\ UNCHANGED <<used, gone>> /\ client[c].pc \notin Writing /\ client[c].pc \in Serial
    BY FilesQuiet, BoundsSame DEF Settle, SameData, ghosts, kept, Writing, Serial, Removing, Finishing, Restoring, Registering
  <1>2. Shape(client[c]) /\ TypeOK /\ Settling(client[c]) /\ data \in Data /\ trees \in Trees
    BY DEF LedgerInv, TypeOK
  <1>3. /\ client[c].proof \in Proof /\ client[c].proof # None /\ client[c].proof = Effective(data)
        /\ client[c].proof \in {data.barrier, data.sidecar}
    BY <1>1, <1>2, EffectiveTyped, ProofNotNone DEF Shape, Settling, Recovering
  <1>4. PICK j \in Id : j = client[c].proof.id
    BY <1>3, ProofNotNone
  <1>6. PICK verdict : verdict = Verdict(data, trees, client[c].proof, lease[j] = c /\ ~changed)
    OBVIOUS
  <1>7. CASE verdict = "required"
    <2>1. End(c) /\ SameTrees
      BY <1>4, <1>6, <1>7 DEF Settle
    <2> QED BY <1>1, <2>1, FilesQuiet, EndStep
  <1>8. CASE verdict = "back"
    <2>1. /\ lease[j] = c /\ data.barrier # None /\ trees.at[j] \in {"live", "tombstone"}
      BY <1>4, <1>6, <1>8 DEF Verdict
    <2>2. /\ registryLock' = c /\ lease' = lease /\ removalLock' = removalLock
          /\ \/ Goto(c, "back_sidecar") /\ UNCHANGED <<trees, onTrees>> /\ trees.at[j] = "live"
             \/ Goto(c, "back_sync") /\ MoveTree(j, "live")
          /\ SameData
      BY <1>4, <1>6, <1>8 DEF Settle
    <2>3. PICK pc \in {"back_sidecar", "back_sync"} :
            /\ Goto(c, pc) /\ pc \in Pc /\ pc \in Restoring
            /\ \/ UNCHANGED <<trees, onTrees>> /\ trees.at[j] = "live"
               \/ MoveTree(j, "live")
      BY <2>2 DEF Pc, Restoring
    <2>4. PICK k \in Command :
           /\ Becomes(c, k)
           /\ k.pc = pc /\ k.kind = client[c].kind /\ k.alias = client[c].alias /\ k.to = client[c].to
           /\ k.id = client[c].id /\ k.proof = client[c].proof /\ k.snap = client[c].snap
      BY <2>3, GotoBecomes
    <2>5. k.pc \in Writing /\ k.pc \in Serial /\ k.pc \notin Registering
      BY <2>3, <2>4 DEF Writing, Serial, Registering, Restoring
    <2>6. LeasesMove(c) /\ LocksMove
      BY <1>1, <2>2, <2>4, <2>5, LeasesSame, RegistryLocked
    <2>7. "live" \in Place
      BY DEF Place
    <2>8. trees'.at[j] = "live"
      BY <1>2, <2>3, <2>7, EditTree DEF MoveTree, ChangeTrees, Trees
    <2>9. InStep(c, k)
      <3>1. Shape(k)
        BY <1>1, <1>2, <2>3, <2>4 DEF Shape, Writing, Serial, Registering, Working, Removing, Finishing, Restoring, Recovering
      <3>2. Held(c, k)' /\ Settling(k)'
        BY <1>4, <2>1, <2>2, <2>3, <2>4 DEF Held, Settling, Working, Removing, Restoring
      <3>3. Wrote(k)'
        BY <1>4, <2>3, <2>4, <2>8 DEF Wrote, Finishing, Restoring
      <3> QED BY <3>1, <3>2, <3>3 DEF InStep
    <2>10. CASE UNCHANGED <<trees, onTrees>>
      BY <1>1, <2>4, <2>5, <2>6, <2>9, <2>10, FilesQuiet, QuietStep
    <2>11. CASE MoveTree(j, "live")
      <3>1. PICK p \in Trees : ChangeTrees(p) /\ p.at = [trees.at EXCEPT ![j] = "live"]
        BY <1>2, <2>7, <2>11, EditTree DEF MoveTree
      <3>2. j \in used \ gone
        BY <1>3, <1>4, NamedIsUsed DEF ProofsAvoid
      <3>3. client' = [client EXCEPT ![c] = k] /\ \A i \in Id \ {j} : Unnamed(i) /\ CommandAvoids(client[c], i) => CommandAvoids(k, i)
        BY <2>4 DEF Becomes
      <3> QED BY <1>1, <2>2, <2>4, <2>5, <2>6, <2>7, <2>9, <3>1, <3>2, <3>3, TreeStep
    <2> QED BY <2>3, <2>10, <2>11
  <1>9. CASE verdict \in {"finish", "drop"}
    <2>1. /\ data.barrier = None /\ data.doc[j] = None /\ client[c].proof = data.sidecar
          /\ verdict = "finish" => trees.at[j] \in {"tombstone", "partial"}
          /\ verdict = "drop" => trees.at[j] = "none"
      BY <1>3, <1>4, <1>6, <1>9, VerdictTable
    <2>2. PICK pc : pc = IF verdict = "finish" THEN "unlink" ELSE "unlink_sync"
      OBVIOUS
    <2>3. /\ registryLock' = c /\ lease' = lease /\ removalLock' = removalLock
          /\ Goto(c, pc) /\ SameTrees
      BY <1>4, <1>6, <1>9, <2>2 DEF Settle
    <2>4. pc \in Pc /\ pc \in Finishing /\ pc \in {"unlink", "unlink_sync"}
      BY <2>2 DEF Pc, Finishing
    <2>5. PICK k \in Command :
           /\ Becomes(c, k)
           /\ k.pc = pc /\ k.kind = client[c].kind /\ k.alias = client[c].alias /\ k.to = client[c].to
           /\ k.id = client[c].id /\ k.proof = client[c].proof /\ k.snap = client[c].snap
      BY <2>3, <2>4, GotoBecomes
    <2>6. k.pc \in Writing /\ k.pc \in Serial /\ k.pc \notin Registering
      BY <2>4, <2>5 DEF Writing, Serial, Registering, Finishing
    <2>7. LeasesMove(c) /\ LocksMove
      BY <1>1, <2>3, <2>5, <2>6, LeasesSame, RegistryLocked
    <2>8. InStep(c, k)
      <3>1. Shape(k)
        BY <1>1, <1>2, <2>4, <2>5 DEF Shape, Writing, Serial, Registering, Working, Removing, Finishing, Restoring, Recovering
      <3>2. Held(c, k)' /\ Settling(k)'
        BY <2>4, <2>5 DEF Held, Settling, Working, Removing, Restoring
      <3>3. Wrote(k)'
        BY <1>1, <1>4, <1>9, <2>1, <2>2, <2>3, <2>4, <2>5 DEF Wrote, Finishing, Restoring, SameData, SameTrees
      <3> QED BY <3>1, <3>2, <3>3 DEF InStep
    <2> QED BY <1>1, <2>3, <2>5, <2>6, <2>7, <2>8, FilesQuiet, QuietStep
  <1> QED BY <1>6, <1>7, <1>8, <1>9, VerdictTable

LEMMA SyncRollbackLedger ==
  ASSUME LedgerInv, HistoryTypeOK', NEW c \in Client, SyncRollback(c)
  PROVE  LedgerInv'
  BY FilesQuiet, BoundsSame, ResumeStep DEF SyncRollback, ghosts, kept

LEMMA SaveSyncLedger ==
  ASSUME LedgerInv, HistoryTypeOK', NEW c \in Client, SaveSync(c)
  PROVE  LedgerInv'
  BY FilesQuiet, BoundsSame, EndStep DEF SaveSync, ghosts, kept

LEMMA KillLedger ==
  ASSUME LedgerInv, HistoryTypeOK', NEW c \in Client, Kill(c)
  PROVE  LedgerInv'
  <1>1. BoundsKept
    BY DEF Kill, BoundsKept, LedgerInv, TypeOK
  <1> QED BY <1>1, FilesQuiet, EndStep DEF Kill

LEMMA TreeChangedLedger ==
  ASSUME LedgerInv, HistoryTypeOK', NEW c \in Client, TreeChanged(c)
  PROVE  LedgerInv'
  BY FilesQuiet, BoundsSame, EndStep DEF TreeChanged, ghosts

(* A removal is reported: its id is named nowhere. *)
LEMMA SyncDroppedLedger ==
  ASSUME LedgerInv, HistoryTypeOK', NEW c \in Client, SyncDropped(c)
  PROVE  LedgerInv'
  <1>1. /\ client[c].pc = "drop_sync" /\ SyncData /\ DataQuiet /\ TreesQuiet /\ BoundsKept /\ used' = used
        /\ SameTrees
    BY FilesQuiet, BoundsSame DEF SyncDropped
  <1>2. CASE client[c].snap # None
    BY <1>1, <1>2, ResumeStep DEF SyncDropped
  <1>3. CASE client[c].snap = None
    <2>1. End(c) /\ gone' = gone \cup {client[c].proof.id}
      BY <1>3 DEF SyncDropped
    <2>2. /\ Shape(client[c]) /\ Wrote(client[c]) /\ TypeOK /\ UnusedIsFresh /\ GoneIsUnnamed
      BY DEF LedgerInv
    <2>3. client[c].proof \in Proof /\ client[c].proof # None /\ client[c].proof.id \in Id
      BY <1>1, <2>2, ProofNotNone DEF Shape, Finishing
    <2>4. PICK j \in Id : j = client[c].proof.id
      BY <2>3
    <2>5. j \in used
      BY <2>2, <2>3, <2>4 DEF UnusedIsFresh, CommandAvoids
    <2>6. /\ data.barrier = None /\ data.sidecar = None /\ data.doc[j] = None
          /\ \A p \in onTrees : p.at[j] = "none"
      BY <1>1, <2>2, <2>4 DEF Wrote, Finishing
    <2>7. Becomes(c, Idle) /\ Unlock(c) /\ Idle \in Command
      BY <2>1, IdleTyped, EndBecomes DEF End
    <2>8. InStep(c, Idle) /\ Idle.pc \notin Writing /\ Idle.pc \notin Serial /\ Idle.pc \notin Registering
      BY IdleTyped, FreeInStep DEF Free
    <2>9. LeasesMove(c) /\ LocksMove
      BY <2>7, <2>8, Unlocks
    <2>10. registryLock = c
      BY <1>1 DEF LedgerInv, LocksInStep, Writing, Finishing
    <2>11. /\ client' \in [Client -> Command] /\ client'[c] = Idle
           /\ \A o \in Client : o # c => client'[o] = client[o]
      BY <2>2, <2>7, Others
    <2>12. \A o \in Client : client'[o].pc \notin Registering
      BY <2>8, <2>10, <2>11, WritesAlone
    <2>13. PresentMayStay' /\ (\A d \in onData : Distinct(d))'
      BY <1>1 DEF LedgerInv, PresentMayStay, DataQuiet, TreesQuiet, Distinct
    <2>14. TypeOK'
      BY <1>1, <2>1, <2>2, <2>4, <2>5, <2>9, <2>11 DEF TypeOK, DataQuiet, TreesQuiet, LeasesMove, LocksMove, BoundsKept
    <2>15. ASSUME NEW o \in Client
           PROVE  (Shape(client[o]) /\ Held(o, client[o]) /\ Wrote(client[o]) /\ Settling(client[o]))'
      <3>1. CASE o = c
        BY <2>8, <2>11, <3>1 DEF InStep, Shape
      <3>2. CASE o # c
        <4>1. /\ client'[o] = client[o] /\ Shape(client[o]) /\ Held(o, client[o]) /\ Settling(client[o])
              /\ client[o].pc \notin Removing /\ client[o].pc \notin Restoring /\ client[o].pc \notin Writing
          BY <2>10, <2>11, <3>2, WritesAlone DEF LedgerInv
        <4>2. \A i \in Id : lease[i] = o => lease'[i] = o
          BY <2>9, <3>2, LeasesKept
        <4>3. Held(o, client[o])'
          BY <1>1, <4>1, <4>2 DEF Held, Shape, DataQuiet, TreesQuiet
        <4> QED BY <1>1, <4>1, <4>3, NotWriting DEF Shape, Settling, DataQuiet
      <3> QED BY <3>1, <3>2
    <2>16. UnusedIsFresh'
      <3> SUFFICES ASSUME NEW i \in Id, i \notin used
                   PROVE  /\ Unnamed(i)' /\ lease'[i] = None
                          /\ \A q \in onTrees' : q.at[i] = "none"
                          /\ \A o \in Client : CommandAvoids(client'[o], i)
        BY <1>1 DEF UnusedIsFresh, CommandAvoids
      <3>1. /\ Unnamed(i) /\ lease[i] = None
            /\ \A q \in onTrees : q.at[i] = "none"
            /\ \A o \in Client : CommandAvoids(client[o], i)
        BY <2>2 DEF UnusedIsFresh
      <3>2. Unnamed(i)' /\ lease'[i] = None /\ CommandAvoids(Idle, i)
        BY <1>1, <2>7, <2>9, <3>1, UnnamedKept, FreshKept
      <3> QED BY <1>1, <2>11, <3>1, <3>2 DEF SameTrees
    <2>17. RegistersAlone'
      BY <2>12 DEF RegistersAlone
    <2>18. GoneIsUnnamed'
      <3> SUFFICES ASSUME NEW i \in gone \cup {j}
                   PROVE  Unnamed(i)' /\ \A q \in onTrees' : q.at[i] = "none"
        BY <2>1, <2>4 DEF GoneIsUnnamed
      <3>1. CASE i = j
        BY <1>1, <2>6, <3>1 DEF Unnamed, ProofsAvoid, SyncData, SameTrees
      <3>2. CASE i # j
        <4>1. i \in Id /\ Unnamed(i) /\ \A q \in onTrees : q.at[i] = "none"
          BY <2>2, <3>2 DEF GoneIsUnnamed, TypeOK
        <4> QED BY <1>1, <4>1, UnnamedKept DEF SameTrees
      <3> QED BY <3>1, <3>2
    <2> QED BY <2>9, <2>13, <2>14, <2>15, <2>16, <2>17, <2>18 DEF LedgerInv, LocksMove
  <1> QED BY <1>2, <1>3

------------------------------------------------------------------------------
(* Recovery of reauthentications, the choice of the profile and its lease *)

LEMMA ReauthScanLedger ==
  ASSUME LedgerInv, HistoryTypeOK', NEW c \in Client, ReauthScan(c)
  PROVE  LedgerInv'
  <1>1. /\ client[c].pc = "reauth_scan" /\ DataQuiet /\ TreesQuiet /\ BoundsKept /\ UNCHANGED <<used, gone>>
    BY FilesQuiet, BoundsSame DEF ReauthScan, ghosts, kept
  <1>2. CASE End(c)
    BY <1>1, <1>2, EndStep
  <1>3. CASE ~End(c)
    <2>1. /\ client[c] \in Command /\ Shape(client[c]) /\ client \in [Client -> Command]
          /\ data \in Data /\ trees \in Trees
      BY DEF LedgerInv, TypeOK
    <2>2. PICK k : /\ k = [client[c] EXCEPT !.pc = "reauth_clean", !.snap = data, !.todo = trees.reauth]
                   /\ client' = [client EXCEPT ![c] = k] /\ UNCHANGED locks
      BY <1>3, <2>1 DEF ReauthScan
    <2>3. /\ k \in Command /\ k.pc = "reauth_clean" /\ k.proof = client[c].proof /\ k.snap = data
          /\ k.id = client[c].id /\ k.kind = client[c].kind /\ k.alias = client[c].alias /\ k.to = client[c].to
      BY <2>1, <2>2, ZenonT(60) DEF Command, Option, Pc, Trees
    <2>4. Becomes(c, k)
      BY <2>2, <2>3 DEF Becomes, CommandAvoids
    <2>5. /\ k.pc \notin Writing /\ k.pc \notin Serial /\ k.pc \notin Registering
          /\ client[c].pc \notin Writing /\ client[c].pc \notin Serial
      BY <1>1, <2>3 DEF Writing, Serial, Registering, Removing, Finishing, Restoring
    <2>6. LeasesMove(c) /\ LocksMove
      BY <2>2, <2>3, <2>4, <2>5, LeasesSame, LocksSame DEF locks
    <2>7. InStep(c, k)
      <3>1. Shape(k)
        BY <1>1, <2>1, <2>3 DEF Shape, Writing, Serial, Registering, Working, Removing, Finishing, Restoring, Recovering
      <3>2. Held(c, k)' /\ Settling(k)'
        BY <2>3 DEF Held, Settling, Working, Removing, Restoring
      <3>3. Wrote(k)'
        BY <2>3 DEF Wrote, Finishing, Restoring
      <3> QED BY <3>1, <3>2, <3>3 DEF InStep
    <2> QED BY <1>1, <2>3, <2>4, <2>5, <2>6, <2>7, QuietStep
  <1> QED BY <1>2, <1>3

LEMMA ReauthCleanLedger ==
  ASSUME LedgerInv, HistoryTypeOK', NEW c \in Client, ReauthClean(c)
  PROVE  LedgerInv'
  <1>1. /\ client[c].pc = "reauth_clean" /\ DataQuiet /\ BoundsKept /\ UNCHANGED <<used, gone>>
    BY FilesQuiet, BoundsSame DEF ReauthClean, ghosts, kept
  <1>2. CASE End(c) /\ SameTrees
    BY <1>1, <1>2, FilesQuiet, EndStep
  <1>3. CASE Resume(c, "select") /\ SameTrees
    BY <1>1, <1>3, FilesQuiet, ResumeStep
  <1>4. CASE ~(End(c) /\ SameTrees) /\ ~(Resume(c, "select") /\ SameTrees)
    <2>1. /\ client[c] \in Command /\ Shape(client[c]) /\ client \in [Client -> Command]
          /\ trees \in Trees /\ trees \in onTrees
      BY DEF LedgerInv, TypeOK, PresentMayStay
    <2>2. PICK i \in client[c].todo :
            /\ trees' = [trees EXCEPT !.reauth = @ \ {i}] /\ onTrees' = {trees'}
            /\ client' = [client EXCEPT ![c].todo = @ \ {i}]
            /\ UNCHANGED locks
      BY <1>4 DEF ReauthClean, ChangeAndSyncTrees
    <2>3. i \in Id
      BY <2>1, <2>2 DEF Command
    <2>4. TreesQuiet
      <3>1. trees' \in Trees /\ trees'.at = trees.at
        BY <2>1, <2>2, <2>3 DEF Trees
      <3> QED BY <2>1, <2>2, <3>1 DEF TreesQuiet
    <2>5. PICK k : k = [client[c] EXCEPT !.todo = @ \ {i}] /\ client' = [client EXCEPT ![c] = k]
      BY <2>1, <2>2
    <2>6. /\ k \in Command /\ k.pc = "reauth_clean" /\ k.proof = client[c].proof /\ k.snap = client[c].snap
          /\ k.id = client[c].id /\ k.kind = client[c].kind /\ k.alias = client[c].alias /\ k.to = client[c].to
      BY <1>1, <2>1, <2>5 DEF Command
    <2>7. Becomes(c, k)
      BY <2>5, <2>6 DEF Becomes, CommandAvoids
    <2>8. /\ k.pc \notin Writing /\ k.pc \notin Serial /\ k.pc \notin Registering
          /\ client[c].pc \notin Writing /\ client[c].pc \notin Serial
      BY <1>1, <2>6 DEF Writing, Serial, Registering, Removing, Finishing, Restoring
    <2>9. LeasesMove(c) /\ LocksMove
      BY <2>2, <2>6, <2>7, <2>8, LeasesSame, LocksSame DEF locks
    <2>10. InStep(c, k)
      <3>1. Shape(k)
        BY <1>1, <2>1, <2>6 DEF Shape, Writing, Serial, Registering, Working, Removing, Finishing, Restoring, Recovering
      <3>2. Held(c, k)' /\ Settling(k)'
        BY <2>6 DEF Held, Settling, Working, Removing, Restoring
      <3>3. Wrote(k)'
        BY <2>6 DEF Wrote, Finishing, Restoring
      <3> QED BY <3>1, <3>2, <3>3 DEF InStep
    <2> QED BY <1>1, <2>4, <2>6, <2>7, <2>8, <2>9, <2>10, QuietStep
  <1> QED BY <1>2, <1>3, <1>4

LEMMA SelectLedger ==
  ASSUME LedgerInv, HistoryTypeOK', NEW c \in Client, Select(c)
  PROVE  LedgerInv'
  <1>1. /\ client[c].pc = "select" /\ DataQuiet /\ TreesQuiet /\ BoundsKept /\ UNCHANGED <<used, gone>>
        /\ UNCHANGED kept
    BY FilesQuiet, BoundsSame DEF Select, ghosts, kept
  <1>2. CASE End(c)
    BY <1>1, <1>2, EndStep
  <1>3. Shape(client[c]) /\ client[c] \in Command /\ client \in [Client -> Command] /\ data \in onData
    BY DEF LedgerInv, TypeOK, PresentMayStay
  <1>4. CASE client[c].kind = "register" /\ Goto(c, "register") /\ UNCHANGED locks
    <2>1. "register" \in Pc
      BY DEF Pc
    <2>2. /\ "register" \notin Writing /\ "register" \notin Serial /\ "register" \notin Registering
          /\ client[c].pc \notin Writing /\ client[c].pc \notin Serial /\ client[c].pc \notin Registering
      BY <1>1 DEF Writing, Serial, Registering, Removing, Finishing, Restoring
    <2>3. ASSUME NEW k \in Command,
                 k.pc = "register", k.kind = client[c].kind, k.alias = client[c].alias, k.to = client[c].to,
                 k.id = client[c].id, k.proof = client[c].proof, k.snap = client[c].snap
          PROVE  InStep(c, k)
      <3>1. Shape(k)
        BY <1>1, <1>3, <1>4, <2>3 DEF Shape, Writing, Serial, Registering, Working, Removing, Finishing, Restoring, Recovering
      <3>2. Held(c, k)' /\ Settling(k)'
        BY <2>3 DEF Held, Settling, Working, Removing, Restoring
      <3>3. Wrote(k)'
        BY <2>3 DEF Wrote, Finishing, Restoring
      <3> QED BY <3>1, <3>2, <3>3 DEF InStep
    <2> QED BY <1>1, <1>4, <2>1, <2>2, <2>3, GotoStep
  <1>5. CASE ~End(c) /\ client[c].kind # "register"
    <2>1. PICK i \in Rows(data) :
            /\ client' = [client EXCEPT ![c].pc = "lease", ![c].id = i]
            /\ UNCHANGED locks /\ client[c].kind \in {"rename", "remove", "reauth"}
      BY <1>5 DEF Select
    <2>2. i \in Id /\ data.doc[i] # None
      BY <2>1 DEF Rows
    <2>3. PICK k : k = [client[c] EXCEPT !.pc = "lease", !.id = i] /\ client' = [client EXCEPT ![c] = k]
      BY <1>3, <2>1
    <2>4. /\ k \in Command /\ k.pc = "lease" /\ k.proof = client[c].proof /\ k.snap = client[c].snap
          /\ k.id = i /\ k.kind = client[c].kind /\ k.alias = client[c].alias /\ k.to = client[c].to
      BY <1>3, <2>2, <2>3, ZenonT(60) DEF Command, Option, Pc
    <2>5. Becomes(c, k)
      BY <1>3, <2>2, <2>3, <2>4 DEF Becomes, CommandAvoids, Unnamed
    <2>6. /\ k.pc \notin Writing /\ k.pc \notin Serial /\ k.pc \notin Registering
          /\ client[c].pc \notin Writing /\ client[c].pc \notin Serial
      BY <1>1, <2>4 DEF Writing, Serial, Registering, Removing, Finishing, Restoring
    <2>7. LeasesMove(c) /\ LocksMove
      BY <2>1, <2>4, <2>5, <2>6, LeasesSame, LocksSame DEF locks
    <2>8. InStep(c, k)
      <3>1. Shape(k)
        BY <1>1, <1>3, <2>1, <2>2, <2>4 DEF Shape, Writing, Serial, Registering, Working, Removing, Finishing, Restoring, Recovering
      <3>2. Held(c, k)' /\ Settling(k)'
        BY <2>4 DEF Held, Settling, Working, Removing, Restoring
      <3>3. Wrote(k)'
        BY <2>4 DEF Wrote, Finishing, Restoring
      <3> QED BY <3>1, <3>2, <3>3 DEF InStep
    <2> QED BY <1>1, <2>4, <2>5, <2>6, <2>7, <2>8, QuietStep
  <1> QED BY <1>2, <1>4, <1>5 DEF Select

LEMMA LeaseLedger ==
  ASSUME LedgerInv, HistoryTypeOK', NEW c \in Client, Lease(c)
  PROVE  LedgerInv'
  <1>1. /\ client[c].pc = "lease" /\ DataQuiet /\ TreesQuiet /\ BoundsKept /\ UNCHANGED <<used, gone>>
    BY FilesQuiet, BoundsSame DEF Lease, ghosts, kept
  <1>2. CASE End(c)
    BY <1>1, <1>2, EndStep
  <1>3. CASE ~End(c)
    <2>1. Shape(client[c]) /\ TypeOK
      BY DEF LedgerInv
    <2>2. PICK i \in Id : i = client[c].id
      BY <1>1, <2>1 DEF Shape
    <2>3. client[c].kind \in {"rename", "remove", "reauth"}
      BY <1>1, <2>1 DEF Shape
    <2>4. /\ trees.at[i] = "live" /\ lease[i] = None /\ lease' = [lease EXCEPT ![i] = c]
          /\ UNCHANGED <<removalLock, registryLock>>
      BY <1>3, <2>2 DEF Lease
    <2>5. PICK pc \in {"rename", "remove_locks", "reauth"} :
            /\ Goto(c, pc)
            /\ pc = "rename" => client[c].kind = "rename"
      <3>1. CASE client[c].kind = "rename"
        BY <1>3, <3>1 DEF Lease
      <3>2. CASE client[c].kind = "remove"
        BY <1>3, <3>2 DEF Lease
      <3>3. CASE client[c].kind = "reauth"
        BY <1>3, <3>3 DEF Lease
      <3> QED BY <2>3, <3>1, <3>2, <3>3
    <2>6. pc \in Pc /\ pc \in Working
      BY <2>5 DEF Pc, Working
    <2>7. PICK k \in Command :
           /\ Becomes(c, k)
           /\ k.pc = pc /\ k.kind = client[c].kind /\ k.alias = client[c].alias /\ k.to = client[c].to
           /\ k.id = client[c].id /\ k.proof = client[c].proof /\ k.snap = client[c].snap
      BY <2>5, <2>6, GotoBecomes
    <2>8. /\ k.pc \notin Writing /\ k.pc \notin Serial /\ k.pc \notin Registering
          /\ client[c].pc \notin Writing /\ client[c].pc \notin Serial
      BY <1>1, <2>5, <2>7 DEF Writing, Serial, Registering, Removing, Finishing, Restoring
    <2>9. LocksMove
      BY <2>4, <2>7, <2>8, LocksSame
    <2>10. LeasesMove(c)
      BY <2>1, <2>2, <2>4 DEF LeasesMove, TypeOK, Option, CommandAvoids
    <2>11. InStep(c, k)
      <3>1. Shape(k)
        BY <1>1, <2>1, <2>3, <2>5, <2>7 DEF Shape, Writing, Serial, Registering, Working, Removing, Finishing, Restoring, Recovering
      <3>2. Held(c, k)' /\ Settling(k)'
        BY <1>1, <2>1, <2>2, <2>4, <2>5, <2>7 DEF Held, Settling, Working, Removing, Restoring, TypeOK, TreesQuiet
      <3>3. Wrote(k)'
        BY <2>5, <2>7 DEF Wrote, Finishing, Restoring
      <3> QED BY <3>1, <3>2, <3>3 DEF InStep
    <2> QED BY <1>1, <2>7, <2>8, <2>9, <2>10, <2>11, QuietStep
  <1> QED BY <1>2, <1>3

(* A reauthentication changes only its staging home. *)
LEMMA BeginReauthLedger ==
  ASSUME LedgerInv, HistoryTypeOK', NEW c \in Client, BeginReauth(c)
  PROVE  LedgerInv'
  <1>1. /\ client[c].pc = "reauth" /\ DataQuiet /\ SameData /\ BoundsKept /\ UNCHANGED <<used, gone>>
        /\ UNCHANGED kept
    BY FilesQuiet, BoundsSame DEF BeginReauth, ghosts, kept
  <1>2. CASE End(c) /\ SameTrees
    BY <1>1, <1>2, FilesQuiet, EndStep
  <1>3. CASE ~(End(c) /\ SameTrees)
    <2>1. Shape(client[c]) /\ Held(c, client[c]) /\ TypeOK /\ trees \in Trees /\ trees \in onTrees
      BY DEF LedgerInv, TypeOK, PresentMayStay
    <2>2. PICK i \in Id : i = client[c].id
      BY <1>1, <2>1 DEF Shape, Working
    <2>3. /\ data.doc[i] = client[c].alias /\ Goto(c, "login") /\ UNCHANGED locks
          /\ trees' = [trees EXCEPT !.reauth = @ \cup {i}] /\ onTrees' = {trees'}
      BY <1>3, <2>2 DEF BeginReauth, ChangeAndSyncTrees
    <2>4. TreesQuiet
      <3>1. trees' \in Trees /\ trees'.at = trees.at
        BY <2>1, <2>3 DEF Trees
      <3> QED BY <2>1, <2>3, <3>1 DEF TreesQuiet
    <2>5. data.doc[i] # None
      BY <1>1, <2>1, <2>3 DEF Shape
    <2>6. /\ "login" \in Pc /\ "login" \notin Writing /\ "login" \notin Serial /\ "login" \notin Registering
          /\ client[c].pc \notin Writing /\ client[c].pc \notin Serial /\ client[c].pc \notin Registering
      BY <1>1 DEF Pc, Writing, Serial, Registering, Removing, Finishing, Restoring
    <2>7. ASSUME NEW k \in Command,
                 k.pc = "login", k.kind = client[c].kind, k.alias = client[c].alias, k.to = client[c].to,
                 k.id = client[c].id, k.proof = client[c].proof, k.snap = client[c].snap
          PROVE  InStep(c, k)
      <3>1. Shape(k)
        BY <1>1, <2>1, <2>7 DEF Shape, Writing, Serial, Registering, Working, Removing, Finishing, Restoring, Recovering
      <3>2. Held(c, k)' /\ Settling(k)'
        BY <1>1, <2>1, <2>2, <2>3, <2>4, <2>5, <2>7 DEF Held, Settling, Working, Removing, Restoring, locks, SameData, TreesQuiet
      <3>3. Wrote(k)'
        BY <2>7 DEF Wrote, Finishing, Restoring
      <3> QED BY <3>1, <3>2, <3>3 DEF InStep
    <2> QED BY <1>1, <2>3, <2>4, <2>6, <2>7, GotoStep
  <1> QED BY <1>2, <1>3

LEMMA EndReauthLedger ==
  ASSUME LedgerInv, HistoryTypeOK', NEW c \in Client, EndReauth(c)
  PROVE  LedgerInv'
  <1>1. /\ client[c].pc = "login" /\ DataQuiet /\ BoundsKept /\ UNCHANGED <<used, gone>> /\ End(c)
    BY FilesQuiet, BoundsSame DEF EndReauth, ghosts, kept
  <1>2. client[c].id \in Id /\ trees \in Trees /\ trees \in onTrees /\ onTrees \subseteq Trees
    BY <1>1 DEF LedgerInv, TypeOK, PresentMayStay, Shape, Working
  <1>3. TreesQuiet
    <2>1. trees' = [trees EXCEPT !.reauth = @ \ {client[c].id}] /\ onTrees' = onTrees \cup {trees'}
      BY DEF EndReauth, ChangeTrees
    <2>2. trees' \in Trees /\ trees'.at = trees.at
      BY <1>2, <2>1 DEF Trees
    <2> QED BY <1>2, <2>1, <2>2 DEF TreesQuiet
  <1> QED BY <1>1, <1>3, EndStep

LEMMA RemoveLockLedger ==
  ASSUME LedgerInv, HistoryTypeOK', NEW c \in Client, RemoveLock(c)
  PROVE  LedgerInv'
  <1>1. /\ client[c].pc = "remove_locks" /\ DataQuiet /\ TreesQuiet /\ BoundsKept /\ UNCHANGED <<used, gone>>
        /\ removalLock = None /\ removalLock' = c /\ UNCHANGED <<lease, registryLock>>
    BY FilesQuiet, BoundsSame DEF RemoveLock, ghosts, kept
  <1>2. Shape(client[c]) /\ Held(c, client[c])
    BY DEF LedgerInv
  <1>3. Goto(c, "remove_registry") /\ "remove_registry" \in Pc
    BY DEF RemoveLock, Pc
  <1>4. PICK k \in Command :
           /\ Becomes(c, k)
           /\ k.pc = "remove_registry" /\ k.kind = client[c].kind /\ k.alias = client[c].alias /\ k.to = client[c].to
           /\ k.id = client[c].id /\ k.proof = client[c].proof /\ k.snap = client[c].snap
    BY <1>3, GotoBecomes
  <1>5. /\ k.pc \notin Writing /\ k.pc \in Serial /\ k.pc \notin Registering
        /\ client[c].pc \notin Writing /\ client[c].pc \notin Serial
    BY <1>1, <1>4 DEF Writing, Serial, Registering, Removing, Finishing, Restoring
  <1>6. LeasesMove(c) /\ LocksMove
    BY <1>1, <1>4, <1>5, LeasesSame, RemovalLocked
  <1>7. InStep(c, k)
    <2>1. Shape(k)
      BY <1>1, <1>2, <1>4 DEF Shape, Writing, Serial, Registering, Working, Removing, Finishing, Restoring, Recovering
    <2>2. Held(c, k)' /\ Settling(k)'
      BY <1>1, <1>2, <1>4 DEF Held, Settling, Working, Removing, Restoring, TreesQuiet
    <2>3. Wrote(k)'
      BY <1>4 DEF Wrote, Finishing, Restoring
    <2> QED BY <2>1, <2>2, <2>3 DEF InStep
  <1> QED BY <1>1, <1>4, <1>5, <1>6, <1>7, QuietStep

------------------------------------------------------------------------------
(* Rename, the barrier, and registration *)

LEMMA RenameLedger ==
  ASSUME LedgerInv, HistoryTypeOK', NEW c \in Client, Rename(c)
  PROVE  LedgerInv'
  <1>1. /\ client[c].pc = "rename" /\ registryLock = None /\ SameTrees /\ TreesQuiet /\ UNCHANGED kept
        /\ BoundsKept /\ UNCHANGED <<used, gone>>
    BY FilesQuiet, BoundsSame DEF Rename, ghosts, kept
  <1>2. CASE End(c) /\ SameData
    BY <1>1, <1>2, FilesQuiet, EndStep
  <1>3. CASE ~(End(c) /\ SameData)
    <2>1. /\ Shape(client[c]) /\ Held(c, client[c]) /\ TypeOK /\ data \in Data /\ Distinct(data)
          /\ client[c] \in Command
      BY DEF LedgerInv, TypeOK, PresentMayStay
    <2>2. PICK i \in Id : i = client[c].id
      BY <1>1, <2>1 DEF Shape, Working
    <2>3. PICK to \in Alias : to = client[c].to /\ to # None
      BY <1>1, <2>1, ProfilesAssumption DEF Shape, Command, Option
    <2>4. /\ data.doc[i] = client[c].alias /\ data.doc[i] # None
          /\ \A x \in Id \ {i} : data.doc[x] # to
          /\ registryLock' = c /\ lease' = lease /\ removalLock' = removalLock
          /\ ChangeData([data EXCEPT !.doc[i] = to]) /\ Goto(c, "save_sync")
      BY <1>1, <1>3, <2>1, <2>2, <2>3 DEF Rename, Shape
    <2>5. PICK d \in Data : ChangeData(d) /\ d = Dir([data.doc EXCEPT ![i] = to], data.barrier, data.sidecar, data.tmp)
      <3>1. [data EXCEPT !.doc[i] = to] = Dir([data.doc EXCEPT ![i] = to], data.barrier, data.sidecar, data.tmp)
        BY <2>1, EditDoc
      <3>2. Dir([data.doc EXCEPT ![i] = to], data.barrier, data.sidecar, data.tmp) \in Data
        BY <2>1, DataIsDir, DirTyped DEF Option, Document
      <3> QED BY <2>4, <3>1, <3>2
    <2>6. d.doc = [data.doc EXCEPT ![i] = to] /\ d.barrier = data.barrier /\ d.sidecar = data.sidecar
      BY <2>5 DEF Dir
    <2>7. Distinct(d)
      BY <2>1, <2>4, <2>6, DataIsDir DEF Distinct, Document
    <2>8. Effective(d) = Effective(data)
      BY <2>6 DEF Effective
    <2>9. /\ \A x \in Id : d.doc[x] = None => data.doc[x] = None \/ lease[x] = c
          /\ \A x \in Id : data.doc[x] = None /\ ProofsAvoid(data, x) =>
                             (d.doc[x] = None /\ ProofsAvoid(d, x)) \/ x \in used \ gone
      BY <2>1, <2>3, <2>4, <2>6, DataIsDir DEF Document, ProofsAvoid
    <2>10. PICK k \in Command :
           /\ Becomes(c, k)
           /\ k.pc = "save_sync" /\ k.kind = client[c].kind /\ k.alias = client[c].alias /\ k.to = client[c].to
           /\ k.id = client[c].id /\ k.proof = client[c].proof /\ k.snap = client[c].snap
      <3>1. "save_sync" \in Pc
        BY DEF Pc
      <3> QED BY <2>4, <3>1, GotoBecomes
    <2>11. /\ k.pc \in Writing /\ k.pc \notin Serial /\ k.pc \notin Registering /\ client[c].pc \notin Serial
      BY <1>1, <2>10 DEF Writing, Serial, Registering, Removing, Finishing, Restoring
    <2>12. LocksMove
      BY <1>1, <2>4, <2>10, <2>11, RegistryLocked
    <2>13. InStep(c, k)
      <3>1. Shape(k)
        BY <1>1, <2>1, <2>10 DEF Shape, Writing, Serial, Registering, Working, Removing, Finishing, Restoring, Recovering
      <3>2. Held(c, k)' /\ Settling(k)'
        BY <2>10 DEF Held, Settling, Working, Removing, Restoring
      <3>3. Wrote(k)'
        BY <2>10 DEF Wrote, Finishing, Restoring
      <3> QED BY <3>1, <3>2, <3>3 DEF InStep
    <2> QED BY <1>1, <2>4, <2>5, <2>7, <2>8, <2>9, <2>10, <2>11, <2>12, <2>13, DataStep
  <1> QED BY <1>2, <1>3

LEMMA RemoveBarrierLedger ==
  ASSUME LedgerInv, HistoryTypeOK', NEW c \in Client, RemoveBarrier(c)
  PROVE  LedgerInv'
  <1>1. /\ client[c].pc = "remove_registry" /\ registryLock = None /\ SameTrees /\ TreesQuiet /\ UNCHANGED kept
        /\ BoundsKept /\ UNCHANGED <<used, gone>>
    BY FilesQuiet, BoundsSame DEF RemoveBarrier, ghosts, kept
  <1>2. CASE End(c) /\ SameData
    BY <1>1, <1>2, FilesQuiet, EndStep
  <1>3. CASE ~(End(c) /\ SameData)
    <2>1. /\ Shape(client[c]) /\ Held(c, client[c]) /\ TypeOK /\ data \in Data /\ Distinct(data)
          /\ client[c] \in Command /\ client \in [Client -> Command] /\ removalLock = c
      BY <1>1 DEF LedgerInv, TypeOK, PresentMayStay, LocksInStep, Serial
    <2>2. PICK i \in Id : i = client[c].id
      BY <1>1, <2>1 DEF Shape, Working
    <2>3. PICK proof \in Proof : proof = [id |-> i, doc |-> data.doc] /\ proof.id = i /\ proof # None
      <3>1. data.doc \in Document
        BY <2>1, DataIsDir
      <3>2. [id |-> i, doc |-> data.doc] \in Proof
        BY <3>1 DEF Proof
      <3> QED BY <3>2, ProofNotNone
    <2>4. /\ data.doc[i] = client[c].alias /\ data.doc[i] # None
          /\ registryLock' = c /\ lease' = lease /\ removalLock' = removalLock
          /\ ChangeData([data EXCEPT !.barrier = proof])
          /\ client' = [client EXCEPT ![c].pc = "barrier_sync", ![c].proof = proof]
      BY <1>1, <1>3, <2>1, <2>2, <2>3 DEF RemoveBarrier, Shape
    <2>5. PICK d \in Data : ChangeData(d) /\ d = Dir(data.doc, proof, data.sidecar, data.tmp)
      <3>1. [data EXCEPT !.barrier = proof] = Dir(data.doc, proof, data.sidecar, data.tmp)
        BY <2>1, EditBarrier
      <3>2. Dir(data.doc, proof, data.sidecar, data.tmp) \in Data
        BY <2>1, DataIsDir, DirTyped DEF Option
      <3> QED BY <2>4, <3>1, <3>2
    <2>6. d.doc = data.doc /\ d.barrier = proof /\ d.sidecar = data.sidecar
      BY <2>5 DEF Dir
    <2>7. Distinct(d)
      BY <2>1, <2>6 DEF Distinct
    <2>9. /\ \A x \in Id : d.doc[x] = None => data.doc[x] = None \/ lease[x] = c
          /\ \A x \in Id : data.doc[x] = None /\ ProofsAvoid(data, x) =>
                             (d.doc[x] = None /\ ProofsAvoid(d, x)) \/ x \in used \ gone
      BY <2>3, <2>4, <2>6 DEF ProofsAvoid
    <2>10. PICK k : k = [client[c] EXCEPT !.pc = "barrier_sync", !.proof = proof] /\ client' = [client EXCEPT ![c] = k]
      BY <2>1, <2>4
    <2>11. /\ k \in Command /\ k.pc = "barrier_sync" /\ k.proof = proof /\ k.id = i /\ k.snap = client[c].snap
           /\ k.kind = client[c].kind /\ k.alias = client[c].alias /\ k.to = client[c].to
      BY <2>1, <2>2, <2>10, ZenonT(60) DEF Command, Pc, Option
    <2>12. Becomes(c, k)
      BY <2>2, <2>3, <2>10, <2>11 DEF Becomes, CommandAvoids
    <2>13. /\ k.pc \in Writing /\ k.pc \in Serial /\ k.pc \notin Registering /\ client[c].pc \in Serial
      BY <1>1, <2>11 DEF Writing, Serial, Registering, Removing
    <2>14. LocksMove
      BY <1>1, <2>4, <2>11, <2>12, <2>13, RegistryLocked
    <2>15. data' = d /\ trees' = trees
      BY <1>1, <2>5 DEF ChangeData, SameTrees
    <2>16. InStep(c, k)
      <3>1. Shape(k)
        BY <1>1, <2>1, <2>3, <2>11 DEF Shape, Writing, Serial, Registering, Working, Removing, Finishing, Restoring, Recovering
      <3>2. Held(c, k)' /\ Settling(k)'
        BY <1>1, <2>1, <2>2, <2>4, <2>11 DEF Held, Settling, Working, Removing, Restoring
      <3>3. Wrote(k)'
        BY <1>1, <2>1, <2>2, <2>6, <2>11, <2>15 DEF Wrote, Held, Working, Finishing, Restoring
      <3> QED BY <3>1, <3>2, <3>3 DEF InStep
    <2> QED BY <1>1, <2>1, <2>4, <2>5, <2>7, <2>9, <2>11, <2>12, <2>13, <2>14, <2>16, DataStep
  <1> QED BY <1>2, <1>3

LEMMA RegisterLedger ==
  ASSUME LedgerInv, HistoryTypeOK', NEW c \in Client, Register(c)
  PROVE  LedgerInv'
  <1>1. /\ client[c].pc = "register" /\ registryLock = None /\ SameData /\ DataQuiet
        /\ BoundsKept /\ gone' = gone
    BY FilesQuiet, BoundsSame DEF Register
  <1>2. CASE End(c) /\ SameTrees /\ used' = used
    BY <1>1, <1>2, FilesQuiet, EndStep
  <1>3. CASE ~(End(c) /\ SameTrees /\ used' = used)
    <2>1. /\ Shape(client[c]) /\ TypeOK /\ trees \in Trees /\ UnusedIsFresh
          /\ client[c] \in Command /\ client \in [Client -> Command]
      BY DEF LedgerInv, TypeOK
    <2>2. PICK j \in Id \ used :
             /\ used' = used \cup {j} /\ MoveTree(j, "staging")
             /\ client' = [client EXCEPT ![c].pc = "register_login", ![c].id = j]
             /\ registryLock' = c /\ lease' = lease /\ removalLock' = removalLock
      BY <1>3 DEF Register
    <2>3. PICK k : k = [client[c] EXCEPT !.pc = "register_login", !.id = j] /\ client' = [client EXCEPT ![c] = k]
      BY <2>1, <2>2
    <2>4. /\ k \in Command /\ k.pc = "register_login" /\ k.proof = client[c].proof /\ k.snap = client[c].snap
          /\ k.id = j /\ k.kind = client[c].kind /\ k.alias = client[c].alias /\ k.to = client[c].to
      BY <2>1, <2>2, <2>3 DEF Command, Option, Pc
    <2>5. /\ Unnamed(j) /\ lease[j] = None /\ j \notin gone
          /\ \A o \in Client : CommandAvoids(client[o], j)
      BY <2>1, <2>2 DEF UnusedIsFresh, TypeOK
    <2>6. \A i \in Id \ {j} : Unnamed(i) /\ CommandAvoids(client[c], i) => CommandAvoids(k, i)
      BY <2>4 DEF CommandAvoids
    <2>7. /\ k.pc \in Writing /\ k.pc \notin Serial /\ k.pc \in Registering /\ client[c].pc \notin Serial
      BY <1>1, <2>4 DEF Writing, Serial, Registering, Removing, Finishing, Restoring
    <2>8. LocksMove
      <3>1. /\ client'[c] = k /\ \A o \in Client : o # c => client'[o] = client[o]
        BY <2>1, <2>3
      <3> QED BY <1>1, <2>2, <2>7, <3>1, ProfilesAssumption DEF LedgerInv, TypeOK, LocksInStep, LocksMove, Option
    <2>9. LeasesMove(c)
      BY <2>2, LeasesSame
    <2>10. InStep(c, k)
      <3>1. Shape(k)
        BY <1>1, <2>1, <2>2, <2>4 DEF Shape, Writing, Serial, Registering, Working, Removing, Finishing, Restoring, Recovering
      <3>2. Held(c, k)' /\ Settling(k)'
        BY <2>4 DEF Held, Settling, Working, Removing, Restoring
      <3>3. Wrote(k)'
        BY <2>4 DEF Wrote, Finishing, Restoring
      <3> QED BY <3>1, <3>2, <3>3 DEF InStep
    <2>11. "staging" \in Place
      BY DEF Place
    <2>12. PICK p \in Trees : ChangeTrees(p) /\ p.at = [trees.at EXCEPT ![j] = "staging"]
      BY <2>1, <2>2, <2>11, EditTree, ZenonT(60) DEF MoveTree
    <2> QED BY <1>1, <2>2, <2>3, <2>4, <2>5, <2>6, <2>7, <2>8, <2>9, <2>10, <2>11, <2>12, TreeStep
  <1> QED BY <1>2, <1>3

LEMMA RegisterMoveLedger ==
  ASSUME LedgerInv, HistoryTypeOK', NEW c \in Client, RegisterMove(c)
  PROVE  LedgerInv'
  <1>1. /\ client[c].pc = "register_move" /\ Goto(c, "register_sync") /\ UNCHANGED <<locks, kept>> /\ SameData
        /\ MoveTree(client[c].id, "live")
    BY DEF RegisterMove, ghosts, kept
  <1>2. "register_sync" \in Pc /\ "live" \in Place
    BY DEF Pc, Place
  <1>3. /\ "register_sync" \in Writing /\ client[c].pc \in Writing
        /\ "register_sync" \notin Serial /\ client[c].pc \notin Serial
        /\ "register_sync" \in Registering /\ client[c].pc \in Registering
    BY <1>1 DEF Writing, Serial, Registering, Removing, Finishing, Restoring
  <1>4. Shape(client[c]) /\ RegistersAlone
    BY DEF LedgerInv
  <1>5. PICK j \in Id : j = client[c].id /\ j \in used \ gone
    BY <1>3, <1>4 DEF Shape, RegistersAlone
  <1>6. ASSUME NEW k \in Command,
               k.pc = "register_sync", k.kind = client[c].kind, k.alias = client[c].alias, k.to = client[c].to,
               k.id = client[c].id, k.proof = client[c].proof, k.snap = client[c].snap
        PROVE  InStep(c, k)
    <2>1. Shape(k)
      BY <1>1, <1>4, <1>6 DEF Shape, Writing, Serial, Registering, Working, Removing, Finishing, Restoring, Recovering
    <2>2. Held(c, k)' /\ Settling(k)'
      BY <1>6 DEF Held, Settling, Working, Removing, Restoring
    <2>3. Wrote(k)'
      BY <1>6 DEF Wrote, Finishing, Restoring
    <2> QED BY <2>1, <2>2, <2>3 DEF InStep
  <1> QED BY <1>1, <1>2, <1>3, <1>5, <1>6, GotoTree

LEMMA RegisterPublishLedger ==
  ASSUME LedgerInv, HistoryTypeOK', NEW c \in Client, RegisterPublish(c)
  PROVE  LedgerInv'
  <1>1. /\ client[c].pc = "register_publish" /\ Goto(c, "save_sync") /\ UNCHANGED <<locks, kept>> /\ SameTrees
        /\ ChangeData([data EXCEPT !.doc[client[c].id] = client[c].alias])
        /\ \A x \in Id : data.doc[x] # client[c].alias
    BY DEF RegisterPublish, ghosts, kept
  <1>2. "save_sync" \in Pc
    BY DEF Pc
  <1>3. /\ "save_sync" \in Writing /\ client[c].pc \in Writing /\ "save_sync" \notin Registering
        /\ "save_sync" \notin Serial /\ client[c].pc \notin Serial /\ client[c].pc \in Registering
    BY <1>1 DEF Writing, Serial, Registering, Removing, Finishing, Restoring
  <1>4. /\ Shape(client[c]) /\ RegistersAlone /\ data \in Data /\ Distinct(data) /\ client[c] \in Command
    BY DEF LedgerInv, TypeOK, PresentMayStay
  <1>5. PICK j \in Id : j = client[c].id /\ j \in used \ gone
    BY <1>3, <1>4 DEF Shape, RegistersAlone
  <1>6. PICK a \in Alias : a = client[c].alias /\ a # None
    BY <1>1, <1>4, ProfilesAssumption DEF Shape, Command, Option, Registering
  <1>7. PICK d \in Data : ChangeData(d) /\ d = Dir([data.doc EXCEPT ![j] = a], data.barrier, data.sidecar, data.tmp)
    <2>1. [data EXCEPT !.doc[j] = a] = Dir([data.doc EXCEPT ![j] = a], data.barrier, data.sidecar, data.tmp)
      BY <1>4, EditDoc
    <2>2. Dir([data.doc EXCEPT ![j] = a], data.barrier, data.sidecar, data.tmp) \in Data
      BY <1>4, DataIsDir, DirTyped DEF Option, Document
    <2>3. ChangeData([data EXCEPT !.doc[j] = a])
      BY <1>1, <1>5, <1>6
    <2> QED BY <2>1, <2>2, <2>3
  <1>8. d.doc = [data.doc EXCEPT ![j] = a] /\ d.barrier = data.barrier /\ d.sidecar = data.sidecar
    BY <1>7 DEF Dir
  <1>9. Distinct(d)
    BY <1>1, <1>4, <1>6, <1>8, DataIsDir DEF Distinct, Document
  <1>10. Effective(d) = Effective(data)
    BY <1>8 DEF Effective
  <1>11. /\ \A x \in Id : d.doc[x] = None => data.doc[x] = None \/ lease[x] = c
         /\ \A x \in Id : data.doc[x] = None /\ ProofsAvoid(data, x) =>
                            (d.doc[x] = None /\ ProofsAvoid(d, x)) \/ x \in used \ gone
    BY <1>4, <1>5, <1>6, <1>8, DataIsDir DEF Document, ProofsAvoid
  <1>12. ASSUME NEW k \in Command,
               k.pc = "save_sync", k.kind = client[c].kind, k.alias = client[c].alias, k.to = client[c].to,
               k.id = client[c].id, k.proof = client[c].proof, k.snap = client[c].snap
        PROVE  InStep(c, k)
    <2>1. Shape(k)
      BY <1>1, <1>4, <1>12 DEF Shape, Writing, Serial, Registering, Working, Removing, Finishing, Restoring, Recovering
    <2>2. Held(c, k)' /\ Settling(k)'
      BY <1>12 DEF Held, Settling, Working, Removing, Restoring
    <2>3. Wrote(k)'
      BY <1>12 DEF Wrote, Finishing, Restoring
    <2> QED BY <2>1, <2>2, <2>3 DEF InStep
  <1> QED BY <1>1, <1>2, <1>3, <1>7, <1>9, <1>10, <1>11, <1>12, GotoData

LEMMA RegisterAbortLedger ==
  ASSUME LedgerInv, HistoryTypeOK', NEW c \in Client, RegisterAbort(c)
  PROVE  LedgerInv'
  <1>1. /\ client[c].pc \in Registering /\ End(c) /\ SameData /\ BoundsKept /\ UNCHANGED <<used, gone>>
        /\ MoveTree(client[c].id, "none") /\ "none" \in Place
    BY BoundsSame DEF RegisterAbort, Registering, ghosts, kept, Place
  <1>2. Shape(client[c]) /\ RegistersAlone /\ trees \in Trees /\ registryLock = c
    BY <1>1 DEF LedgerInv, TypeOK, LocksInStep, Writing
  <1>3. PICK j \in Id : j = client[c].id /\ j \in used \ gone /\ lease[j] = None
    BY <1>1, <1>2 DEF Shape, RegistersAlone
  <1>4. PICK p \in Trees : ChangeTrees(p) /\ p.at = [trees.at EXCEPT ![j] = "none"]
    <2>1. ChangeTrees([trees EXCEPT !.at[j] = "none"])
      BY <1>1, <1>3 DEF MoveTree
    <2>2. /\ [trees EXCEPT !.at[j] = "none"] \in Trees
          /\ [trees EXCEPT !.at[j] = "none"].at = [trees.at EXCEPT ![j] = "none"]
      BY <1>1, <1>2, EditTree
    <2> QED BY <2>1, <2>2
  <1>5. Becomes(c, Idle) /\ Unlock(c) /\ Idle \in Command
    BY <1>1, IdleTyped, EndBecomes DEF End
  <1>6. InStep(c, Idle) /\ Idle.pc \notin Writing /\ Idle.pc \notin Serial /\ Idle.pc \notin Registering
    BY IdleTyped, FreeInStep DEF Free
  <1>7. LeasesMove(c) /\ LocksMove
    BY <1>5, <1>6, Unlocks
  <1>8. client' = [client EXCEPT ![c] = Idle] /\ \A i \in Id \ {j} : Unnamed(i) /\ CommandAvoids(client[c], i) => CommandAvoids(Idle, i)
    BY <1>5 DEF Becomes
  <1> QED BY <1>1, <1>2, <1>3, <1>4, <1>5, <1>6, <1>7, <1>8, TreeStep

------------------------------------------------------------------------------
(* The invariant under all faults *)

LEMMA PowerLossLedger ==
  ASSUME LedgerInv, HistoryTypeOK', PowerLoss
  PROVE  LedgerInv'
  <1>1. TypeOK /\ UnusedIsFresh /\ GoneIsUnnamed /\ \A d \in onData : Distinct(d)
    BY DEF LedgerInv
  <1>2. /\ data' \in onData /\ onData' = {data'} /\ trees' \in onTrees /\ onTrees' = {trees'}
        /\ lease' = [i \in Id |-> None] /\ removalLock' = None /\ registryLock' = None
        /\ client' = [c \in Client |-> Idle] /\ used' = used /\ gone' = gone
    BY DEF PowerLoss
  <1>3. TypeOK'
    BY <1>1, <1>2, IdleTyped DEF TypeOK, PowerLoss, Option
  <1>4. PresentMayStay' /\ (\A d \in onData : Distinct(d))'
    BY <1>1, <1>2 DEF PresentMayStay, Distinct
  <1>5. /\ Idle.pc \notin Writing /\ Idle.pc \notin Serial /\ Idle.pc \notin Registering
        /\ \A c \in Client : client'[c] = Idle
    BY <1>2, IdleTyped DEF Writing, Serial, Registering, Removing, Finishing, Restoring
  <1>6. LocksInStep'
    BY <1>2, <1>5, ProfilesAssumption DEF LocksInStep
  <1>7. ASSUME NEW c \in Client
        PROVE  (Shape(client[c]) /\ Held(c, client[c]) /\ Wrote(client[c]) /\ Settling(client[c]))'
    <2>1. InStep(c, Idle)
      BY IdleTyped, FreeInStep DEF Free
    <2> QED BY <1>5, <2>1 DEF InStep, Shape
  <1>8. \A i \in Id : Unnamed(i) => Unnamed(i)'
    BY <1>2 DEF Unnamed, ProofsAvoid
  <1>9. UnusedIsFresh'
    <2>1. \A i \in Id : CommandAvoids(Idle, i)
      BY IdleTyped, ProfilesAssumption DEF CommandAvoids
    <2> SUFFICES ASSUME NEW i \in Id, i \notin used
                 PROVE  /\ Unnamed(i)' /\ lease'[i] = None
                        /\ \A q \in onTrees' : q.at[i] = "none"
                        /\ \A o \in Client : CommandAvoids(client'[o], i)
      BY <1>2 DEF UnusedIsFresh, CommandAvoids
    <2> QED BY <1>1, <1>2, <1>5, <1>8, <2>1 DEF UnusedIsFresh
  <1>10. RegistersAlone'
    BY <1>5 DEF RegistersAlone
  <1>11. GoneIsUnnamed'
    BY <1>1, <1>2, <1>8 DEF GoneIsUnnamed, TypeOK
  <1> QED BY <1>3, <1>4, <1>6, <1>7, <1>9, <1>10, <1>11 DEF LedgerInv

LEMMA InitLedger == Init => LedgerInv
  <1> SUFFICES ASSUME Init PROVE LedgerInv
    OBVIOUS
  <1>1. /\ data.doc = [i \in Id |-> IF i \in DOMAIN Registered THEN Registered[i] ELSE None]
        /\ data.barrier = None /\ data.sidecar = None /\ data \in Data
    BY ProfilesAssumption DEF Init, Data, Document, Option
  <1>2. /\ trees.at = [i \in Id |-> IF i \in DOMAIN Registered THEN "live" ELSE "none"] /\ trees \in Trees
    BY DEF Init, Trees, Place
  <1>h. HistoryTypeOK
    BY DEF Init, HistoryTypeOK
  <1>3. TypeOK /\ PresentMayStay
    BY <1>1, <1>2, <1>h, IdleTyped, ProfilesAssumption DEF Init, TypeOK, PresentMayStay, Option
  <1>4. \A d \in onData : Distinct(d)
    BY <1>1, ProfilesAssumption DEF Init, Distinct
  <1>5. /\ Idle.pc \notin Writing /\ Idle.pc \notin Serial /\ Idle.pc \notin Registering
        /\ \A c \in Client : client[c] = Idle
    BY IdleTyped DEF Init, Writing, Serial, Registering, Removing, Finishing, Restoring
  <1>6. LocksInStep
    BY <1>5, ProfilesAssumption DEF LocksInStep, Init
  <1>7. /\ Shape(Idle) /\ Settling(Idle) /\ Wrote(Idle) /\ \A c \in Client : Held(c, Idle)
    BY IdleTyped DEF Shape, Settling, Wrote, Held, Writing, Serial, Registering, Working, Removing, Finishing, Restoring, Recovering
  <1>8. UnusedIsFresh
    BY <1>1, <1>2, <1>5, IdleTyped, ProfilesAssumption DEF UnusedIsFresh, Unnamed, ProofsAvoid, CommandAvoids, Init
  <1>9. RegistersAlone /\ GoneIsUnnamed
    BY <1>5 DEF RegistersAlone, GoneIsUnnamed, Init
  <1> QED BY <1>3, <1>4, <1>5, <1>6, <1>7, <1>8, <1>9 DEF LedgerInv

(* Somebody writes into a tree, or nothing happens. *)
LEMMA StutterLedger ==
  ASSUME LedgerInv, HistoryTypeOK', WriteTree \/ UNCHANGED vars
  PROVE  LedgerInv'
  <1>1. /\ UNCHANGED <<data, onData, trees, onTrees, lease, removalLock, registryLock, client, used, gone>>
        /\ UNCHANGED <<commands, kills, powerLosses>>
    BY DEF vars, locks, counters, WriteTree, SameData, SameTrees
  <1>2. TypeOK' /\ PresentMayStay' /\ LocksInStep' /\ (\A d \in onData : Distinct(d))'
    BY <1>1 DEF LedgerInv, TypeOK, PresentMayStay, LocksInStep, Distinct
  <1>3. (\A c \in Client : Shape(client[c]) /\ Held(c, client[c]))'
    BY <1>1 DEF LedgerInv, Shape, Held
  <1>4. (\A c \in Client : Wrote(client[c]) /\ Settling(client[c]))'
    BY <1>1 DEF LedgerInv, Wrote, Settling
  <1>5. UnusedIsFresh' /\ RegistersAlone' /\ GoneIsUnnamed'
    BY <1>1 DEF LedgerInv, UnusedIsFresh, RegistersAlone, GoneIsUnnamed, Unnamed, ProofsAvoid, CommandAvoids
  <1> QED BY <1>2, <1>3, <1>4, <1>5 DEF LedgerInv

LEMMA StepLedger ==
  ASSUME LedgerInv, HistoryTypeOK', NEW c \in Client, Step(c)
  PROVE  LedgerInv'
  <1>1. CASE RecoverRemoval(c)
    BY <1>1, PreflightLedger, QuiesceLedger, LockTreeLedger, RelockLedger, SettleLedger,
       SyncRestoredLedger, RollbackSidecarLedger, SyncRollbackSidecarLedger, RollbackPublishLedger,
       SyncRollbackLedger DEF RecoverRemoval
  <1>2. CASE RecoverReauth(c)
    BY <1>2, ReauthScanLedger, ReauthCleanLedger, SelectLedger, LeaseLedger DEF RecoverReauth
  <1>3. CASE Remove(c)
    BY <1>3, RemoveLockLedger, RemoveBarrierLedger, SyncBarrierLedger, WriteSidecarLedger,
       PublishSidecarLedger, SyncSidecarLedger, EntombLedger, SyncTombLedger, PublishRemovalLedger,
       SyncRemovalLedger, UnlinkLedger, UnlinkedLedger, SyncUnlinkedLedger, DropSidecarLedger,
       SyncDroppedLedger, TreeChangedLedger DEF Remove
  <1>4. CASE Registration(c)
    BY <1>4, RegisterLedger, RegisterLoginLedger, RegisterMoveLedger, RegisterSyncLedger,
       RegisterPublishLedger, RegisterAbortLedger DEF Registration
  <1> QED BY <1>1, <1>2, <1>3, <1>4, RenameLedger, SaveSyncLedger, BeginReauthLedger, EndReauthLedger DEF Step

(* What a power loss may leave though it was passed over is among what it   *)
(* may leave.                                                               *)
LEMMA DirectoriesHistory ==
  ASSUME TypeOK
  PROVE  /\ SameData \/ SyncData \/ (\E d : ChangeData(d)) => passedData' \subseteq onData'
         /\ SameTrees \/ SyncTrees \/ (\E p : ChangeTrees(p)) \/ (\E p : ChangeAndSyncTrees(p)) =>
              passedTrees' \subseteq onTrees'
  BY DEF TypeOK, HistoryTypeOK, SameData, SyncData, ChangeData, SameTrees, SyncTrees, ChangeTrees, ChangeAndSyncTrees

LEMMA StepHistory ==
  ASSUME TypeOK, NEW c \in Client, Step(c)
  PROVE  HistoryTypeOK'
  <1>1. CASE Settle(c)
    BY <1>1 DEF Settle, TypeOK, HistoryTypeOK, ghosts, SameData, SameTrees, MoveTree, ChangeTrees
  <1>2. CASE ~Settle(c)
    <2>1. changed' \in BOOLEAN /\ undone' \in BOOLEAN
      <3>1. CASE RecoverRemoval(c)
        BY <1>2, <3>1 DEF TypeOK, HistoryTypeOK, RecoverRemoval, Preflight, Quiesce, LockTree, Relock,
           SyncRestored, RollbackSidecar, SyncRollbackSidecar, RollbackPublish, SyncRollback, ghosts
      <3>2. CASE RecoverReauth(c) \/ Rename(c) \/ SaveSync(c) \/ BeginReauth(c) \/ EndReauth(c)
        BY <3>2 DEF TypeOK, HistoryTypeOK, RecoverReauth, ReauthScan, ReauthClean, Select, Lease,
           Rename, SaveSync, BeginReauth, EndReauth, ghosts
      <3>3. CASE Remove(c)
        BY <3>3 DEF TypeOK, HistoryTypeOK, Remove, RemoveLock, RemoveBarrier, SyncBarrier, WriteSidecar,
           PublishSidecar, SyncSidecar, Entomb, SyncTomb, PublishRemoval, SyncRemoval, Unlink, Unlinked,
           SyncUnlinked, DropSidecar, SyncDropped, TreeChanged, ghosts
      <3>4. CASE Registration(c)
        BY <3>4 DEF TypeOK, HistoryTypeOK, Registration, Register, RegisterLogin, RegisterMove, RegisterSync,
           RegisterPublish, RegisterAbort, ghosts
      <3> QED BY <3>1, <3>2, <3>3, <3>4 DEF Step
    <2>2. passedData' \subseteq onData'
      <3>1. SameData \/ SyncData \/ \E d : ChangeData(d)
        <4>1. CASE RecoverRemoval(c)
          BY <1>2, <4>1 DEF RecoverRemoval, Preflight, Quiesce, LockTree, Relock,
             SyncRestored, RollbackSidecar, SyncRollbackSidecar, RollbackPublish, SyncRollback
        <4>2. CASE RecoverReauth(c) \/ Rename(c) \/ SaveSync(c) \/ BeginReauth(c) \/ EndReauth(c)
          BY <4>2 DEF RecoverReauth, ReauthScan, ReauthClean, Select, Lease,
             Rename, SaveSync, BeginReauth, EndReauth
        <4>3. CASE Remove(c)
          BY <4>3 DEF Remove, RemoveLock, RemoveBarrier, SyncBarrier, WriteSidecar,
             PublishSidecar, SyncSidecar, Entomb, SyncTomb, PublishRemoval, SyncRemoval, Unlink, Unlinked,
             SyncUnlinked, DropSidecar, SyncDropped, TreeChanged
        <4>4. CASE Registration(c)
          BY <4>4 DEF Registration, Register, RegisterLogin, RegisterMove, RegisterSync,
             RegisterPublish, RegisterAbort
        <4> QED BY <4>1, <4>2, <4>3, <4>4 DEF Step
      <3> QED BY <3>1, DirectoriesHistory
    <2>3. passedTrees' \subseteq onTrees'
      <3>1. SameTrees \/ SyncTrees \/ (\E p : ChangeTrees(p)) \/ (\E p : ChangeAndSyncTrees(p))
        <4>1. CASE RecoverRemoval(c)
          BY <1>2, <4>1 DEF RecoverRemoval, Preflight, Quiesce, LockTree, Relock,
             SyncRestored, RollbackSidecar, SyncRollbackSidecar, RollbackPublish, SyncRollback
        <4>2. CASE RecoverReauth(c) \/ Rename(c) \/ SaveSync(c) \/ BeginReauth(c) \/ EndReauth(c)
          BY <4>2 DEF RecoverReauth, ReauthScan, ReauthClean, Select, Lease,
             Rename, SaveSync, BeginReauth, EndReauth
        <4>3. CASE Remove(c)
          BY <4>3 DEF Remove, RemoveLock, RemoveBarrier, SyncBarrier, WriteSidecar,
             PublishSidecar, SyncSidecar, Entomb, SyncTomb, PublishRemoval, SyncRemoval, Unlink, Unlinked,
             SyncUnlinked, DropSidecar, SyncDropped, TreeChanged, MoveTree
        <4>4. CASE Registration(c)
          BY <4>4 DEF Registration, Register, RegisterLogin, RegisterMove, RegisterSync,
             RegisterPublish, RegisterAbort, MoveTree
        <4> QED BY <4>1, <4>2, <4>3, <4>4 DEF Step
      <3> QED BY <3>1, DirectoriesHistory
    <2> QED BY <2>1, <2>2, <2>3 DEF HistoryTypeOK
  <1> QED BY <1>1, <1>2

LEMMA NextHistory ==
  ASSUME TypeOK, [Next]_vars
  PROVE  HistoryTypeOK'
  <1>1. CASE \E c \in Client : Step(c)
    BY <1>1, StepHistory
  <1>2. CASE PowerLoss
    BY <1>2 DEF PowerLoss, TypeOK, HistoryTypeOK
  <1>3. CASE \/ \E c \in Client : Kill(c)
             \/ \E c \in Client : \E kind \in Kind, alias \in Option(Alias), to \in Option(Alias) :
                  Start(c, kind, alias, to)
             \/ WriteTree
             \/ UNCHANGED vars
    BY <1>3, ZenonT(60) DEF Kill, Start, WriteTree, vars, passed, TypeOK, HistoryTypeOK, SameData, SameTrees
  <1> QED BY <1>1, <1>2, <1>3 DEF Next

LEMMA NextLedger == LedgerInv /\ [Next]_vars => LedgerInv'
  <1> SUFFICES ASSUME LedgerInv, [Next]_vars PROVE LedgerInv'
    OBVIOUS
  <1>1. HistoryTypeOK'
    BY NextHistory DEF LedgerInv
  <1> QED BY <1>1, StepLedger, KillLedger, StartLedger, PowerLossLedger, StutterLedger DEF Next

(* LedgerInv is inductive: it holds in every reachable state, whatever      *)
(* commands run and whatever kills and power losses come.                   *)
THEOREM LedgerInvariant == Spec => []LedgerInv
  BY InitLedger, NextLedger, PTL DEF Spec

(* Every variable keeps its type: in particular the ids reported as removed *)
(* were given out, and the faults stay within the plan.                     *)
THEOREM ProfilesTypeCorrect == Spec => []TypeOK
  <1>1. LedgerInv => TypeOK
    BY DEF LedgerInv
  <1> QED BY <1>1, LedgerInvariant, PTL

(* Two registered profiles never share an alias: registrations and renames  *)
(* check it again under the registry lock, every document that a power loss *)
(* may bring back was checked too, and a barrier keeps the document it      *)
(* replaces as it is.                                                       *)
THEOREM NoSharedAlias == Spec => []AliasesUnique
  <1>1. LedgerInv => AliasesUnique
    BY DEF LedgerInv, PresentMayStay, Distinct, AliasesUnique, Rows
  <1> QED BY <1>1, LedgerInvariant, PTL

(* A reauthentication that works under its lease keeps its tree and its     *)
(* row: removals take the lease, recoveries settle only a tree they lease,  *)
(* and renames keep the row.                                                *)
THEOREM LeasedIsKept == Spec => []LeaseProtects
  <1>1. LedgerInv => LeaseProtects
    BY DEF LedgerInv, Held, Working, LeaseProtects
  <1> QED BY <1>1, LedgerInvariant, PTL

(* A removal that was reported is never undone, by a power loss or by a     *)
(* recovery that looked before: no document and no proof on the disk names  *)
(* the id, and ids are not given out again.                                 *)
THEOREM ReportedRemovalStays == Spec => []GoneStaysGone
  <1>1. LedgerInv => GoneStaysGone
    BY DEF LedgerInv, PresentMayStay, GoneIsUnnamed, Unnamed, GoneStaysGone
  <1> QED BY <1>1, LedgerInvariant, PTL

==============================================================================
