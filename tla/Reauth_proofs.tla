---------------------------- MODULE Reauth_proofs ----------------------------
(***************************************************************************)
(* That replacing a credential never loses it, for any number of commands, *)
(* transactions, credentials, kills and power losses.                      *)
(*                                                                         *)
(* What a power loss may leave is quantified over in every part of the     *)
(* invariant: each home in onHome, each journal in onProfile.  The command *)
(* that has the lease is the only one that changes the files, beside the   *)
(* provider, so one record of it and the files determine what comes next.  *)
(* A provider without the lease may write at any of its steps: what the    *)
(* command knows of the live credential holds up to such a write.          *)
(***************************************************************************)
EXTENDS Reauth, TLAPS

------------------------------------------------------------------------------
(* The inductive invariant *)

(* What is there now is among what a power loss may leave.                  *)
PresentMayStay == home \in onHome /\ journal \in onProfile /\ staging \in onRoot

(* A hidden old credential has a durable journal that names it, and the     *)
(* live one has moved on from it.                                           *)
HiddenIsJournalled(h) ==
  \A t \in Tx : h.old[t] # Absent =>
    /\ onProfile = {journal}
    /\ journal # NoJournal
    /\ journal.tx = t
    /\ h.old[t] = journal.old \/ raced
    /\ h.auth # journal.old
    /\ home.auth # journal.old

(* Without a live credential both are there for recovery to complete.       *)
GapIsJournalled(h) ==
  h.auth = Absent =>
    /\ journal # NoJournal
    /\ h.old[journal.tx] # Absent
    /\ h.old[journal.tx] = journal.old \/ raced
    /\ h.new[journal.tx] = journal.new

(* A live credential is not older than the reported one, and was issued.    *)
AuthInRange(h) ==
  /\ h.auth # Absent => h.auth >= reported
  /\ h.auth <= issued

(* Transactions to come have left nothing.                                  *)
FutureIsClean(h) ==
  \A t \in Tx : t > transactions => h.new[t] = Absent /\ h.old[t] = Absent

HomeSafe(h) ==
  /\ HiddenIsJournalled(h)
  /\ GapIsJournalled(h)
  /\ AuthInRange(h)
  /\ FutureIsClean(h)

JournalSafe(j) ==
  j # NoJournal =>
    /\ j.old < j.new
    /\ j.new <= issued
    /\ j.new >= reported
    /\ j.tx <= transactions

(* The digests are ones recover_journaled_reauth knows what to do with.     *)
Resolves(h, j) ==
  /\ h.old[j.tx] \in {Absent, j.old}
  /\ h.new[j.tx] \in {Absent, j.new}
  /\ \/ h.auth = j.new
     \/ h.auth = j.old /\ h.old[j.tx] = Absent
     \/ h.auth = Absent /\ h.old[j.tx] = j.old /\ h.new[j.tx] = j.new

AllResolve ==
  ~raced => \A h \in onHome, j \in onProfile : j # NoJournal => Resolves(h, j)

(* A transaction writes one journal.                                        *)
OneJournalPerTx ==
  \A i, j \in onProfile : i # NoJournal /\ j # NoJournal /\ i.tx = j.tx => i = j

FilesInv ==
  /\ PresentMayStay
  /\ \A h \in onHome : HomeSafe(h)
  /\ \A j \in onProfile : JournalSafe(j)
  /\ OneJournalPerTx
  /\ AllResolve

Waiting == {"idle", "preflight", "found"}
NotYetJournal == {"recover", "orphans", "create", "login", "run"}
Cleaned == {"drop_staging", "sync_root", "drop_journal", "sync_end"}

(* The lease belongs to the one command beyond its preflight, or to a child *)
(* of a killed one.                                                         *)
LeaseInv ==
  /\ \A c \in Client : client[c].pc \notin Waiting <=> lease = c
  /\ \A c \in Client : client[c].pc \in Waiting => client[c].j = NoJournal /\ client[c].job = "none"
  /\ child # "none" => lease = Nobody

(* No file is left of a transaction.                                        *)
Untouched(t) ==
  /\ \A h \in onHome : h.new[t] = Absent /\ h.old[t] = Absent
  /\ \A j \in onProfile : j.tx # t

NothingHidden == \A h \in onHome : \A t \in Tx : h.old[t] = Absent

(* What the command with the lease knows of the files, by what it does next.*)
JournalInStep(k) ==
  /\ k.pc \in NotYetJournal => k.j = NoJournal
  /\ k.pc \notin Waiting \cup NotYetJournal => k.j # NoJournal /\ JournalSafe(k.j)
  /\ k.pc \notin Waiting \cup NotYetJournal \cup {"publish", "sync_end"} => journal = k.j
  /\ k.pc = "sync_end" => journal = NoJournal
  /\ k.pc \in {"place", "sync_place", "check", "hide"} => onProfile = {journal}

TransactionInStep(k) ==
  /\ k.job = "begin" \/ k.pc = "create" => transactions < MaxTx
  /\ k.pc \in {"create", "login"} => k.job = "none"
  /\ k.pc \in {"recover", "orphans", "rollback"} => k.job \in {"preflight", "begin"}
  /\ k.pc \in {"login", "publish"} => k.tx = transactions /\ k.tx # Absent /\ Untouched(k.tx)
  /\ k.pc = "login" => home.auth # Absent
  /\ k.pc = "publish" => k.j.tx = k.tx

(* The live credential is a, but for what an orphan wrote since.            *)
LiveIs(a) == home.auth = a \/ (raced /\ home.auth \in unleased)

HomeInStep(k) ==
  /\ k.pc \in {"hide", "show"} => home.new[k.j.tx] = k.j.new
  /\ k.pc = "hide" => LiveIs(k.j.old) /\ home.auth # Absent
  /\ k.pc = "show" => LiveIs(Absent) /\ home.old[k.j.tx] # Absent
  /\ k.pc \in {"verify", "sync_show", "drop_old", "drop_new", "sync_drop"} => home.auth >= k.j.new
  /\ k.pc \in {"drop_new", "sync_drop"} => home.old[k.j.tx] = Absent
  /\ k.pc \in Cleaned => NothingHidden
  /\ k.pc \in Cleaned /\ k.job = "commit" => \A h \in onHome : h.auth >= k.j.new

HolderInStep(k) == JournalInStep(k) /\ TransactionInStep(k) /\ HomeInStep(k)

ReauthInv ==
  /\ TypeOK
  /\ reported <= issued
  /\ FilesInv
  /\ LeaseInv
  /\ lease # Nobody => HolderInStep(client[lease])

------------------------------------------------------------------------------
(* Operators *)

(* The ways a home is changed. *)
LEMMA EditNew ==
  ASSUME NEW h \in Home, NEW t, NEW v
  PROVE  [h EXCEPT !.new[t] = v] = [auth |-> h.auth, new |-> [h.new EXCEPT ![t] = v], old |-> h.old]
  <1>1. h = [auth |-> h.auth, new |-> h.new, old |-> h.old]
    BY DEF Home
  <1> QED BY <1>1

LEMMA EditOld ==
  ASSUME NEW h \in Home, NEW t, NEW v
  PROVE  [h EXCEPT !.old[t] = v] = [auth |-> h.auth, new |-> h.new, old |-> [h.old EXCEPT ![t] = v]]
  <1>1. h = [auth |-> h.auth, new |-> h.new, old |-> h.old]
    BY DEF Home
  <1> QED BY <1>1

LEMMA EditAuth ==
  ASSUME NEW h \in Home, NEW a
  PROVE  [h EXCEPT !.auth = a] = [auth |-> a, new |-> h.new, old |-> h.old]
  <1>1. h = [auth |-> h.auth, new |-> h.new, old |-> h.old]
    BY DEF Home
  <1> QED BY <1>1

WithAuthNew(h, a, t, v) == [h EXCEPT !.auth = a, !.new[t] = v]

LEMMA EditAuthNew ==
  ASSUME NEW h \in Home, NEW a, NEW t, NEW v
  PROVE  WithAuthNew(h, a, t, v) = [auth |-> a, new |-> [h.new EXCEPT ![t] = v], old |-> h.old]
  <1> DEFINE g == [h EXCEPT !.auth = a]
  <1>1. WithAuthNew(h, a, t, v) = [g EXCEPT !.new[t] = v]
    BY DEF WithAuthNew
  <1>2. g = [auth |-> a, new |-> h.new, old |-> h.old]
    BY EditAuth
  <1>3. g.auth = a /\ g.new = h.new /\ g.old = h.old /\ g = [auth |-> g.auth, new |-> g.new, old |-> g.old]
    BY <1>2
  <1> HIDE DEF g
  <1>4. [g EXCEPT !.new[t] = v] = [auth |-> g.auth, new |-> [g.new EXCEPT ![t] = v], old |-> g.old]
    BY <1>3
  <1> QED BY <1>1, <1>3, <1>4

WithAuthOld(h, a, t, v) == [h EXCEPT !.auth = a, !.old[t] = v]

LEMMA EditAuthOld ==
  ASSUME NEW h \in Home, NEW a, NEW t, NEW v
  PROVE  WithAuthOld(h, a, t, v) = [auth |-> a, new |-> h.new, old |-> [h.old EXCEPT ![t] = v]]
  <1> DEFINE g == [h EXCEPT !.auth = a]
  <1>1. WithAuthOld(h, a, t, v) = [g EXCEPT !.old[t] = v]
    BY DEF WithAuthOld
  <1>2. g = [auth |-> a, new |-> h.new, old |-> h.old]
    BY EditAuth
  <1>3. g.auth = a /\ g.new = h.new /\ g.old = h.old /\ g = [auth |-> g.auth, new |-> g.new, old |-> g.old]
    BY <1>2
  <1> HIDE DEF g
  <1>4. [g EXCEPT !.old[t] = v] = [auth |-> g.auth, new |-> g.new, old |-> [g.old EXCEPT ![t] = v]]
    BY <1>3
  <1> QED BY <1>1, <1>3, <1>4

LEMMA HomeTyped ==
  ASSUME NEW h \in Home, NEW a \in OptCred, NEW t \in Tx, NEW v \in OptCred
  PROVE  /\ [auth |-> a, new |-> h.new, old |-> h.old] \in Home
         /\ [auth |-> a, new |-> [h.new EXCEPT ![t] = v], old |-> h.old] \in Home
         /\ [auth |-> a, new |-> h.new, old |-> [h.old EXCEPT ![t] = v]] \in Home
  BY DEF Home

(* What recover_journaled_reauth decides, and that it refuses nothing else. *)
LEMMA OutcomeTable ==
  ASSUME NEW h \in Home, NEW j \in Journal
  PROVE  /\ Outcome(h, j) = "required" <=> ~Resolves(h, j)
         /\ Outcome(h, j) = "finish" => h.auth = j.new
         /\ Outcome(h, j) = "rollback" => h.auth = j.old
         /\ Outcome(h, j) = "complete" =>
              /\ h.auth = Absent
              /\ h.old[j.tx] = j.old
              /\ h.new[j.tx] = j.new
  BY DEF Outcome, Resolves

(* A journal is not the empty one: its transaction has a number.            *)
LEMMA JournalNotNone ==
  /\ NoJournal \notin Journal
  /\ \A j \in Journal : j.tx \in Tx /\ j.old \in Cred /\ j.new \in Cred /\ j.old # Absent /\ j.new # Absent
  BY DEF NoJournal, Journal, Tx, Cred, Absent

------------------------------------------------------------------------------
(* Commands *)

(* A command with the lease goes on, and keeps it.                          *)
LEMMA Goes ==
  ASSUME TypeOK, LeaseInv, NEW c \in Client, NEW k \in Command,
         client[c].pc \notin Waiting, k.pc \notin Waiting,
         client' = [client EXCEPT ![c] = k], lease' = lease, child' = child
  PROVE  /\ LeaseInv'
         /\ client' \in [Client -> Command]
         /\ lease = c /\ lease' = c /\ client'[lease'] = k
  BY DEF TypeOK, LeaseInv

(* Its next record, when it only goes to another operation.                 *)
LEMMA GoesTo ==
  ASSUME TypeOK, NEW c \in Client, NEW pc \in Pc, Goto(c, pc)
  PROVE  /\ client' = [client EXCEPT ![c] = [client[c] EXCEPT !.pc = pc]]
         /\ [client[c] EXCEPT !.pc = pc] \in Command
         /\ [client[c] EXCEPT !.pc = pc].pc = pc
         /\ [client[c] EXCEPT !.pc = pc].job = client[c].job
         /\ [client[c] EXCEPT !.pc = pc].j = client[c].j
         /\ [client[c] EXCEPT !.pc = pc].tx = client[c].tx
  BY DEF TypeOK, Goto, Command

LEMMA IdleTyped == Idle \in Command /\ Idle.pc = "idle" /\ Idle.j = NoJournal /\ Idle.tx = Absent /\ Idle.job = "none"
  BY DEF Idle, Command, Pc, Job

(* A command ends: nobody has the lease, or whoever had it has it still.    *)
LEMMA Ends ==
  ASSUME TypeOK, LeaseInv, NEW c \in Client, End(c),
         child' = child \/ client[c].pc \notin Waiting
  PROVE  /\ LeaseInv'
         /\ client' \in [Client -> Command]
         /\ lease' \in Client \cup {Nobody}
         /\ lease' # Nobody => lease' = lease /\ client'[lease'] = client[lease]
  <1>1. \A d \in Client : client'[d] = IF d = c THEN Idle ELSE client[d]
    BY DEF TypeOK, End
  <1>2. client' \in [Client -> Command]
    BY IdleTyped DEF TypeOK, End
  <1>3. lease' = IF client[c].pc \notin Waiting THEN Nobody ELSE lease
    BY DEF End, LeaseInv
  <1>4. LeaseInv'
    BY <1>1, <1>3, IdleTyped, ReauthAssumption DEF LeaseInv, Waiting, TypeOK
  <1> QED BY <1>1, <1>2, <1>3, <1>4 DEF TypeOK, LeaseInv

------------------------------------------------------------------------------
(* Files *)

(* Time goes by: credentials are issued and transactions counted.           *)
LEMMA FilesLater ==
  ASSUME TypeOK, FilesInv, SameHome, SameJournal,
         staging' \in onRoot', UNCHANGED <<reported, raced>>,
         issued' \in Nat, issued' >= issued,
         transactions' \in Nat, transactions' >= transactions
  PROVE  FilesInv'
  <1>0. /\ issued \in Nat /\ transactions \in Nat
    BY ReauthAssumption DEF TypeOK, Cred
  <1>1. PresentMayStay'
    BY DEF PresentMayStay, FilesInv, SameHome, SameJournal
  <1>2. ASSUME NEW h \in onHome'
        PROVE  HomeSafe(h)'
    <2>1. h \in onHome /\ h \in Home /\ HomeSafe(h)
      BY <1>2 DEF SameHome, TypeOK, FilesInv
    <2>2. h.auth \in Int
      BY <2>1, ReauthAssumption DEF Home, OptCred, Cred, Absent
    <2>3. HiddenIsJournalled(h)' /\ GapIsJournalled(h)'
      BY <2>1 DEF HomeSafe, HiddenIsJournalled, GapIsJournalled, SameHome, SameJournal
    <2>4. AuthInRange(h)' /\ FutureIsClean(h)'
      BY <1>0, <2>1, <2>2, ReauthAssumption DEF HomeSafe, AuthInRange, FutureIsClean, Tx
    <2> QED BY <2>3, <2>4 DEF HomeSafe
  <1>3. ASSUME NEW j \in onProfile'
        PROVE  JournalSafe(j)'
    <2>1. j \in onProfile /\ j \in Journal \cup {NoJournal} /\ JournalSafe(j)
      BY <1>3 DEF SameJournal, TypeOK, FilesInv
    <2>2. j # NoJournal => j.new \in Int /\ j.tx \in Int
      BY <2>1, ReauthAssumption DEF Journal, Cred, Tx
    <2> QED BY <1>0, <2>1, <2>2 DEF JournalSafe
  <1>4. OneJournalPerTx' /\ AllResolve'
    BY DEF FilesInv, OneJournalPerTx, AllResolve, SameHome, SameJournal
  <1> QED BY <1>1, <1>2, <1>3, <1>4 DEF FilesInv

LEMMA FilesSame ==
  ASSUME TypeOK, FilesInv, SameHome, SameJournal, staging' \in onRoot',
         UNCHANGED <<reported, raced, issued, transactions>>
  PROVE  FilesInv'
  BY FilesLater, ReauthAssumption DEF TypeOK, Cred

(* A sync leaves less to a power loss.                                      *)
LEMMA HomeSynced ==
  ASSUME TypeOK, FilesInv, SyncHome, SameJournal, SameStaging,
         UNCHANGED <<reported, raced, issued, transactions>>
  PROVE  FilesInv'
  <1>1. PresentMayStay' /\ home \in onHome /\ onHome' = {home} /\ home' = home
    BY DEF PresentMayStay, FilesInv, SyncHome, SameJournal, SameStaging
  <1>2. HomeSafe(home)'
    BY <1>1 DEF FilesInv, HomeSafe, HiddenIsJournalled, GapIsJournalled, AuthInRange,
                FutureIsClean, SameJournal
  <1>3. (\A h \in onHome : HomeSafe(h))'
    BY <1>1, <1>2
  <1>4. (\A j \in onProfile : JournalSafe(j))'
    BY DEF FilesInv, JournalSafe, SameJournal
  <1>5. OneJournalPerTx' /\ AllResolve'
    BY <1>1 DEF FilesInv, OneJournalPerTx, AllResolve, SameJournal
  <1> QED BY <1>1, <1>3, <1>4, <1>5 DEF FilesInv

LEMMA ProfileSynced ==
  ASSUME TypeOK, FilesInv, SyncProfile, SameHome, SameStaging,
         UNCHANGED <<reported, raced, issued, transactions>>
  PROVE  FilesInv'
  <1>1. PresentMayStay' /\ journal \in onProfile /\ onProfile' = {journal} /\ journal' = journal
    BY DEF PresentMayStay, FilesInv, SyncProfile, SameHome, SameStaging
  <1>2. ASSUME NEW h \in onHome'
        PROVE  HomeSafe(h)'
    BY <1>1, <1>2 DEF FilesInv, HomeSafe, HiddenIsJournalled, GapIsJournalled, AuthInRange,
                      FutureIsClean, SameHome
  <1>4. (\A j \in onProfile : JournalSafe(j))'
    BY <1>1 DEF FilesInv, JournalSafe
  <1>5. OneJournalPerTx' /\ AllResolve'
    BY <1>1 DEF FilesInv, OneJournalPerTx, AllResolve, SameHome
  <1> QED BY <1>1, <1>2, <1>4, <1>5 DEF FilesInv

(* What a changed home has to meet.                                         *)
MayBecome(h) ==
  /\ \A t \in Tx : h.old[t] # Absent =>
       /\ onProfile = {journal} /\ journal # NoJournal /\ journal.tx = t
       /\ h.old[t] = journal.old \/ raced
       /\ h.auth # journal.old
  /\ h.auth # journal.old \/ NothingHidden
  /\ GapIsJournalled(h)
  /\ FutureIsClean(h)

LEMMA HomeChanged ==
  ASSUME TypeOK, FilesInv, NEW h \in Home, ChangeHome(h), SameJournal, SameStaging,
         UNCHANGED <<reported, transactions>>,
         issued' \in Nat, issued' >= issued,
         MayBecome(h),
         h.auth # Absent => h.auth >= reported, h.auth <= issued',
         ~raced' => ~raced,
         ~raced' => \A j \in onProfile : j # NoJournal => Resolves(h, j)
  PROVE  FilesInv'
  <1>0. issued \in Nat /\ transactions \in Nat
    BY ReauthAssumption DEF TypeOK, Cred
  <1>1. PresentMayStay' /\ home' = h /\ onHome' = onHome \cup {h}
    BY DEF PresentMayStay, FilesInv, ChangeHome, SameJournal, SameStaging
  <1>2. ASSUME NEW g \in onHome'
        PROVE  HomeSafe(g)'
    <2>1. CASE g = h
      BY <1>1, <2>1 DEF HomeSafe, HiddenIsJournalled, GapIsJournalled, AuthInRange,
                FutureIsClean, SameJournal, MayBecome
    <2>2. CASE g # h
      <3>1. g \in onHome /\ g \in Home /\ HomeSafe(g)
        BY <1>1, <1>2, <2>2 DEF TypeOK, FilesInv
      <3>2. HiddenIsJournalled(g)'
        BY <1>1, <3>1 DEF HomeSafe, HiddenIsJournalled, SameJournal, MayBecome, NothingHidden
      <3>3. g.auth \in Int
        BY <3>1, ReauthAssumption DEF Home, OptCred, Cred, Absent
      <3>4. GapIsJournalled(g)' /\ AuthInRange(g)' /\ FutureIsClean(g)'
        BY <1>0, <3>1, <3>3 DEF HomeSafe, GapIsJournalled, AuthInRange, FutureIsClean, SameJournal
      <3> QED BY <3>2, <3>4 DEF HomeSafe
    <2> QED BY <2>1, <2>2
  <1>3. ASSUME NEW j \in onProfile'
        PROVE  JournalSafe(j)'
    <2>1. j \in onProfile /\ j \in Journal \cup {NoJournal} /\ JournalSafe(j)
      BY <1>3 DEF SameJournal, TypeOK, FilesInv
    <2>2. j # NoJournal => j.new \in Int /\ j.tx \in Int
      BY <2>1, ReauthAssumption DEF Journal, Cred, Tx
    <2> QED BY <1>0, <2>1, <2>2 DEF JournalSafe
  <1>4. OneJournalPerTx' /\ AllResolve'
    BY <1>1 DEF FilesInv, OneJournalPerTx, AllResolve, SameJournal
  <1> QED BY <1>1, <1>2, <1>3, <1>4 DEF FilesInv

------------------------------------------------------------------------------
(* Steps that leave home and journal alone *)

LEMMA Holder ==
  ASSUME ReauthInv, NEW c \in Client, client[c].pc \notin Waiting
  PROVE  lease = c /\ lease # Nobody /\ HolderInStep(client[c])
  BY ReauthAssumption DEF ReauthInv, LeaseInv

LEMMA HolderSame ==
  ASSUME UNCHANGED <<home, onHome, journal, onProfile, transactions, issued, reported, raced, unleased>>,
         NEW k, client'[lease'] = k, HolderInStep(k)
  PROVE  HolderInStep(client[lease])'
  <1>1. JournalInStep(client[lease])'
    BY DEF HolderInStep, JournalInStep, JournalSafe
  <1>2. TransactionInStep(client[lease])'
    BY DEF HolderInStep, TransactionInStep, Untouched
  <1>3. HomeInStep(client[lease])'
    BY DEF HolderInStep, HomeInStep, LiveIs, NothingHidden
  <1> QED BY <1>1, <1>2, <1>3 DEF HolderInStep

(* A command without the lease changes only its own record.                 *)
LEMMA Waits ==
  ASSUME TypeOK, LeaseInv, NEW c \in Client, NEW k \in Command,
         client[c].pc \in Waiting, k.pc \in Waiting, k.j = NoJournal, k.job = "none",
         client' = [client EXCEPT ![c] = k], lease' = lease, child' = child
  PROVE  /\ LeaseInv'
         /\ client' \in [Client -> Command]
         /\ lease' # Nobody => client'[lease'] = client[lease]
  BY DEF TypeOK, LeaseInv

(* A command takes the lease.                                               *)
LEMMA Locks ==
  ASSUME TypeOK, LeaseInv, NEW c \in Client, NEW k \in Command,
         client[c].pc \in Waiting, k.pc \notin Waiting, ~Leased,
         client' = [client EXCEPT ![c] = k], lease' = c, child' = child
  PROVE  /\ LeaseInv'
         /\ client' \in [Client -> Command]
         /\ client'[lease'] = k
  BY ReauthAssumption DEF TypeOK, LeaseInv, Leased

(* A step that changes neither home nor journal: only what the new holder   *)
(* of the lease knows is to be shown.                                       *)
LEMMA StagingStep ==
  ASSUME ReauthInv, SameHome, SameJournal,
         UNCHANGED <<transactions, issued, reported, raced, powerLosses, unleased>>,
         kills' \in 0..MaxKills, orphan' \in BOOLEAN,
         staging' \subseteq Tx, onRoot' \subseteq SUBSET Tx, staging' \in onRoot',
         LeaseInv', client' \in [Client -> Command], lease' \in Client \cup {Nobody},
         child' \in {"none", "login", "provider"},
         lease' # Nobody => HolderInStep(client'[lease'])
  PROVE  ReauthInv'
  <1>1. TypeOK'
    BY DEF ReauthInv, TypeOK, SameHome, SameJournal
  <1>2. FilesInv'
    BY FilesSame DEF ReauthInv
  <1>3. (lease # Nobody => HolderInStep(client[lease]))'
    BY HolderSame DEF SameHome, SameJournal
  <1> QED BY <1>1, <1>2, <1>3 DEF ReauthInv

LEMMA QuietStep ==
  ASSUME ReauthInv, UNCHANGED <<files, transactions, issued, reported, raced, powerLosses, unleased>>,
         kills' \in 0..MaxKills, orphan' \in BOOLEAN,
         LeaseInv', client' \in [Client -> Command], lease' \in Client \cup {Nobody},
         child' \in {"none", "login", "provider"},
         lease' # Nobody => HolderInStep(client'[lease'])
  PROVE  ReauthInv'
  BY StagingStep DEF files, SameHome, SameJournal, ReauthInv, TypeOK, FilesInv, PresentMayStay

LEMMA PreflightInv ==
  ASSUME ReauthInv, NEW c \in Client, Preflight(c)
  PROVE  ReauthInv'
  <1> DEFINE pc == IF journal # NoJournal \/ staging # {} THEN "preflight" ELSE "found"
  <1>1. pc \in Pc /\ pc \in Waiting /\ Goto(c, pc)
    BY DEF Pc, Waiting, Preflight
  <1> HIDE DEF pc
  <1>2. client[c].pc \in Waiting /\ client[c].j = NoJournal /\ client[c].job = "none" /\ TypeOK /\ LeaseInv /\ lease' = lease /\ child' = child
    BY DEF Preflight, Waiting, ReauthInv, LeaseInv
  <1> DEFINE k == [client[c] EXCEPT !.pc = pc]
  <1>3. k \in Command /\ k.pc = pc /\ k.j = NoJournal /\ k.job = "none" /\ client' = [client EXCEPT ![c] = k]
    BY <1>1, <1>2, GoesTo
  <1> HIDE DEF k
  <1>4. /\ LeaseInv'
        /\ client' \in [Client -> Command]
        /\ lease' # Nobody => client'[lease'] = client[lease]
    BY <1>1, <1>2, <1>3, Waits
  <1> QED BY <1>2, <1>4, QuietStep DEF ReauthInv, TypeOK, Preflight, files, counters, faults

LEMMA BusyInv ==
  ASSUME ReauthInv, NEW c \in Client, Busy(c)
  PROVE  ReauthInv'
  <1>1. client[c].pc \in Waiting /\ Idle.pc \in Waiting /\ TypeOK /\ LeaseInv /\ lease' = lease /\ child' = child
    BY IdleTyped DEF Busy, Waiting, ReauthInv
  <1>4. /\ LeaseInv'
        /\ client' \in [Client -> Command]
        /\ lease' # Nobody => client'[lease'] = client[lease]
    BY <1>1, IdleTyped, Waits DEF Busy
  <1> QED BY <1>1, <1>4, QuietStep DEF ReauthInv, TypeOK, Busy, files, counters, faults

LEMMA LockForRecoveryInv ==
  ASSUME ReauthInv, NEW c \in Client, LockForRecovery(c)
  PROVE  ReauthInv'
  <1> DEFINE k == [client[c] EXCEPT !.pc = "recover", !.job = "preflight"]
  <1>1. /\ client[c].pc \in Waiting /\ client[c].j = NoJournal /\ client[c] \in Command
        /\ TypeOK /\ LeaseInv /\ lease' = c /\ child' = child /\ ~Leased
    BY DEF LockForRecovery, Waiting, ReauthInv, LeaseInv, TypeOK
  <1>2. /\ k \in Command /\ k.pc = "recover" /\ k.job = "preflight" /\ k.j = NoJournal
        /\ client' = [client EXCEPT ![c] = k]
    BY <1>1 DEF LockForRecovery, Command, Pc, Job, TypeOK
  <1> HIDE DEF k
  <1>3. LeaseInv' /\ client' \in [Client -> Command] /\ client'[lease'] = k
    BY <1>1, <1>2, Locks DEF Waiting
  <1>4. HolderInStep(k)
    BY <1>2 DEF HolderInStep, JournalInStep, TransactionInStep, HomeInStep, NotYetJournal, Waiting, Cleaned
  <1> QED BY <1>1, <1>3, <1>4, QuietStep DEF ReauthInv, TypeOK, LockForRecovery, files, counters, faults

LEMMA LockForReauthInv ==
  ASSUME ReauthInv, NEW c \in Client, LockForReauth(c)
  PROVE  ReauthInv'
  <1> DEFINE k == [client[c] EXCEPT !.pc = "recover", !.job = "begin"]
  <1>1. /\ client[c].pc \in Waiting /\ client[c].j = NoJournal /\ client[c] \in Command
        /\ TypeOK /\ LeaseInv /\ lease' = c /\ child' = child /\ ~Leased
    BY DEF LockForReauth, Waiting, ReauthInv, LeaseInv, TypeOK
  <1>2. /\ k \in Command /\ k.pc = "recover" /\ k.job = "begin" /\ k.j = NoJournal
        /\ client' = [client EXCEPT ![c] = k]
    BY <1>1 DEF LockForReauth, Command, Pc, Job, TypeOK
  <1> HIDE DEF k
  <1>3. LeaseInv' /\ client' \in [Client -> Command] /\ client'[lease'] = k
    BY <1>1, <1>2, Locks DEF Waiting
  <1>4. HolderInStep(k)
    BY <1>2 DEF HolderInStep, JournalInStep, TransactionInStep, HomeInStep, NotYetJournal, Waiting,
                Cleaned, LockForReauth
  <1> QED BY <1>1, <1>3, <1>4, QuietStep DEF ReauthInv, TypeOK, LockForReauth, files, counters, faults

LEMMA LockForRunInv ==
  ASSUME ReauthInv, NEW c \in Client, LockForRun(c)
  PROVE  ReauthInv'
  <1> DEFINE k == [client[c] EXCEPT !.pc = "run"]
  <1>1. /\ client[c].pc \in Waiting /\ client[c].j = NoJournal
        /\ TypeOK /\ LeaseInv /\ lease' = c /\ child' = child /\ ~Leased
        /\ client[c].job = "none"
    BY DEF LockForRun, Waiting, ReauthInv, LeaseInv, TypeOK
  <1>2. k \in Command /\ k.pc = "run" /\ k.j = NoJournal /\ k.job = client[c].job /\ client' = [client EXCEPT ![c] = k]
    BY <1>1, GoesTo, ZenonT(60) DEF LockForRun, Pc
  <1> HIDE DEF k
  <1>3. LeaseInv' /\ client' \in [Client -> Command] /\ client'[lease'] = k
    BY <1>1, <1>2, Locks DEF Waiting
  <1>4. HolderInStep(k)
    BY <1>1, <1>2 DEF HolderInStep, JournalInStep, TransactionInStep, HomeInStep, NotYetJournal, Waiting, Cleaned
  <1> QED BY <1>1, <1>3, <1>4, QuietStep DEF ReauthInv, TypeOK, LockForRun, files, counters, faults

LEMMA RecoverOrphansInv ==
  ASSUME ReauthInv, NEW c \in Client, RecoverOrphans(c)
  PROVE  ReauthInv'
  <1> DEFINE k == [client[c] EXCEPT !.pc = "orphans"]
  <1>1. /\ client[c].pc \notin Waiting /\ TypeOK /\ LeaseInv /\ lease' = lease /\ child' = child
        /\ client[c].pc = "recover"
    BY DEF RecoverOrphans, Waiting, ReauthInv
  <1>2. HolderInStep(client[c])
    BY <1>1, Holder
  <1>3. k \in Command /\ k.pc = "orphans" /\ k.j = client[c].j /\ k.job = client[c].job /\ client' = [client EXCEPT ![c] = k]
    <2>1. Goto(c, "orphans") /\ "orphans" \in Pc
      BY DEF RecoverOrphans, Pc
    <2> QED BY <1>1, <2>1, GoesTo
  <1> HIDE DEF k
  <1>4. LeaseInv' /\ client' \in [Client -> Command] /\ client'[lease'] = k
    BY <1>1, <1>3, Goes DEF Waiting
  <1>5. HolderInStep(k)
    BY <1>1, <1>2, <1>3 DEF HolderInStep, JournalInStep, TransactionInStep, HomeInStep, NotYetJournal, Waiting, Cleaned
  <1> QED BY <1>1, <1>4, <1>5, StagingStep DEF ReauthInv, TypeOK, RecoverOrphans, ChangeStaging, counters, faults

LEMMA RecoverFinishInv ==
  ASSUME ReauthInv, NEW c \in Client, RecoverFinish(c)
  PROVE  ReauthInv'
  <1> DEFINE k == [client[c] EXCEPT !.pc = "drop_old", !.j = journal]
  <1>1. /\ client[c].pc \notin Waiting /\ TypeOK /\ LeaseInv /\ lease' = lease /\ child' = child
        /\ client[c].pc = "recover" /\ client[c] \in Command /\ journal \in Journal /\ home \in Home
    BY DEF RecoverFinish, Waiting, ReauthInv, TypeOK
  <1>2. HolderInStep(client[c])
    BY <1>1, Holder
  <1>3. /\ k \in Command /\ k.pc = "drop_old" /\ k.j = journal /\ k.job = client[c].job
        /\ client' = [client EXCEPT ![c] = k]
    BY <1>1 DEF RecoverFinish, Command, Pc, TypeOK
  <1> HIDE DEF k
  <1>4. LeaseInv' /\ client' \in [Client -> Command] /\ client'[lease'] = k
    BY <1>1, <1>3, Goes DEF Waiting
  <1>5. home.auth = journal.new /\ journal # NoJournal /\ JournalSafe(journal) /\ journal.new \in Int
    BY <1>1, OutcomeTable, JournalNotNone, ReauthAssumption
       DEF RecoverFinish, ReauthInv, FilesInv, PresentMayStay, Cred
  <1>6. HolderInStep(k)
    BY <1>1, <1>2, <1>3, <1>5 DEF HolderInStep, JournalInStep, TransactionInStep, HomeInStep, NotYetJournal, Waiting, Cleaned
  <1> QED BY <1>1, <1>4, <1>6, QuietStep DEF ReauthInv, TypeOK, RecoverFinish, counters, faults

LEMMA RecoverRollbackInv ==
  ASSUME ReauthInv, NEW c \in Client, RecoverRollback(c)
  PROVE  ReauthInv'
  <1> DEFINE k == [client[c] EXCEPT !.pc = "rollback", !.j = journal]
  <1>1. /\ client[c].pc \notin Waiting /\ TypeOK /\ LeaseInv /\ lease' = lease /\ child' = child
        /\ client[c].pc = "recover" /\ client[c] \in Command /\ journal \in Journal /\ home \in Home
    BY DEF RecoverRollback, Waiting, ReauthInv, TypeOK
  <1>2. HolderInStep(client[c])
    BY <1>1, Holder
  <1>3. /\ k \in Command /\ k.pc = "rollback" /\ k.j = journal /\ k.job = client[c].job
        /\ client' = [client EXCEPT ![c] = k]
    BY <1>1 DEF RecoverRollback, Command, Pc, TypeOK
  <1> HIDE DEF k
  <1>4. LeaseInv' /\ client' \in [Client -> Command] /\ client'[lease'] = k
    BY <1>1, <1>3, Goes DEF Waiting
  <1>5. home.auth = journal.old /\ journal # NoJournal /\ JournalSafe(journal)
    BY <1>1, OutcomeTable, JournalNotNone DEF RecoverRollback, ReauthInv, FilesInv, PresentMayStay
  <1>6. HolderInStep(k)
    BY <1>1, <1>2, <1>3, <1>5 DEF HolderInStep, JournalInStep, TransactionInStep, HomeInStep, NotYetJournal, Waiting, Cleaned
  <1> QED BY <1>1, <1>4, <1>6, QuietStep DEF ReauthInv, TypeOK, RecoverRollback, counters, faults

LEMMA RecoveryRequiredInv ==
  ASSUME ReauthInv, NEW c \in Client, RecoveryRequired(c)
  PROVE  ReauthInv'
  <1>1. TypeOK /\ LeaseInv /\ End(c) /\ child' = child
    BY DEF RecoveryRequired, ReauthInv
  <1>2. /\ LeaseInv'
        /\ client' \in [Client -> Command]
        /\ lease' \in Client \cup {Nobody}
        /\ lease' # Nobody => lease' = lease /\ client'[lease'] = client[lease]
    BY <1>1, Ends
  <1> QED BY <1>1, <1>2, QuietStep DEF ReauthInv, TypeOK, RecoveryRequired, counters, faults

LEMMA EndRunInv ==
  ASSUME ReauthInv, NEW c \in Client, EndRun(c)
  PROVE  ReauthInv'
  <1>1. TypeOK /\ LeaseInv /\ End(c) /\ child' = child
    BY DEF EndRun, ReauthInv
  <1>2. /\ LeaseInv'
        /\ client' \in [Client -> Command]
        /\ lease' \in Client \cup {Nobody}
        /\ lease' # Nobody => lease' = lease /\ client'[lease'] = client[lease]
    BY <1>1, Ends
  <1> QED BY <1>1, <1>2, QuietStep DEF ReauthInv, TypeOK, EndRun, counters, faults

LEMMA KillInv ==
  ASSUME ReauthInv, NEW c \in Client, Kill(c)
  PROVE  ReauthInv'
  <1>1. TypeOK /\ LeaseInv /\ End(c)
    BY DEF Kill, ReauthInv
  <1>2. child' = child \/ client[c].pc \notin Waiting
    BY DEF Kill, Waiting
  <1>3. child' \in {"none", "login", "provider"} /\ orphan' \in BOOLEAN
    BY DEF Kill, ReauthInv, TypeOK
  <1>4. /\ LeaseInv'
        /\ client' \in [Client -> Command]
        /\ lease' \in Client \cup {Nobody}
        /\ lease' # Nobody => lease' = lease /\ client'[lease'] = client[lease]
    BY <1>1, <1>2, Ends
  <1>5. kills' \in 0..MaxKills
    BY ReauthAssumption DEF Kill, ReauthInv, TypeOK
  <1> QED BY <1>3, <1>4, <1>5, QuietStep DEF ReauthInv, Kill

LEMMA ChildExitInv ==
  ASSUME ReauthInv, ChildExit
  PROVE  ReauthInv'
  <1>1. LeaseInv'
    BY DEF ChildExit, ReauthInv, LeaseInv
  <1> QED BY <1>1, QuietStep DEF ReauthInv, TypeOK, ChildExit, counters, faults

LEMMA OrphanExitInv ==
  ASSUME ReauthInv, OrphanExit
  PROVE  ReauthInv'
  <1>1. LeaseInv'
    BY DEF OrphanExit, ReauthInv, LeaseInv
  <1> QED BY <1>1, QuietStep DEF ReauthInv, TypeOK, OrphanExit

LEMMA RefuseInv ==
  ASSUME ReauthInv, NEW c \in Client, Refuse(c)
  PROVE  ReauthInv'
  <1>1. TypeOK /\ LeaseInv /\ End(c) /\ child' = child /\ UNCHANGED <<files, counters>>
    BY DEF Refuse, ReauthInv
  <1>2. /\ LeaseInv'
        /\ client' \in [Client -> Command]
        /\ lease' \in Client \cup {Nobody}
        /\ lease' # Nobody => lease' = lease /\ client'[lease'] = client[lease]
    BY <1>1, Ends
  <1> QED BY <1>1, <1>2, QuietStep DEF ReauthInv, TypeOK, counters, faults

LEMMA AbandonInv ==
  ASSUME ReauthInv, NEW c \in Client, Abandon(c)
  PROVE  ReauthInv'
  <1>1. TypeOK /\ LeaseInv /\ End(c) /\ child' = child
    BY DEF Abandon, ReauthInv
  <1>2. /\ LeaseInv'
        /\ client' \in [Client -> Command]
        /\ lease' \in Client \cup {Nobody}
        /\ lease' # Nobody => lease' = lease /\ client'[lease'] = client[lease]
    BY <1>1, Ends
  <1> QED BY <1>1, <1>2, StagingStep DEF ReauthInv, TypeOK, Abandon, ChangeStaging, counters, faults

(* The home is clean whatever the rest of the directories is.               *)
LEMMA DropStagingInv ==
  ASSUME ReauthInv, NEW c \in Client, DropStaging(c)
  PROVE  ReauthInv'
  <1> DEFINE k == [client[c] EXCEPT !.pc = "sync_root"]
  <1>1. /\ client[c].pc \notin Waiting /\ TypeOK /\ LeaseInv /\ lease' = lease /\ child' = child
        /\ client[c].pc = "drop_staging"
    BY DEF DropStaging, Waiting, ReauthInv
  <1>2. HolderInStep(client[c])
    BY <1>1, Holder
  <1>3. k \in Command /\ k.pc = "sync_root" /\ k.j = client[c].j /\ k.job = client[c].job /\ client' = [client EXCEPT ![c] = k]
    BY <1>1, GoesTo, ZenonT(60) DEF DropStaging, Pc
  <1> HIDE DEF k
  <1>4. LeaseInv' /\ client' \in [Client -> Command] /\ client'[lease'] = k
    BY <1>1, <1>3, Goes DEF Waiting
  <1>5. HolderInStep(k)
    BY <1>1, <1>2, <1>3 DEF HolderInStep, JournalInStep, TransactionInStep, HomeInStep, NotYetJournal, Waiting, Cleaned
  <1> QED BY <1>1, <1>4, <1>5, StagingStep DEF ReauthInv, TypeOK, DropStaging, ChangeStaging, counters, faults

LEMMA SyncDroppedInv ==
  ASSUME ReauthInv, NEW c \in Client, SyncDropped(c)
  PROVE  ReauthInv'
  <1> DEFINE k == [client[c] EXCEPT !.pc = "drop_journal"]
  <1>1. /\ client[c].pc \notin Waiting /\ TypeOK /\ LeaseInv /\ lease' = lease /\ child' = child
        /\ client[c].pc = "sync_root"
    BY DEF SyncDropped, Waiting, ReauthInv
  <1>2. HolderInStep(client[c])
    BY <1>1, Holder
  <1>3. k \in Command /\ k.pc = "drop_journal" /\ k.j = client[c].j /\ k.job = client[c].job /\ client' = [client EXCEPT ![c] = k]
    BY <1>1, GoesTo, ZenonT(60) DEF SyncDropped, Pc
  <1> HIDE DEF k
  <1>4. LeaseInv' /\ client' \in [Client -> Command] /\ client'[lease'] = k
    BY <1>1, <1>3, Goes DEF Waiting
  <1>5. HolderInStep(k)
    BY <1>1, <1>2, <1>3 DEF HolderInStep, JournalInStep, TransactionInStep, HomeInStep, NotYetJournal, Waiting, Cleaned
  <1> QED BY <1>1, <1>4, <1>5, StagingStep DEF ReauthInv, TypeOK, SyncDropped, SyncRoot, counters, faults

(* Recovery or a commit is over: begin goes on with the lease, all others   *)
(* give it back.                                                            *)
LEMMA Dones ==
  ASSUME TypeOK, LeaseInv, NEW c \in Client, client[c].pc \notin Waiting, Done(c), child' = child
  PROVE  /\ LeaseInv'
         /\ client' \in [Client -> Command]
         /\ lease' \in Client \cup {Nobody}
         /\ lease' # Nobody =>
              /\ client[c].job = "begin"
              /\ client'[lease'].pc = "create"
              /\ client'[lease'].j = NoJournal
              /\ client'[lease'].job = "none"
  <1> DEFINE k == IF client[c].job = "begin" THEN [Idle EXCEPT !.pc = "create"]
                  ELSE IF client[c].job = "preflight" THEN [Idle EXCEPT !.pc = "found"]
                  ELSE Idle
  <1>1. /\ k \in Command /\ k.j = NoJournal /\ k.job = "none"
        /\ k.pc = IF client[c].job = "begin" THEN "create"
                  ELSE IF client[c].job = "preflight" THEN "found" ELSE "idle"
    BY DEF Idle, Command, Pc, Job
  <1>2. client' = [client EXCEPT ![c] = k]
    BY DEF Done, TypeOK
  <1> HIDE DEF k
  <1>3. \A d \in Client : client'[d] = IF d = c THEN k ELSE client[d]
    BY <1>2 DEF TypeOK
  <1>4. client' \in [Client -> Command]
    BY <1>1, <1>2 DEF TypeOK
  <1>5. lease = c /\ lease' = IF client[c].job = "begin" THEN c ELSE Nobody
    BY DEF LeaseInv, Done
  <1>6. LeaseInv'
    BY <1>1, <1>3, <1>5, ReauthAssumption DEF LeaseInv, Waiting
  <1> QED BY <1>1, <1>3, <1>4, <1>5, <1>6

LEMMA SyncOrphansInv ==
  ASSUME ReauthInv, NEW c \in Client, SyncOrphans(c)
  PROVE  ReauthInv'
  <1>1. /\ client[c].pc \notin Waiting /\ TypeOK /\ LeaseInv /\ child' = child /\ Done(c)
        /\ client[c].pc = "orphans"
    BY DEF SyncOrphans, Waiting, ReauthInv
  <1>2. HolderInStep(client[c])
    BY <1>1, Holder
  <1>3. /\ LeaseInv'
        /\ client' \in [Client -> Command]
        /\ lease' \in Client \cup {Nobody}
        /\ lease' # Nobody =>
              /\ client[c].job = "begin"
              /\ client'[lease'].pc = "create"
              /\ client'[lease'].j = NoJournal
              /\ client'[lease'].job = "none"
    BY <1>1, Dones
  <1>4. client[c].job \in {"preflight", "begin"} /\ reported' = reported
    BY <1>1, <1>2 DEF HolderInStep, TransactionInStep, Done
  <1>5. lease' # Nobody => HolderInStep(client'[lease'])
    BY <1>2, <1>3 DEF HolderInStep, JournalInStep, TransactionInStep, HomeInStep, NotYetJournal, Waiting, Cleaned
  <1> QED BY <1>1, <1>3, <1>4, <1>5, StagingStep DEF ReauthInv, TypeOK, SyncOrphans, SyncRoot, counters, faults

------------------------------------------------------------------------------
(* A transaction begins *)

LEMMA CreateStagingInv ==
  ASSUME ReauthInv, NEW c \in Client, CreateStaging(c)
  PROVE  ReauthInv'
  <1> DEFINE k == [client[c] EXCEPT !.pc = "login", !.tx = transactions + 1]
  <1>1. /\ client[c].pc \notin Waiting /\ TypeOK /\ LeaseInv /\ lease' = lease /\ child' = child
        /\ client[c].pc = "create" /\ client[c] \in Command
    BY DEF CreateStaging, Waiting, ReauthInv, TypeOK
  <1>2. HolderInStep(client[c])
    BY <1>1, Holder
  <1>3. client[c].j = NoJournal /\ transactions < MaxTx /\ transactions \in Nat
    BY <1>1, <1>2, ReauthAssumption DEF HolderInStep, JournalInStep, TransactionInStep, NotYetJournal, TypeOK
  <1>4. /\ transactions + 1 \in Tx /\ transactions' = transactions + 1 /\ transactions' \in 0..MaxTx
        /\ transactions + 1 # Absent
    BY <1>3, ReauthAssumption DEF CreateStaging, Tx, Absent
  <1>5. /\ k \in Command /\ k.pc = "login" /\ k.j = NoJournal /\ k.tx = transactions + 1 /\ k.job = client[c].job
        /\ client' = [client EXCEPT ![c] = k]
    BY <1>1, <1>3, <1>4 DEF CreateStaging, Command, Pc, TypeOK
  <1> HIDE DEF k
  <1>6. LeaseInv' /\ client' \in [Client -> Command] /\ client'[lease'] = k /\ lease' = c
    BY <1>1, <1>5, Goes DEF Waiting
  <1>7. TypeOK'
    BY <1>1, <1>4, <1>6 DEF TypeOK, CreateStaging, SameHome, SameJournal, faults
  <1>8. FilesInv'
    BY <1>1, <1>3, <1>4, FilesLater, ReauthAssumption DEF CreateStaging, ReauthInv, TypeOK, Cred
  <1>9. Untouched(transactions)'
    <2>1. ASSUME NEW h \in onHome'
          PROVE  h.new[transactions'] = Absent /\ h.old[transactions'] = Absent
      BY <1>3, <1>4, <2>1 DEF ReauthInv, FilesInv, HomeSafe, FutureIsClean, CreateStaging, SameHome
    <2>2. ASSUME NEW j \in onProfile'
          PROVE  j.tx # transactions'
      <3>1. j \in onProfile /\ j \in Journal \cup {NoJournal} /\ JournalSafe(j)
        BY <1>1, <2>2 DEF CreateStaging, SameJournal, TypeOK, ReauthInv, FilesInv
      <3>2. CASE j = NoJournal
        BY <1>4, <3>2 DEF NoJournal
      <3>3. CASE j # NoJournal
        BY <1>3, <1>4, <3>1, <3>3, ReauthAssumption DEF JournalSafe, Journal, Tx
      <3> QED BY <3>2, <3>3
    <2> QED BY <2>1, <2>2 DEF Untouched
  <1>10. JournalInStep(client[lease])'
    BY <1>5, <1>6 DEF JournalInStep, NotYetJournal, Waiting
  <1>11. TransactionInStep(client[lease])'
    <2>1. k.job = "none"
      BY <1>2, <1>5, <1>1 DEF HolderInStep, TransactionInStep
    <2> QED BY <1>4, <1>5, <1>6, <1>9, <2>1 DEF TransactionInStep, CreateStaging, SameHome
  <1>12. HomeInStep(client[lease])'
    BY <1>5, <1>6 DEF HomeInStep, Cleaned
  <1>13. reported' <= issued'
    BY DEF ReauthInv, CreateStaging
  <1> QED BY <1>6, <1>7, <1>8, <1>10, <1>11, <1>12, <1>13 DEF ReauthInv, HolderInStep

LEMMA LoginInv ==
  ASSUME ReauthInv, NEW c \in Client, Login(c)
  PROVE  ReauthInv'
  <1> DEFINE j == [tx |-> client[c].tx, old |-> home.auth, new |-> issued + 1]
  <1> DEFINE k == [client[c] EXCEPT !.pc = "publish", !.job = "commit", !.j = j]
  <1>1. /\ client[c].pc \notin Waiting /\ TypeOK /\ LeaseInv /\ lease' = lease /\ child' = child
        /\ client[c].pc = "login" /\ client[c] \in Command
    BY DEF Login, Waiting, ReauthInv, TypeOK
  <1>2. HolderInStep(client[c])
    BY <1>1, Holder
  <1>3. /\ client[c].tx = transactions /\ client[c].tx # Absent /\ Untouched(client[c].tx)
        /\ home.auth # Absent
    BY <1>1, <1>2 DEF HolderInStep, TransactionInStep
  <1>4. /\ issued \in Nat /\ issued' = issued + 1 /\ issued + 1 \in Cred /\ home.auth \in Cred
        /\ client[c].tx \in Tx /\ home.auth <= issued /\ reported <= issued /\ reported \in Nat
        /\ transactions \in Nat
    BY <1>1, <1>3, ReauthAssumption
       DEF Login, TypeOK, Cred, Home, OptCred, Command, ReauthInv, FilesInv, PresentMayStay, HomeSafe, AuthInRange
  <1>5. j \in Journal /\ j.tx = client[c].tx /\ j.old = home.auth /\ j.new = issued + 1
    BY <1>4 DEF Journal
  <1>6. client' = [client EXCEPT ![c] = k]
    BY <1>1 DEF Login, TypeOK
  <1> HIDE DEF j
  <1>7. /\ k \in Command /\ k.pc = "publish" /\ k.j = j /\ k.tx = client[c].tx /\ k.job = "commit"
    BY <1>1, <1>5 DEF Command, Pc, Job
  <1> HIDE DEF k
  <1>8. LeaseInv' /\ client' \in [Client -> Command] /\ client'[lease'] = k /\ lease' = c
    BY <1>1, <1>6, <1>7, Goes DEF Waiting
  <1>9. TypeOK'
    BY <1>1, <1>4, <1>8 DEF TypeOK, Login, files, faults
  <1>10. FilesInv'
    BY <1>1, <1>4, FilesLater DEF Login, ReauthInv, FilesInv, PresentMayStay, files, SameHome, SameJournal
  <1>11. JournalSafe(client[lease].j)'
    <2>1. home.auth \in Int
      BY <1>4, ReauthAssumption DEF Cred
    <2> QED BY <1>3, <1>4, <1>5, <1>7, <1>8, <2>1 DEF JournalSafe, Login
  <1>12. JournalInStep(client[lease])'
    BY <1>5, <1>7, <1>8, <1>11, JournalNotNone DEF JournalInStep, NotYetJournal, Waiting
  <1>13. TransactionInStep(client[lease])'
    BY <1>3, <1>5, <1>7, <1>8 DEF TransactionInStep, Untouched, Login, files
  <1>14. HomeInStep(client[lease])'
    BY <1>7, <1>8 DEF HomeInStep, Cleaned
  <1>15. reported' <= issued'
    BY <1>4 DEF Login
  <1> QED BY <1>8, <1>9, <1>10, <1>12, <1>13, <1>14, <1>15 DEF ReauthInv, HolderInStep

------------------------------------------------------------------------------
(* The home changes *)

(* When the live credential stays, the new home hides no more than the old. *)
LEMMA AuthKept ==
  ASSUME TypeOK, FilesInv, NEW h \in Home, h.auth = home.auth
  PROVE  /\ h.auth # journal.old \/ NothingHidden
         /\ h.auth # Absent => h.auth >= reported
         /\ h.auth <= issued
  <1>1. home \in onHome /\ HomeSafe(home)
    BY DEF FilesInv, PresentMayStay
  <1>2. h.auth # journal.old \/ NothingHidden
    BY <1>1 DEF FilesInv, HomeSafe, HiddenIsJournalled, NothingHidden
  <1> QED BY <1>1, <1>2 DEF HomeSafe, AuthInRange

LEMMA HomeStep ==
  ASSUME ReauthInv, NEW c \in Client, NEW h \in Home, ChangeHome(h), SameJournal, SameStaging,
         UNCHANGED <<counters, child>>, LeaseInv',
         client' \in [Client -> Command], lease' = c,
         MayBecome(h), h.auth # Absent => h.auth >= reported, h.auth <= issued,
         ~raced => \A j \in onProfile : j # NoJournal => Resolves(h, j),
         HolderInStep(client[lease])'
  PROVE  ReauthInv'
  <1>1. TypeOK /\ FilesInv
    BY DEF ReauthInv
  <1>2. TypeOK'
    BY <1>1 DEF TypeOK, ChangeHome, SameJournal, SameStaging, counters, faults
  <1>3. FilesInv'
    BY <1>1, HomeChanged, ReauthAssumption DEF counters, TypeOK, Cred
  <1> QED BY <1>2, <1>3 DEF ReauthInv, counters

LEMMA PlaceCandidateInv ==
  ASSUME ReauthInv, NEW c \in Client, PlaceCandidate(c)
  PROVE  ReauthInv'
  <1> DEFINE k == [client[c] EXCEPT !.pc = "sync_place"]
  <1>1. /\ client[c].pc \notin Waiting /\ TypeOK /\ LeaseInv /\ FilesInv /\ lease' = lease /\ child' = child
        /\ client[c].pc = "place" /\ home \in Home
    BY DEF PlaceCandidate, Waiting, ReauthInv, TypeOK
  <1>2. HolderInStep(client[c])
    BY <1>1, Holder
  <1>3. /\ k \in Command /\ k.pc = "sync_place" /\ k.j = client[c].j /\ k.job = client[c].job
        /\ client' = [client EXCEPT ![c] = k]
    <2>1. Goto(c, "sync_place") /\ "sync_place" \in Pc
      BY DEF PlaceCandidate, Pc
    <2> QED BY <1>1, <2>1, GoesTo
  <1> HIDE DEF k
  <1>4. LeaseInv' /\ client' \in [Client -> Command] /\ client'[lease'] = k /\ lease' = c
    BY <1>1, <1>3, Goes DEF Waiting
  <1>5. /\ client[c].j = journal /\ journal # NoJournal /\ JournalSafe(journal) /\ onProfile = {journal}
    BY <1>1, <1>2 DEF HolderInStep, JournalInStep, NotYetJournal, Waiting
  <1>6. journal \in Journal /\ journal.tx \in Tx /\ journal.new \in OptCred /\ journal.new # Absent /\ journal.old # Absent
    BY <1>1, <1>5, JournalNotNone DEF TypeOK, OptCred
  <1> DEFINE h == [auth |-> home.auth, new |-> [home.new EXCEPT ![journal.tx] = journal.new], old |-> home.old]
  <1>7. ChangeHome(h)
    <2>1. [home EXCEPT !.new[journal.tx] = journal.new] = h
      BY <1>1, EditNew, Zenon
    <2>2. ChangeHome([home EXCEPT !.new[client[c].j.tx] = client[c].j.new])
      BY DEF PlaceCandidate
    <2> QED BY <1>5, <2>1, <2>2
  <1>8. /\ h \in Home /\ h.auth = home.auth /\ h.old = home.old
        /\ \A t \in Tx : h.new[t] = IF t = journal.tx THEN journal.new ELSE home.new[t]
    BY <1>1, <1>6, HomeTyped DEF Home
  <1> HIDE DEF h
  <1>9. HomeSafe(home)
    BY <1>1 DEF FilesInv, PresentMayStay
  <1>10. MayBecome(h)
    <2>1. GapIsJournalled(h)
      BY <1>5, <1>6, <1>8, <1>9 DEF HomeSafe, GapIsJournalled
    <2>2. FutureIsClean(h)
      BY <1>5, <1>6, <1>8, <1>9, <1>1, ReauthAssumption DEF HomeSafe, FutureIsClean, JournalSafe, Tx, TypeOK
    <2>3. h.auth # journal.old \/ NothingHidden
      BY <1>1, <1>8, AuthKept
    <2> QED BY <1>8, <1>9, <2>1, <2>2, <2>3 DEF MayBecome, HomeSafe, HiddenIsJournalled
  <1>11. ~raced => \A j \in onProfile : j # NoJournal => Resolves(h, j)
    <2>1. ~raced => Resolves(home, journal)
      BY <1>1, <1>5 DEF FilesInv, AllResolve, PresentMayStay
    <2> QED BY <1>5, <1>6, <1>8, <2>1 DEF Resolves
  <1>12. JournalInStep(client[lease])'
    BY <1>3, <1>4, <1>5 DEF JournalInStep, PlaceCandidate, SameJournal, JournalSafe, counters, Waiting, NotYetJournal
  <1>13. TransactionInStep(client[lease])'
    BY <1>1, <1>2, <1>3, <1>4 DEF HolderInStep, TransactionInStep, PlaceCandidate, counters
  <1>14. HomeInStep(client[lease])'
    BY <1>3, <1>4 DEF HomeInStep, Cleaned
  <1>15. (h.auth # Absent => h.auth >= reported) /\ h.auth <= issued
    BY <1>1, <1>8, AuthKept
  <1> QED BY <1>1, <1>4, <1>7, <1>8, <1>10, <1>11, <1>12, <1>13, <1>14, <1>15, HomeStep
          DEF HolderInStep, PlaceCandidate

(* A command with the lease looks at the files and goes on.                 *)
LEMMA CheckOldInv ==
  ASSUME ReauthInv, NEW c \in Client, CheckOld(c)
  PROVE  ReauthInv'
  <1> DEFINE k == [client[c] EXCEPT !.pc = "hide"]
  <1>1. /\ client[c].pc \notin Waiting /\ TypeOK /\ LeaseInv /\ lease' = lease /\ child' = child
        /\ client[c].pc = "check" /\ UNCHANGED <<files, counters>>
    BY DEF CheckOld, Waiting, ReauthInv
  <1>2. HolderInStep(client[c])
    BY <1>1, Holder
  <1>3. k \in Command /\ k.pc = "hide" /\ k.j = client[c].j /\ k.job = client[c].job /\ client' = [client EXCEPT ![c] = k]
    <2>1. Goto(c, "hide") /\ "hide" \in Pc
      BY DEF CheckOld, Pc
    <2> QED BY <1>1, <2>1, GoesTo
  <1> HIDE DEF k
  <1>4. LeaseInv' /\ client' \in [Client -> Command] /\ client'[lease'] = k
    BY <1>1, <1>3, Goes DEF Waiting
  <1>5. client[c].j \in Journal /\ client[c].j.old # Absent
    BY <1>1, <1>2, JournalNotNone DEF HolderInStep, JournalInStep, Waiting, NotYetJournal, TypeOK
  <1>6. home.new[k.j.tx] = k.j.new /\ home.auth = k.j.old /\ home.auth # Absent
    BY <1>3, <1>5 DEF CheckOld
  <1>7. HolderInStep(k)
    BY <1>1, <1>2, <1>3, <1>6 DEF HolderInStep, JournalInStep, TransactionInStep, HomeInStep, LiveIs,
       NotYetJournal, Waiting, Cleaned
  <1> QED BY <1>1, <1>4, <1>7, QuietStep DEF ReauthInv, TypeOK, counters, faults

LEMMA VerifyNewInv ==
  ASSUME ReauthInv, NEW c \in Client, VerifyNew(c)
  PROVE  ReauthInv'
  <1> DEFINE k == [client[c] EXCEPT !.pc = "sync_show"]
  <1>1. /\ client[c].pc \notin Waiting /\ TypeOK /\ LeaseInv /\ lease' = lease /\ child' = child
        /\ client[c].pc = "verify" /\ UNCHANGED <<files, counters>>
    BY DEF VerifyNew, Waiting, ReauthInv
  <1>2. HolderInStep(client[c])
    BY <1>1, Holder
  <1>3. k \in Command /\ k.pc = "sync_show" /\ k.j = client[c].j /\ k.job = client[c].job /\ client' = [client EXCEPT ![c] = k]
    <2>1. Goto(c, "sync_show") /\ "sync_show" \in Pc
      BY DEF VerifyNew, Pc
    <2> QED BY <1>1, <2>1, GoesTo
  <1> HIDE DEF k
  <1>4. LeaseInv' /\ client' \in [Client -> Command] /\ client'[lease'] = k
    BY <1>1, <1>3, Goes DEF Waiting
  <1>5. HolderInStep(k)
    BY <1>1, <1>2, <1>3 DEF HolderInStep, JournalInStep, TransactionInStep, HomeInStep, NotYetJournal, Waiting, Cleaned
  <1> QED BY <1>1, <1>4, <1>5, QuietStep DEF ReauthInv, TypeOK, counters, faults

LEMMA RecoverCompleteInv ==
  ASSUME ReauthInv, NEW c \in Client, RecoverComplete(c)
  PROVE  ReauthInv'
  <1> DEFINE k == [client[c] EXCEPT !.pc = "show", !.j = journal]
  <1>1. /\ client[c].pc \notin Waiting /\ TypeOK /\ LeaseInv /\ lease' = lease /\ child' = child
        /\ client[c].pc = "recover" /\ client[c] \in Command /\ journal \in Journal /\ home \in Home
    BY DEF RecoverComplete, Waiting, ReauthInv, TypeOK
  <1>2. HolderInStep(client[c])
    BY <1>1, Holder
  <1>3. /\ k \in Command /\ k.pc = "show" /\ k.j = journal /\ k.job = client[c].job
        /\ client' = [client EXCEPT ![c] = k]
    BY <1>1 DEF RecoverComplete, Command, Pc, TypeOK
  <1> HIDE DEF k
  <1>4. LeaseInv' /\ client' \in [Client -> Command] /\ client'[lease'] = k
    BY <1>1, <1>3, Goes DEF Waiting
  <1>5. /\ home.auth = Absent /\ home.old[journal.tx] # Absent /\ home.new[journal.tx] = journal.new
        /\ journal # NoJournal /\ JournalSafe(journal)
    BY <1>1, OutcomeTable, JournalNotNone DEF RecoverComplete, ReauthInv, FilesInv, PresentMayStay
  <1>6. HolderInStep(k)
    BY <1>1, <1>2, <1>3, <1>5 DEF HolderInStep, JournalInStep, TransactionInStep, HomeInStep, LiveIs,
       NotYetJournal, Waiting, Cleaned
  <1> QED BY <1>1, <1>4, <1>6, QuietStep DEF ReauthInv, TypeOK, RecoverComplete, counters, faults

(* What is hidden is the journal's old credential or what an orphan put in   *)
(* its place after the check.                                               *)
LEMMA HideOldInv ==
  ASSUME ReauthInv, NEW c \in Client, HideOld(c)
  PROVE  ReauthInv'
  <1> DEFINE k == [client[c] EXCEPT !.pc = "show"]
  <1>1. /\ client[c].pc \notin Waiting /\ TypeOK /\ LeaseInv /\ FilesInv /\ lease' = lease /\ child' = child
        /\ client[c].pc = "hide" /\ home \in Home
    BY DEF HideOld, Waiting, ReauthInv, TypeOK
  <1>2. HolderInStep(client[c])
    BY <1>1, Holder
  <1>3. /\ k \in Command /\ k.pc = "show" /\ k.j = client[c].j /\ k.job = client[c].job
        /\ client' = [client EXCEPT ![c] = k]
    <2>1. Goto(c, "show") /\ "show" \in Pc
      BY DEF HideOld, Pc
    <2> QED BY <1>1, <2>1, GoesTo
  <1> HIDE DEF k
  <1>4. LeaseInv' /\ client' \in [Client -> Command] /\ client'[lease'] = k /\ lease' = c
    BY <1>1, <1>3, Goes DEF Waiting
  <1>5. /\ client[c].j = journal /\ journal # NoJournal /\ JournalSafe(journal) /\ onProfile = {journal}
        /\ home.new[journal.tx] = journal.new /\ home.auth # Absent
        /\ home.auth = journal.old \/ raced
    BY <1>1, <1>2 DEF HolderInStep, JournalInStep, HomeInStep, LiveIs, NotYetJournal, Waiting
  <1>6. /\ journal \in Journal /\ journal.tx \in Tx /\ journal.new # Absent /\ journal.old # Absent
        /\ home.auth \in OptCred
    BY <1>1, <1>5, JournalNotNone DEF TypeOK, Home
  <1> DEFINE h == [auth |-> Absent, new |-> home.new, old |-> [home.old EXCEPT ![journal.tx] = home.auth]]
  <1>7. ChangeHome(h)
    <2>1. WithAuthOld(home, Absent, journal.tx, home.auth) = h
      BY <1>1, EditAuthOld
    <2>2. ChangeHome(WithAuthOld(home, Absent, client[c].j.tx, home.auth))
      BY DEF HideOld, WithAuthOld
    <2> QED BY <1>5, <2>1, <2>2
  <1>8. /\ h \in Home /\ h.auth = Absent /\ h.new = home.new
        /\ \A t \in Tx : h.old[t] = IF t = journal.tx THEN home.auth ELSE home.old[t]
    BY <1>1, <1>6, HomeTyped DEF Home, OptCred
  <1> HIDE DEF h
  <1>9. HomeSafe(home)
    BY <1>1, <1>5 DEF FilesInv, PresentMayStay
  <1>10. MayBecome(h)
    <2>1. GapIsJournalled(h)
      BY <1>5, <1>6, <1>8 DEF GapIsJournalled
    <2>2. FutureIsClean(h)
      BY <1>5, <1>6, <1>8, <1>9, <1>1, ReauthAssumption DEF HomeSafe, FutureIsClean, JournalSafe, Tx, TypeOK
    <2>3. \A t \in Tx : t # journal.tx => h.old[t] = Absent
      BY <1>8, <1>9 DEF HomeSafe, HiddenIsJournalled
    <2> QED BY <1>5, <1>6, <1>8, <2>1, <2>2, <2>3 DEF MayBecome
  <1>11. ~raced => \A j \in onProfile : j # NoJournal => Resolves(h, j)
    BY <1>5, <1>6, <1>8 DEF Resolves
  <1>12. JournalInStep(client[lease])'
    BY <1>3, <1>4, <1>5 DEF JournalInStep, HideOld, SameJournal, JournalSafe, counters, Waiting, NotYetJournal
  <1>13. TransactionInStep(client[lease])'
    BY <1>1, <1>2, <1>3, <1>4 DEF HolderInStep, TransactionInStep, HideOld, counters
  <1>14. HomeInStep(client[lease])'
    BY <1>3, <1>4, <1>5, <1>6, <1>7, <1>8 DEF HomeInStep, LiveIs, Cleaned, ChangeHome
  <1>15. (h.auth # Absent => h.auth >= reported) /\ h.auth <= issued
    BY <1>1, <1>8, ReauthAssumption DEF TypeOK, Cred, Absent
  <1> QED BY <1>1, <1>4, <1>7, <1>8, <1>10, <1>11, <1>12, <1>13, <1>14, <1>15, HomeStep
          DEF HolderInStep, HideOld

(* The replacement becomes visible, in a commit and in its recovery alike.  *)
LEMMA ShowNewInv ==
  ASSUME ReauthInv, NEW c \in Client, ShowNew(c)
  PROVE  ReauthInv'
  <1> DEFINE k == [client[c] EXCEPT !.pc = "verify"]
  <1>1. /\ client[c].pc \notin Waiting /\ TypeOK /\ LeaseInv /\ FilesInv /\ lease' = lease /\ child' = child
        /\ client[c].pc = "show" /\ home \in Home
    BY DEF ShowNew, Waiting, ReauthInv, TypeOK
  <1>2. HolderInStep(client[c])
    BY <1>1, Holder
  <1>3. /\ k \in Command /\ k.pc = "verify" /\ k.j = client[c].j /\ k.job = client[c].job
        /\ client' = [client EXCEPT ![c] = k]
    <2>1. Goto(c, "verify") /\ "verify" \in Pc
      BY DEF ShowNew, Pc
    <2> QED BY <1>1, <2>1, GoesTo
  <1> HIDE DEF k
  <1>4. LeaseInv' /\ client' \in [Client -> Command] /\ client'[lease'] = k /\ lease' = c
    BY <1>1, <1>3, Goes DEF Waiting
  <1>5. /\ client[c].j = journal /\ journal # NoJournal /\ JournalSafe(journal)
        /\ home.new[journal.tx] = journal.new /\ home.old[journal.tx] # Absent
        /\ home.auth = Absent \/ raced
    BY <1>1, <1>2 DEF HolderInStep, JournalInStep, HomeInStep, LiveIs, NotYetJournal, Waiting
  <1>6. /\ journal \in Journal /\ journal.tx \in Tx /\ journal.new \in OptCred /\ journal.new # Absent
        /\ journal.old # Absent /\ journal.new \in Int /\ journal.old \in Int
    BY <1>1, <1>5, JournalNotNone, ReauthAssumption DEF TypeOK, OptCred, Journal, Cred
  <1> DEFINE h == [auth |-> journal.new, new |-> [home.new EXCEPT ![journal.tx] = Absent], old |-> home.old]
  <1>7. HomeSafe(home) /\ onProfile = {journal}
    BY <1>1, <1>5, <1>6 DEF FilesInv, PresentMayStay, HomeSafe, HiddenIsJournalled
  <1>8. /\ h \in Home /\ h.auth = journal.new /\ h.old = home.old
        /\ \A t \in Tx : h.new[t] = IF t = journal.tx THEN Absent ELSE home.new[t]
    BY <1>1, <1>6, HomeTyped DEF Home, OptCred
  <1>9. ChangeHome(h)
    <2>1. WithAuthNew(home, journal.new, journal.tx, Absent) = h
      BY <1>1, EditAuthNew
    <2>2. ChangeHome(WithAuthNew(home, home.new[client[c].j.tx], client[c].j.tx, Absent))
      BY DEF ShowNew, WithAuthNew
    <2> QED BY <1>5, <2>1, <2>2
  <1> HIDE DEF h
  <1>10. journal.new # journal.old /\ journal.new <= issued /\ journal.new >= reported
    BY <1>5, <1>6 DEF JournalSafe
  <1>11. MayBecome(h)
    <2>1. FutureIsClean(h)
      BY <1>7, <1>8 DEF HomeSafe, FutureIsClean
    <2> QED BY <1>6, <1>7, <1>8, <1>10, <2>1 DEF MayBecome, HomeSafe, HiddenIsJournalled, GapIsJournalled
  <1>12. ~raced => \A j \in onProfile : j # NoJournal => Resolves(h, j)
    BY <1>5, <1>6, <1>7, <1>8 DEF Resolves, HomeSafe, GapIsJournalled
  <1>13. JournalInStep(client[lease])'
    BY <1>3, <1>4, <1>5 DEF JournalInStep, ShowNew, SameJournal, JournalSafe, counters, Waiting, NotYetJournal
  <1>14. TransactionInStep(client[lease])'
    BY <1>1, <1>2, <1>3, <1>4 DEF HolderInStep, TransactionInStep, ShowNew, counters
  <1>15. HomeInStep(client[lease])'
    BY <1>3, <1>4, <1>5, <1>6, <1>8, <1>9 DEF HomeInStep, Cleaned, ChangeHome
  <1> QED BY <1>1, <1>4, <1>8, <1>9, <1>10, <1>11, <1>12, <1>13, <1>14, <1>15, HomeStep
          DEF HolderInStep, ShowNew

LEMMA DropOldInv ==
  ASSUME ReauthInv, NEW c \in Client, DropOld(c)
  PROVE  ReauthInv'
  <1> DEFINE k == [client[c] EXCEPT !.pc = "drop_new"]
  <1>1. /\ client[c].pc \notin Waiting /\ TypeOK /\ LeaseInv /\ FilesInv /\ lease' = lease /\ child' = child
        /\ client[c].pc = "drop_old" /\ home \in Home
    BY DEF DropOld, Waiting, ReauthInv, TypeOK
  <1>2. HolderInStep(client[c])
    BY <1>1, Holder
  <1>3. /\ k \in Command /\ k.pc = "drop_new" /\ k.j = client[c].j /\ k.job = client[c].job
        /\ client' = [client EXCEPT ![c] = k]
    <2>1. Goto(c, "drop_new") /\ "drop_new" \in Pc
      BY DEF DropOld, Pc
    <2> QED BY <1>1, <2>1, GoesTo
  <1> HIDE DEF k
  <1>4. LeaseInv' /\ client' \in [Client -> Command] /\ client'[lease'] = k /\ lease' = c
    BY <1>1, <1>3, Goes DEF Waiting
  <1>5. /\ client[c].j = journal /\ journal # NoJournal /\ JournalSafe(journal) /\ home.auth = journal.new
    BY <1>1, <1>2 DEF HolderInStep, JournalInStep, NotYetJournal, Waiting, DropOld
  <1>6. /\ journal \in Journal /\ journal.tx \in Tx /\ journal.new # Absent /\ journal.old # Absent
        /\ journal.new \in Int
    BY <1>1, <1>5, JournalNotNone, ReauthAssumption DEF TypeOK, Cred
  <1> DEFINE h == [auth |-> home.auth, new |-> home.new, old |-> [home.old EXCEPT ![journal.tx] = Absent]]
  <1>7. ChangeHome(h)
    <2>1. [home EXCEPT !.old[journal.tx] = Absent] = h
      BY <1>1, EditOld
    <2>2. ChangeHome([home EXCEPT !.old[client[c].j.tx] = Absent])
      BY DEF DropOld
    <2> QED BY <1>5, <2>1, <2>2
  <1>8. /\ h \in Home /\ h.auth = home.auth /\ h.new = home.new
        /\ \A t \in Tx : h.old[t] = IF t = journal.tx THEN Absent ELSE home.old[t]
    BY <1>1, <1>6, HomeTyped DEF Home, OptCred
  <1> HIDE DEF h
  <1>9. HomeSafe(home) /\ journal \in onProfile /\ home \in onHome
    BY <1>1 DEF FilesInv, PresentMayStay
  <1>10. MayBecome(h)
    <2>1. GapIsJournalled(h)
      BY <1>5, <1>6, <1>8 DEF GapIsJournalled
    <2>2. FutureIsClean(h)
      BY <1>8, <1>9 DEF HomeSafe, FutureIsClean
    <2>3. h.auth # journal.old \/ NothingHidden
      BY <1>1, <1>8, AuthKept
    <2> QED BY <1>8, <1>9, <2>1, <2>2, <2>3 DEF MayBecome, HomeSafe, HiddenIsJournalled
  <1>11. ASSUME ~raced, NEW j \in onProfile, j # NoJournal
         PROVE  Resolves(h, j)
    <2>1. Resolves(home, j) /\ j.tx \in Tx /\ j.new # Absent
      BY <1>1, <1>9, <1>11, JournalNotNone DEF FilesInv, AllResolve, TypeOK
    <2>2. CASE j.tx = journal.tx
      <3>1. j = journal
        BY <1>1, <1>5, <1>9, <1>11, <2>2 DEF FilesInv, OneJournalPerTx
      <3> QED BY <1>5, <1>6, <1>8, <2>1, <3>1 DEF Resolves
    <2>3. CASE j.tx # journal.tx
      BY <1>8, <2>1, <2>3 DEF Resolves
    <2> QED BY <2>2, <2>3
  <1>12. JournalInStep(client[lease])'
    BY <1>3, <1>4, <1>5 DEF JournalInStep, DropOld, SameJournal, JournalSafe, counters, Waiting, NotYetJournal
  <1>13. TransactionInStep(client[lease])'
    BY <1>1, <1>2, <1>3, <1>4 DEF HolderInStep, TransactionInStep, DropOld, counters
  <1>14. HomeInStep(client[lease])'
    BY <1>3, <1>4, <1>5, <1>6, <1>7, <1>8 DEF HomeInStep, Cleaned, ChangeHome
  <1>15. (h.auth # Absent => h.auth >= reported) /\ h.auth <= issued
    BY <1>1, <1>8, AuthKept
  <1> QED BY <1>1, <1>4, <1>7, <1>8, <1>10, <1>11, <1>12, <1>13, <1>14, <1>15, HomeStep
          DEF HolderInStep, DropOld

(* The replacement file goes, when nobody needs it any more.                *)
LEMMA DropsNew ==
  ASSUME TypeOK, FilesInv, journal \in Journal, home.old[journal.tx] = Absent,
         home.auth # Absent,
         NEW h, h = [auth |-> home.auth, new |-> [home.new EXCEPT ![journal.tx] = Absent], old |-> home.old]
  PROVE  /\ h \in Home /\ h.auth = home.auth /\ h.old = home.old
         /\ MayBecome(h)
         /\ (h.auth # Absent => h.auth >= reported) /\ h.auth <= issued
         /\ ~raced => \A j \in onProfile : j # NoJournal => Resolves(h, j)
  <1>1. /\ journal.tx \in Tx /\ journal.new # Absent /\ journal.old # Absent /\ journal # NoJournal
    BY JournalNotNone
  <1>2. home \in Home /\ HomeSafe(home) /\ JournalSafe(journal) /\ journal \in onProfile /\ home \in onHome
    BY DEF TypeOK, FilesInv, PresentMayStay
  <1>3. /\ h \in Home /\ h.auth = home.auth /\ h.old = home.old
        /\ \A t \in Tx : h.new[t] = IF t = journal.tx THEN Absent ELSE home.new[t]
    BY <1>1, <1>2, HomeTyped DEF Home, OptCred
  <1>4. MayBecome(h)
    <2>1. GapIsJournalled(h)
      BY <1>1, <1>3 DEF GapIsJournalled
    <2>2. FutureIsClean(h)
      BY <1>2, <1>3 DEF HomeSafe, FutureIsClean
    <2>3. h.auth # journal.old \/ NothingHidden
      BY <1>3, AuthKept
    <2> QED BY <1>2, <1>3, <2>1, <2>2, <2>3 DEF MayBecome, HomeSafe, HiddenIsJournalled
  <1>5. ASSUME ~raced, NEW j \in onProfile, j # NoJournal
         PROVE  Resolves(h, j)
    <2>1. Resolves(home, j) /\ j.tx \in Tx /\ j.new # Absent
      BY <1>2, <1>5, JournalNotNone DEF FilesInv, AllResolve, TypeOK
    <2>2. CASE j.tx = journal.tx
      <3>1. j = journal
        BY <1>1, <1>2, <1>5, <2>2 DEF FilesInv, OneJournalPerTx
      <3> QED BY <1>1, <1>3, <2>1, <3>1 DEF Resolves
    <2>3. CASE j.tx # journal.tx
      BY <1>3, <2>1, <2>3 DEF Resolves
    <2> QED BY <2>2, <2>3
  <1>6. (h.auth # Absent => h.auth >= reported) /\ h.auth <= issued
    BY <1>3, AuthKept
  <1> QED BY <1>3, <1>4, <1>5, <1>6

LEMMA DropNewInv ==
  ASSUME ReauthInv, NEW c \in Client, DropNew(c)
  PROVE  ReauthInv'
  <1> DEFINE k == [client[c] EXCEPT !.pc = "sync_drop"]
  <1>1. /\ client[c].pc \notin Waiting /\ TypeOK /\ LeaseInv /\ FilesInv /\ lease' = lease /\ child' = child
        /\ client[c].pc = "drop_new" /\ home \in Home
    BY DEF DropNew, Waiting, ReauthInv, TypeOK
  <1>2. HolderInStep(client[c])
    BY <1>1, Holder
  <1>3. /\ k \in Command /\ k.pc = "sync_drop" /\ k.j = client[c].j /\ k.job = client[c].job
        /\ client' = [client EXCEPT ![c] = k]
    <2>1. Goto(c, "sync_drop") /\ "sync_drop" \in Pc
      BY DEF DropNew, Pc
    <2> QED BY <1>1, <2>1, GoesTo
  <1> HIDE DEF k
  <1>4. LeaseInv' /\ client' \in [Client -> Command] /\ client'[lease'] = k /\ lease' = c
    BY <1>1, <1>3, Goes DEF Waiting
  <1>5. /\ client[c].j = journal /\ journal # NoJournal /\ JournalSafe(journal)
        /\ home.auth >= journal.new /\ home.old[journal.tx] = Absent
    BY <1>1, <1>2 DEF HolderInStep, JournalInStep, HomeInStep, NotYetJournal, Waiting
  <1>6. journal \in Journal /\ home.auth # Absent
    <2>1. journal \in Journal
      BY <1>1, <1>5 DEF TypeOK
    <2>2. journal.new \in Nat \ {0}
      BY <2>1, ReauthAssumption DEF Journal, Cred
    <2> QED BY <1>5, <2>1, <2>2 DEF Absent
  <1> DEFINE h == [auth |-> home.auth, new |-> [home.new EXCEPT ![journal.tx] = Absent], old |-> home.old]
  <1>7. /\ h \in Home /\ h.auth = home.auth /\ h.old = home.old
        /\ MayBecome(h)
        /\ (h.auth # Absent => h.auth >= reported) /\ h.auth <= issued
        /\ ~raced => \A j \in onProfile : j # NoJournal => Resolves(h, j)
    BY <1>1, <1>5, <1>6, DropsNew
  <1>8. ChangeHome(h)
    <2>1. [home EXCEPT !.new[journal.tx] = Absent] = h
      BY <1>1, EditNew, Zenon
    <2>2. ChangeHome([home EXCEPT !.new[client[c].j.tx] = Absent])
      BY DEF DropNew
    <2> QED BY <1>5, <2>1, <2>2
  <1> HIDE DEF h
  <1>12. JournalInStep(client[lease])'
    BY <1>3, <1>4, <1>5 DEF JournalInStep, DropNew, SameJournal, JournalSafe, counters, Waiting, NotYetJournal
  <1>13. TransactionInStep(client[lease])'
    BY <1>1, <1>2, <1>3, <1>4 DEF HolderInStep, TransactionInStep, DropNew, counters
  <1>14. HomeInStep(client[lease])'
    BY <1>3, <1>4, <1>5, <1>7, <1>8 DEF HomeInStep, Cleaned, ChangeHome
  <1> QED BY <1>1, <1>4, <1>7, <1>8, <1>12, <1>13, <1>14, HomeStep DEF HolderInStep, DropNew

(* Nothing was hidden, since the old credential is still the live one.      *)
LEMMA RollbackInv ==
  ASSUME ReauthInv, NEW c \in Client, Rollback(c)
  PROVE  ReauthInv'
  <1> DEFINE k == [client[c] EXCEPT !.pc = "drop_staging"]
  <1>1. /\ client[c].pc \notin Waiting /\ TypeOK /\ LeaseInv /\ FilesInv /\ lease' = lease /\ child' = child
        /\ client[c].pc = "rollback" /\ home \in Home
    BY DEF Rollback, Waiting, ReauthInv, TypeOK
  <1>2. HolderInStep(client[c])
    BY <1>1, Holder
  <1>3. /\ k \in Command /\ k.pc = "drop_staging" /\ k.j = client[c].j /\ k.job = client[c].job
        /\ client' = [client EXCEPT ![c] = k]
    <2>1. Goto(c, "drop_staging") /\ "drop_staging" \in Pc
      BY DEF Rollback, Pc
    <2> QED BY <1>1, <2>1, GoesTo
  <1> HIDE DEF k
  <1>4. LeaseInv' /\ client' \in [Client -> Command] /\ client'[lease'] = k /\ lease' = c
    BY <1>1, <1>3, Goes DEF Waiting
  <1>5. /\ client[c].j = journal /\ journal # NoJournal /\ JournalSafe(journal)
        /\ home.auth = journal.old
    BY <1>1, <1>2 DEF HolderInStep, JournalInStep, NotYetJournal, Waiting, Rollback
  <1>6. journal \in Journal /\ journal.tx \in Tx /\ home \in onHome /\ home.auth # Absent
    BY <1>1, <1>5, JournalNotNone DEF TypeOK, FilesInv, PresentMayStay
  <1>61. NothingHidden
    BY <1>1, <1>5 DEF FilesInv, NothingHidden, HomeSafe, HiddenIsJournalled
  <1>62. home.old[journal.tx] = Absent
    BY <1>6, <1>61 DEF NothingHidden
  <1> DEFINE h == [auth |-> home.auth, new |-> [home.new EXCEPT ![journal.tx] = Absent], old |-> home.old]
  <1>7. /\ h \in Home /\ h.auth = home.auth /\ h.old = home.old
        /\ MayBecome(h)
        /\ (h.auth # Absent => h.auth >= reported) /\ h.auth <= issued
        /\ ~raced => \A j \in onProfile : j # NoJournal => Resolves(h, j)
    BY <1>1, <1>5, <1>6, <1>62, DropsNew
  <1>8. ChangeHome(h)
    <2>1. [home EXCEPT !.new[journal.tx] = Absent] = h
      BY <1>1, EditNew, Zenon
    <2>2. ChangeHome([home EXCEPT !.new[client[c].j.tx] = Absent])
      BY DEF Rollback
    <2> QED BY <1>5, <2>1, <2>2
  <1> HIDE DEF h
  <1>12. JournalInStep(client[lease])'
    BY <1>3, <1>4, <1>5 DEF JournalInStep, Rollback, SameJournal, JournalSafe, counters, Waiting, NotYetJournal
  <1>13. TransactionInStep(client[lease])'
    BY <1>1, <1>2, <1>3, <1>4 DEF HolderInStep, TransactionInStep, Rollback, counters
  <1>14. HomeInStep(client[lease])'
    <2>1. NothingHidden'
      BY <1>6, <1>61, <1>7, <1>8 DEF NothingHidden, ChangeHome
    <2>2. k.job # "commit"
      BY <1>1, <1>2, <1>3 DEF HolderInStep, TransactionInStep
    <2> QED BY <1>3, <1>4, <2>1, <2>2 DEF HomeInStep, Cleaned
  <1> QED BY <1>1, <1>4, <1>7, <1>8, <1>12, <1>13, <1>14, HomeStep DEF HolderInStep, Rollback

(* A provider runs with the lease, or with a dead command's, or it is an     *)
(* orphan: what the holder of the lease knows of the home allows for that.  *)
LEMMA RotateInv ==
  ASSUME ReauthInv, Rotate
  PROVE  ReauthInv'
  <1>1. TypeOK /\ LeaseInv /\ FilesInv /\ home \in Home /\ journal \in Journal \cup {NoJournal}
    BY DEF ReauthInv, TypeOK
  <1>2. /\ issued \in Nat /\ issued' = issued + 1 /\ issued + 1 \in Cred /\ reported \in Nat /\ reported <= issued
        /\ issued + 1 # Absent
    BY <1>1, ReauthAssumption DEF Rotate, TypeOK, Cred, ReauthInv, Absent
  <1> DEFINE h == [auth |-> issued + 1, new |-> home.new, old |-> home.old]
  <1>3. ChangeHome(h)
    <2>1. [home EXCEPT !.auth = issued + 1] = h
      BY <1>1, EditAuth
    <2> QED BY <2>1 DEF Rotate
  <1>4. h \in Home /\ h.auth = issued + 1 /\ h.old = home.old /\ h.new = home.new
    BY <1>1, <1>2 DEF Home, OptCred
  <1> HIDE DEF h
  <1>5. HomeSafe(home) /\ JournalSafe(journal)
    BY <1>1 DEF FilesInv, PresentMayStay
  <1>6. h.auth # journal.old
    <2>1. CASE journal = NoJournal
      BY <1>2, <1>4, <2>1 DEF NoJournal
    <2>2. CASE journal # NoJournal
      <3>1. journal.old \in Int /\ journal.new \in Int
        BY <1>1, <2>2, ReauthAssumption DEF Journal, Cred
      <3> QED BY <1>2, <1>4, <1>5, <2>2, <3>1 DEF JournalSafe
    <2> QED BY <2>1, <2>2
  <1>7. MayBecome(h)
    BY <1>2, <1>4, <1>5, <1>6 DEF MayBecome, HomeSafe, HiddenIsJournalled, GapIsJournalled, FutureIsClean
  <1>8. FilesInv'
    <2>1. ~raced' => ~raced /\ \A j \in onProfile : j # NoJournal => Resolves(h, j)
      BY DEF Rotate
    <2>2. /\ SameJournal /\ SameStaging /\ UNCHANGED <<reported, transactions>>
          /\ issued' \in Nat /\ issued' >= issued /\ h.auth >= reported /\ h.auth <= issued'
      BY <1>2, <1>4 DEF Rotate
    <2> QED BY <1>1, <1>3, <1>4, <1>7, <2>1, <2>2, HomeChanged
  <1>9. TypeOK'
    <2>1. raced' \in BOOLEAN /\ unleased' \subseteq Cred
      BY <1>1, <1>2 DEF TypeOK, Rotate
    <2> QED BY <1>1, <1>2, <1>3, <1>4, <2>1 DEF TypeOK, Rotate, ChangeHome, SameJournal, SameStaging
  <1>10. LeaseInv'
    BY <1>1 DEF LeaseInv, Rotate
  <1>11. ASSUME lease' # Nobody
         PROVE  HolderInStep(client[lease])'
    <2>1. PICK k : k = client[lease]
      OBVIOUS
    <2>2. /\ lease' = lease /\ client' = client /\ lease \in Client /\ k \in Command /\ HolderInStep(k)
          /\ client'[lease'] = k
      BY <1>1, <1>11, <2>1 DEF Rotate, TypeOK, ReauthInv
    <2>3. UNCHANGED <<journal, onProfile, transactions, reported>>
      BY DEF Rotate, SameJournal
    <2>4. JournalSafe(k.j) => JournalSafe(k.j)'
      <3>1. k.j = NoJournal \/ k.j.new \in Int
        BY <2>2, ReauthAssumption DEF Command, Journal, Cred
      <3> QED BY <1>2, <2>3, <3>1 DEF JournalSafe
    <2>5. JournalInStep(client[lease])'
      BY <2>2, <2>3, <2>4 DEF HolderInStep, JournalInStep
    <2>6. home' = h /\ onHome' = onHome \cup {h} /\ home \in onHome
      BY <1>1, <1>3 DEF ChangeHome, FilesInv, PresentMayStay
    <2>7. Untouched(k.tx) => Untouched(k.tx)'
      BY <1>4, <2>3, <2>6 DEF Untouched
    <2>8. TransactionInStep(client[lease])'
      BY <1>2, <1>4, <2>2, <2>3, <2>6, <2>7 DEF HolderInStep, TransactionInStep
    <2>9. k.pc \in {"hide", "show"} => raced' /\ home'.auth \in unleased'
      <3>1. SUFFICES ASSUME k.pc \in {"hide", "show"}
                     PROVE  raced' /\ home'.auth \in unleased'
        OBVIOUS
      <3>2. journal # NoJournal /\ journal \in onProfile
        BY <1>1, <2>2, <3>1 DEF HolderInStep, JournalInStep, Waiting, NotYetJournal, FilesInv, PresentMayStay
      <3>3. unleased' = unleased \cup {issued + 1}
        BY <1>1, <1>11, <2>1, <2>2, <3>1 DEF Rotate, LeaseInv
      <3> QED BY <1>4, <2>6, <3>2, <3>3 DEF Rotate
    <2>10. k.j # NoJournal /\ JournalSafe(k.j) => h.auth >= k.j.new
      <3>1. k.j = NoJournal \/ k.j.new \in Int
        BY <2>2, ReauthAssumption DEF Command, Journal, Cred
      <3> QED BY <1>2, <1>4, <3>1 DEF JournalSafe
    <2>11. k.pc \notin Waiting \cup NotYetJournal => h.auth >= k.j.new
      BY <2>2, <2>10 DEF HolderInStep, JournalInStep
    <2>12. NothingHidden => NothingHidden'
      BY <1>4, <2>6 DEF NothingHidden
    <2>13. HomeInStep(client[lease])'
      BY <1>2, <1>4, <2>2, <2>6, <2>9, <2>11, <2>12
         DEF HolderInStep, HomeInStep, LiveIs, Waiting, NotYetJournal, Cleaned
    <2> QED BY <2>5, <2>8, <2>13 DEF HolderInStep
  <1>12. reported' <= issued'
    BY <1>2 DEF Rotate
  <1> QED BY <1>8, <1>9, <1>10, <1>11, <1>12 DEF ReauthInv

------------------------------------------------------------------------------
(* The home is synced *)

LEMMA SyncCandidateInv ==
  ASSUME ReauthInv, NEW c \in Client, SyncCandidate(c)
  PROVE  ReauthInv'
  <1> DEFINE k == [client[c] EXCEPT !.pc = "check"]
  <1>1. /\ client[c].pc \notin Waiting /\ TypeOK /\ LeaseInv /\ FilesInv /\ lease' = lease /\ child' = child
        /\ client[c].pc = "sync_place" /\ SyncHome /\ SameJournal /\ SameStaging /\ UNCHANGED counters
    BY DEF SyncCandidate, Waiting, ReauthInv
  <1>2. HolderInStep(client[c])
    BY <1>1, Holder
  <1>3. /\ k \in Command /\ k.pc = "check" /\ k.j = client[c].j /\ k.job = client[c].job
        /\ client' = [client EXCEPT ![c] = k]
    <2>1. Goto(c, "check") /\ "check" \in Pc
      BY DEF SyncCandidate, Pc
    <2> QED BY <1>1, <2>1, GoesTo
  <1> HIDE DEF k
  <1>4. LeaseInv' /\ client' \in [Client -> Command] /\ client'[lease'] = k /\ lease' = c
    BY <1>1, <1>3, Goes DEF Waiting
  <1>5. FilesInv'
    BY <1>1, HomeSynced DEF counters
  <1>6. TypeOK'
    BY <1>1, <1>4 DEF TypeOK, SyncHome, SameJournal, SameStaging, counters, faults
  <1>7. JournalInStep(client[lease])'
    BY <1>1, <1>2, <1>3, <1>4 DEF HolderInStep, JournalInStep, SameJournal, JournalSafe, counters, Waiting, NotYetJournal
  <1>8. TransactionInStep(client[lease])'
    BY <1>1, <1>2, <1>3, <1>4 DEF HolderInStep, TransactionInStep, counters
  <1>9. HomeInStep(client[lease])'
    BY <1>1, <1>2, <1>3, <1>4 DEF HolderInStep, HomeInStep, Cleaned, SyncHome
  <1>10. reported' <= issued'
    BY <1>1 DEF ReauthInv, counters
  <1> QED BY <1>4, <1>5, <1>6, <1>7, <1>8, <1>9, <1>10 DEF ReauthInv, HolderInStep

LEMMA SyncNewInv ==
  ASSUME ReauthInv, NEW c \in Client, SyncNew(c)
  PROVE  ReauthInv'
  <1> DEFINE k == [client[c] EXCEPT !.pc = "drop_old"]
  <1>1. /\ client[c].pc \notin Waiting /\ TypeOK /\ LeaseInv /\ FilesInv /\ lease' = lease /\ child' = child
        /\ client[c].pc = "sync_show" /\ SyncHome /\ SameJournal /\ SameStaging /\ UNCHANGED counters
    BY DEF SyncNew, Waiting, ReauthInv
  <1>2. HolderInStep(client[c])
    BY <1>1, Holder
  <1>3. /\ k \in Command /\ k.pc = "drop_old" /\ k.j = client[c].j /\ k.job = client[c].job
        /\ client' = [client EXCEPT ![c] = k]
    <2>1. Goto(c, "drop_old") /\ "drop_old" \in Pc
      BY DEF SyncNew, Pc
    <2> QED BY <1>1, <2>1, GoesTo
  <1> HIDE DEF k
  <1>4. LeaseInv' /\ client' \in [Client -> Command] /\ client'[lease'] = k /\ lease' = c
    BY <1>1, <1>3, Goes DEF Waiting
  <1>5. FilesInv'
    BY <1>1, HomeSynced DEF counters
  <1>6. TypeOK'
    BY <1>1, <1>4 DEF TypeOK, SyncHome, SameJournal, SameStaging, counters, faults
  <1>7. JournalInStep(client[lease])'
    BY <1>1, <1>2, <1>3, <1>4 DEF HolderInStep, JournalInStep, SameJournal, JournalSafe, counters, Waiting, NotYetJournal
  <1>8. TransactionInStep(client[lease])'
    BY <1>1, <1>2, <1>3, <1>4 DEF HolderInStep, TransactionInStep, counters
  <1>9. HomeInStep(client[lease])'
    BY <1>1, <1>2, <1>3, <1>4 DEF HolderInStep, HomeInStep, Cleaned, SyncHome
  <1>10. reported' <= issued'
    BY <1>1 DEF ReauthInv, counters
  <1> QED BY <1>4, <1>5, <1>6, <1>7, <1>8, <1>9, <1>10 DEF ReauthInv, HolderInStep

(* From here on no power loss brings the old credential back.               *)
LEMMA SyncDropInv ==
  ASSUME ReauthInv, NEW c \in Client, SyncDrop(c)
  PROVE  ReauthInv'
  <1> DEFINE k == [client[c] EXCEPT !.pc = "drop_staging"]
  <1>1. /\ client[c].pc \notin Waiting /\ TypeOK /\ LeaseInv /\ FilesInv /\ lease' = lease /\ child' = child
        /\ client[c].pc = "sync_drop" /\ SyncHome /\ SameJournal /\ SameStaging /\ UNCHANGED counters
    BY DEF SyncDrop, Waiting, ReauthInv
  <1>2. HolderInStep(client[c])
    BY <1>1, Holder
  <1>3. /\ k \in Command /\ k.pc = "drop_staging" /\ k.j = client[c].j /\ k.job = client[c].job
        /\ client' = [client EXCEPT ![c] = k]
    <2>1. Goto(c, "drop_staging") /\ "drop_staging" \in Pc
      BY DEF SyncDrop, Pc
    <2> QED BY <1>1, <2>1, GoesTo
  <1> HIDE DEF k
  <1>4. LeaseInv' /\ client' \in [Client -> Command] /\ client'[lease'] = k /\ lease' = c
    BY <1>1, <1>3, Goes DEF Waiting
  <1>5. FilesInv'
    BY <1>1, HomeSynced DEF counters
  <1>6. TypeOK'
    BY <1>1, <1>4 DEF TypeOK, SyncHome, SameJournal, SameStaging, counters, faults
  <1>7. JournalInStep(client[lease])'
    BY <1>1, <1>2, <1>3, <1>4 DEF HolderInStep, JournalInStep, SameJournal, JournalSafe, counters, Waiting, NotYetJournal
  <1>8. TransactionInStep(client[lease])'
    BY <1>1, <1>2, <1>3, <1>4 DEF HolderInStep, TransactionInStep, counters
  <1>9. HomeInStep(client[lease])'
    <2>1. /\ client[c].j = journal /\ journal # NoJournal /\ home.auth >= client[c].j.new
          /\ home.old[journal.tx] = Absent
      BY <1>1, <1>2 DEF HolderInStep, JournalInStep, HomeInStep, Waiting, NotYetJournal
    <2>2. home \in onHome /\ HomeSafe(home)
      BY <1>1 DEF FilesInv, PresentMayStay
    <2>3. \A t \in Tx : home.old[t] = Absent
      BY <2>1, <2>2 DEF HomeSafe, HiddenIsJournalled
    <2>4. onHome' = {home} /\ home' = home
      BY <1>1 DEF SyncHome
    <2>5. NothingHidden'
      BY <2>3, <2>4 DEF NothingHidden
    <2> QED BY <1>3, <1>4, <2>1, <2>4, <2>5 DEF HomeInStep, Cleaned
  <1>10. reported' <= issued'
    BY <1>1 DEF ReauthInv, counters
  <1> QED BY <1>4, <1>5, <1>6, <1>7, <1>8, <1>9, <1>10 DEF ReauthInv, HolderInStep

------------------------------------------------------------------------------
(* The journal changes *)

(* The new journal names a transaction that has left nothing, and the live  *)
(* credential every power loss leaves, unless a rotation was not durable.   *)
LEMMA PublishJournalInv ==
  ASSUME ReauthInv, NEW c \in Client, PublishJournal(c)
  PROVE  ReauthInv'
  <1> DEFINE k == [client[c] EXCEPT !.pc = "sync_journal"]
  <1>1. /\ client[c].pc \notin Waiting /\ TypeOK /\ LeaseInv /\ FilesInv /\ lease' = lease /\ child' = child
        /\ client[c].pc = "publish" /\ client[c] \in Command /\ journal = NoJournal
        /\ SameHome /\ SameStaging /\ UNCHANGED <<transactions, issued, reported, faults>>
    BY DEF PublishJournal, Waiting, ReauthInv, TypeOK
  <1>2. HolderInStep(client[c])
    BY <1>1, Holder
  <1>3. /\ k \in Command /\ k.pc = "sync_journal" /\ k.j = client[c].j /\ k.job = client[c].job
        /\ client' = [client EXCEPT ![c] = k]
    <2>1. Goto(c, "sync_journal") /\ "sync_journal" \in Pc
      BY DEF PublishJournal, Pc
    <2> QED BY <1>1, <2>1, GoesTo
  <1> HIDE DEF k
  <1>4. LeaseInv' /\ client' \in [Client -> Command] /\ client'[lease'] = k /\ lease' = c
    BY <1>1, <1>3, Goes DEF Waiting
  <1>5. PICK j : j = client[c].j
    OBVIOUS
  <1>6. /\ j # NoJournal /\ JournalSafe(j) /\ Untouched(j.tx)
    BY <1>1, <1>2, <1>5 DEF HolderInStep, JournalInStep, TransactionInStep, Waiting, NotYetJournal
  <1>7. j \in Journal /\ j.tx \in Tx
    BY <1>1, <1>5, <1>6, JournalNotNone DEF Command
  <1>8. journal' = j /\ onProfile' = onProfile \cup {j}
    BY <1>5 DEF PublishJournal, ChangeJournal
  <1>9. raced' = (raced \/ \E h \in onHome : h.auth # j.old)
    BY <1>5 DEF PublishJournal
  <1>10. ASSUME NEW h \in onHome
         PROVE  (\A t \in Tx : h.old[t] = Absent) /\ h.auth # Absent /\ HomeSafe(h)
    BY <1>1, <1>10 DEF FilesInv, HomeSafe, HiddenIsJournalled, GapIsJournalled
  <1>11. FilesInv'
    <2>1. PresentMayStay'
      BY <1>1, <1>8 DEF FilesInv, PresentMayStay, SameHome, SameStaging
    <2>2. ASSUME NEW h \in onHome'
          PROVE  HomeSafe(h)'
      <3>1. h \in onHome
        BY <1>1, <2>2 DEF SameHome
      <3> QED BY <1>1, <1>10, <3>1 DEF HomeSafe, HiddenIsJournalled, GapIsJournalled, AuthInRange, FutureIsClean
    <2>3. ASSUME NEW i \in onProfile'
          PROVE  JournalSafe(i)'
      BY <1>1, <1>6, <1>8, <2>3 DEF FilesInv, JournalSafe
    <2>4. OneJournalPerTx'
      BY <1>1, <1>6, <1>8 DEF FilesInv, OneJournalPerTx, Untouched
    <2>5. AllResolve'
      <3>1. SUFFICES ASSUME ~raced', NEW h \in onHome', NEW i \in onProfile', i # NoJournal
                     PROVE  Resolves(h, i)
        BY DEF AllResolve, Resolves
      <3>2. h \in onHome /\ ~raced /\ h.auth = j.old
        BY <1>1, <1>9, <3>1 DEF SameHome
      <3>3. CASE i = j
        BY <1>6, <3>2, <3>3 DEF Untouched, Resolves
      <3>4. CASE i # j
        BY <1>1, <1>8, <3>1, <3>2, <3>4 DEF FilesInv, AllResolve
      <3> QED BY <3>3, <3>4
    <2> QED BY <2>1, <2>2, <2>3, <2>4, <2>5 DEF FilesInv
  <1>12. TypeOK'
    <2>1. raced' \in BOOLEAN
      BY <1>9
    <2> QED BY <1>1, <1>4, <1>7, <1>8, <2>1 DEF TypeOK, SameHome, SameStaging, faults
  <1>13. JournalInStep(client[lease])'
    BY <1>1, <1>3, <1>4, <1>5, <1>6, <1>8 DEF JournalInStep, JournalSafe, Waiting, NotYetJournal
  <1>14. TransactionInStep(client[lease])'
    BY <1>1, <1>2, <1>3, <1>4 DEF HolderInStep, TransactionInStep
  <1>15. HomeInStep(client[lease])'
    BY <1>3, <1>4 DEF HomeInStep, Cleaned
  <1>16. reported' <= issued'
    BY <1>1 DEF ReauthInv
  <1> QED BY <1>4, <1>11, <1>12, <1>13, <1>14, <1>15, <1>16 DEF ReauthInv, HolderInStep

LEMMA SyncJournalInv ==
  ASSUME ReauthInv, NEW c \in Client, SyncJournal(c)
  PROVE  ReauthInv'
  <1> DEFINE k == [client[c] EXCEPT !.pc = "place"]
  <1>1. /\ client[c].pc \notin Waiting /\ TypeOK /\ LeaseInv /\ FilesInv /\ lease' = lease /\ child' = child
        /\ client[c].pc = "sync_journal" /\ SyncProfile /\ SameHome /\ SameStaging /\ UNCHANGED counters
    BY DEF SyncJournal, Waiting, ReauthInv
  <1>2. HolderInStep(client[c])
    BY <1>1, Holder
  <1>3. /\ k \in Command /\ k.pc = "place" /\ k.j = client[c].j /\ k.job = client[c].job
        /\ client' = [client EXCEPT ![c] = k]
    <2>1. Goto(c, "place") /\ "place" \in Pc
      BY DEF SyncJournal, Pc
    <2> QED BY <1>1, <2>1, GoesTo
  <1> HIDE DEF k
  <1>4. LeaseInv' /\ client' \in [Client -> Command] /\ client'[lease'] = k /\ lease' = c
    BY <1>1, <1>3, Goes DEF Waiting
  <1>5. FilesInv'
    BY <1>1, ProfileSynced DEF counters
  <1>6. TypeOK'
    BY <1>1, <1>4 DEF TypeOK, SyncProfile, SameHome, SameStaging, counters, faults
  <1>7. JournalInStep(client[lease])'
    BY <1>1, <1>2, <1>3, <1>4 DEF HolderInStep, JournalInStep, SyncProfile, JournalSafe, counters, Waiting, NotYetJournal
  <1>8. TransactionInStep(client[lease])'
    BY <1>1, <1>2, <1>3, <1>4 DEF HolderInStep, TransactionInStep, counters
  <1>9. HomeInStep(client[lease])'
    BY <1>3, <1>4 DEF HomeInStep, Cleaned
  <1>10. reported' <= issued'
    BY <1>1 DEF ReauthInv, counters
  <1> QED BY <1>4, <1>5, <1>6, <1>7, <1>8, <1>9, <1>10 DEF ReauthInv, HolderInStep

(* The journal goes when no power loss can leave a hidden credential.       *)
LEMMA DropJournalInv ==
  ASSUME ReauthInv, NEW c \in Client, DropJournal(c)
  PROVE  ReauthInv'
  <1> DEFINE k == [client[c] EXCEPT !.pc = "sync_end"]
  <1>1. /\ client[c].pc \notin Waiting /\ TypeOK /\ LeaseInv /\ FilesInv /\ lease' = lease /\ child' = child
        /\ client[c].pc = "drop_journal" /\ journal' = NoJournal /\ onProfile' = onProfile \cup {NoJournal}
        /\ SameHome /\ SameStaging /\ UNCHANGED counters
    BY DEF DropJournal, ChangeJournal, Waiting, ReauthInv
  <1>2. HolderInStep(client[c])
    BY <1>1, Holder
  <1>3. /\ k \in Command /\ k.pc = "sync_end" /\ k.j = client[c].j /\ k.job = client[c].job
        /\ client' = [client EXCEPT ![c] = k]
    <2>1. Goto(c, "sync_end") /\ "sync_end" \in Pc
      BY DEF DropJournal, Pc
    <2> QED BY <1>1, <2>1, GoesTo
  <1> HIDE DEF k
  <1>4. LeaseInv' /\ client' \in [Client -> Command] /\ client'[lease'] = k /\ lease' = c
    BY <1>1, <1>3, Goes DEF Waiting
  <1>5. NothingHidden /\ journal # NoJournal /\ journal \in Journal
    BY <1>1, <1>2 DEF HolderInStep, HomeInStep, JournalInStep, Cleaned, Waiting, NotYetJournal, TypeOK
  <1>6. ASSUME NEW h \in onHome
        PROVE  h.auth # Absent
    BY <1>1, <1>5, <1>6, JournalNotNone DEF FilesInv, HomeSafe, GapIsJournalled, NothingHidden
  <1>7. FilesInv'
    <2>1. PresentMayStay'
      BY <1>1 DEF FilesInv, PresentMayStay, SameHome, SameStaging
    <2>2. ASSUME NEW h \in onHome'
          PROVE  HomeSafe(h)'
      <3>1. h \in onHome /\ HomeSafe(h)
        BY <1>1, <2>2 DEF SameHome, FilesInv
      <3>2. HiddenIsJournalled(h)' /\ GapIsJournalled(h)'
        BY <1>5, <1>6, <3>1 DEF HiddenIsJournalled, GapIsJournalled, NothingHidden
      <3>3. AuthInRange(h)' /\ FutureIsClean(h)'
        BY <1>1, <3>1 DEF HomeSafe, AuthInRange, FutureIsClean, counters
      <3> QED BY <3>2, <3>3 DEF HomeSafe
    <2>3. ASSUME NEW i \in onProfile'
          PROVE  JournalSafe(i)'
      BY <1>1, <2>3 DEF FilesInv, JournalSafe, counters
    <2>4. OneJournalPerTx'
      BY <1>1 DEF FilesInv, OneJournalPerTx
    <2>5. AllResolve'
      BY <1>1 DEF FilesInv, AllResolve, SameHome, counters
    <2> QED BY <2>1, <2>2, <2>3, <2>4, <2>5 DEF FilesInv
  <1>8. TypeOK'
    BY <1>1, <1>4 DEF TypeOK, SameHome, SameStaging, counters, faults
  <1>9. JournalInStep(client[lease])'
    BY <1>1, <1>2, <1>3, <1>4 DEF HolderInStep, JournalInStep, JournalSafe, counters, Waiting, NotYetJournal
  <1>10. TransactionInStep(client[lease])'
    BY <1>1, <1>2, <1>3, <1>4 DEF HolderInStep, TransactionInStep, counters
  <1>11. HomeInStep(client[lease])'
    BY <1>1, <1>2, <1>3, <1>4 DEF HolderInStep, HomeInStep, Cleaned, NothingHidden, SameHome
  <1>12. reported' <= issued'
    BY <1>1 DEF ReauthInv, counters
  <1> QED BY <1>4, <1>7, <1>8, <1>9, <1>10, <1>11, <1>12 DEF ReauthInv, HolderInStep

(* A commit is reported when its credential is all that can be left.        *)
LEMMA SyncEndInv ==
  ASSUME ReauthInv, NEW c \in Client, SyncEnd(c)
  PROVE  ReauthInv'
  <1>1. /\ client[c].pc \notin Waiting /\ TypeOK /\ LeaseInv /\ FilesInv /\ child' = child /\ Done(c)
        /\ client[c].pc = "sync_end" /\ client[c] \in Command
        /\ SyncProfile /\ SameHome /\ SameStaging /\ UNCHANGED <<transactions, issued, raced, faults>>
    BY DEF SyncEnd, Waiting, ReauthInv, TypeOK
  <1>2. HolderInStep(client[c])
    BY <1>1, Holder
  <1>3. /\ LeaseInv'
        /\ client' \in [Client -> Command]
        /\ lease' \in Client \cup {Nobody}
        /\ lease' # Nobody =>
              /\ client[c].job = "begin"
              /\ client'[lease'].pc = "create"
              /\ client'[lease'].j = NoJournal
              /\ client'[lease'].job = "none"
    BY <1>1, Dones
  <1>4. /\ journal = NoJournal /\ NothingHidden /\ JournalSafe(client[c].j) /\ client[c].j \in Journal
        /\ client[c].job = "commit" => \A h \in onHome : h.auth >= client[c].j.new
    BY <1>1, <1>2 DEF HolderInStep, HomeInStep, JournalInStep, Cleaned, Waiting, NotYetJournal, Command
  <1>5. /\ reported' = IF client[c].job = "commit" THEN client[c].j.new ELSE reported
        /\ reported' \in Cred /\ reported' <= issued
    BY <1>1, <1>4, JournalNotNone DEF Done, TypeOK, JournalSafe, ReauthInv
  <1>6. journal' = NoJournal /\ onProfile' = {NoJournal}
    BY <1>1, <1>4 DEF SyncProfile
  <1>7. FilesInv'
    <2>1. PresentMayStay'
      BY <1>1, <1>6 DEF FilesInv, PresentMayStay, SameHome, SameStaging
    <2>2. ASSUME NEW h \in onHome'
          PROVE  HomeSafe(h)'
      <3>1. h \in onHome /\ HomeSafe(h) /\ h \in Home
        BY <1>1, <2>2 DEF SameHome, FilesInv, TypeOK
      <3>2. HiddenIsJournalled(h)' /\ GapIsJournalled(h)'
        BY <1>4, <3>1 DEF HomeSafe, HiddenIsJournalled, GapIsJournalled, NothingHidden
      <3>3. h.auth \in Int
        BY <3>1, ReauthAssumption DEF Home, OptCred, Cred, Absent
      <3>4. AuthInRange(h)' /\ FutureIsClean(h)'
        BY <1>1, <1>4, <1>5, <3>1, <3>3 DEF HomeSafe, AuthInRange, FutureIsClean
      <3> QED BY <3>2, <3>4 DEF HomeSafe
    <2>3. ASSUME NEW i \in onProfile'
          PROVE  JournalSafe(i)'
      BY <1>6, <2>3 DEF JournalSafe
    <2>4. OneJournalPerTx' /\ AllResolve'
      BY <1>6 DEF OneJournalPerTx, AllResolve
    <2> QED BY <2>1, <2>2, <2>3, <2>4 DEF FilesInv
  <1>8. TypeOK'
    BY <1>1, <1>3, <1>5, <1>6 DEF TypeOK, SameHome, SameStaging, faults
  <1>9. ASSUME lease' # Nobody
        PROVE  HolderInStep(client[lease])'
    <2>1. transactions' < MaxTx
      BY <1>1, <1>2, <1>3, <1>9 DEF HolderInStep, TransactionInStep
    <2> QED BY <1>3, <1>9, <2>1 DEF HolderInStep, JournalInStep, TransactionInStep, HomeInStep, NotYetJournal,
                                    Waiting, Cleaned
  <1> QED BY <1>1, <1>3, <1>5, <1>7, <1>8, <1>9 DEF ReauthInv

(* Whatever is left, it was safe with whatever else was left.               *)
LEMMA PowerLossInv ==
  ASSUME ReauthInv, PowerLoss
  PROVE  ReauthInv'
  <1>1. /\ TypeOK /\ FilesInv /\ UNCHANGED <<transactions, issued, reported, raced, kills, unleased>>
        /\ orphan' = FALSE /\ home' \in onHome /\ onHome' = {home'}
        /\ journal' \in onProfile /\ onProfile' = {journal'}
        /\ staging' \in onRoot /\ onRoot' = {staging'}
        /\ lease' = Nobody /\ child' = "none" /\ client' = [c \in Client |-> Idle]
    BY DEF PowerLoss, ReauthInv
  <1>2. TypeOK'
    <2>1. powerLosses' \in 0..MaxPowerLoss
      BY <1>1, ReauthAssumption DEF TypeOK, PowerLoss
    <2>2. client' \in [Client -> Command] /\ orphan' \in BOOLEAN
      BY <1>1, IdleTyped
    <2> QED BY <1>1, <2>1, <2>2 DEF TypeOK
  <1>3. LeaseInv'
    BY <1>1, IdleTyped, ReauthAssumption DEF LeaseInv, Waiting
  <1>4. FilesInv'
    <2>1. PresentMayStay'
      BY <1>1 DEF PresentMayStay
    <2>2. PICK h : h = home'
      OBVIOUS
    <2>3. h \in onHome /\ HomeSafe(h)
      BY <1>1, <2>2 DEF FilesInv
    <2>4. HiddenIsJournalled(h)'
      BY <1>1, <2>2, <2>3 DEF HomeSafe, HiddenIsJournalled
    <2>5. GapIsJournalled(h)'
      <3>1. SUFFICES ASSUME h.auth = Absent
                     PROVE  /\ journal' # NoJournal
                            /\ h.old[journal'.tx] # Absent
                            /\ h.old[journal'.tx] = journal'.old \/ raced'
                            /\ h.new[journal'.tx] = journal'.new
        BY DEF GapIsJournalled
      <3>2. /\ journal # NoJournal /\ h.old[journal.tx] # Absent
            /\ h.old[journal.tx] = journal.old \/ raced
            /\ h.new[journal.tx] = journal.new
        BY <2>3, <3>1 DEF HomeSafe, GapIsJournalled
      <3>3. journal.tx \in Tx /\ journal.old # Absent
        BY <1>1, <3>2, JournalNotNone DEF TypeOK
      <3>4. journal' = journal
        BY <1>1, <2>3, <3>2, <3>3 DEF HomeSafe, HiddenIsJournalled
      <3> QED BY <1>1, <3>2, <3>4
    <2>6. AuthInRange(h)' /\ FutureIsClean(h)'
      BY <1>1, <2>3 DEF HomeSafe, AuthInRange, FutureIsClean
    <2>7. (\A g \in onHome : HomeSafe(g))'
      BY <1>1, <2>2, <2>4, <2>5, <2>6 DEF HomeSafe
    <2>8. ASSUME NEW j \in onProfile'
          PROVE  JournalSafe(j)'
      BY <1>1, <2>8 DEF FilesInv, JournalSafe
    <2>9. OneJournalPerTx' /\ AllResolve'
      BY <1>1 DEF FilesInv, OneJournalPerTx, AllResolve
    <2> QED BY <2>1, <2>7, <2>8, <2>9 DEF FilesInv
  <1> QED BY <1>1, <1>2, <1>3, <1>4 DEF ReauthInv

------------------------------------------------------------------------------
(* Theorems *)

LEMMA ReauthInitInv == Init => ReauthInv
  <1> SUFFICES ASSUME Init PROVE ReauthInv
    OBVIOUS
  <1>1. /\ home \in Home /\ home.auth = 1
        /\ \A t \in Tx : home.new[t] = Absent /\ home.old[t] = Absent
    BY ReauthAssumption DEF Init, Home, OptCred, Cred, Absent
  <1>2. /\ onHome = {home} /\ journal = NoJournal /\ onProfile = {NoJournal} /\ onRoot = {staging}
        /\ staging = {} /\ lease = Nobody /\ child = "none" /\ client = [c \in Client |-> Idle]
        /\ transactions = 0 /\ issued = 1 /\ reported = 1 /\ raced = FALSE /\ kills = 0 /\ powerLosses = 0
        /\ orphan = FALSE /\ unleased = {}
    BY DEF Init
  <1>3. TypeOK
    <2>1. 1 \in Cred /\ 0 \in 0..MaxTx /\ 0 \in 0..MaxKills /\ 0 \in 0..MaxPowerLoss
      BY ReauthAssumption DEF Cred
    <2>2. client \in [Client -> Command]
      BY <1>2, IdleTyped
    <2> QED BY <1>1, <1>2, <2>1, <2>2 DEF TypeOK
  <1>4. HomeSafe(home)
    BY <1>1, <1>2 DEF HomeSafe, HiddenIsJournalled, GapIsJournalled, AuthInRange, FutureIsClean, Absent
  <1>5. FilesInv
    BY <1>2, <1>4 DEF FilesInv, PresentMayStay, JournalSafe, OneJournalPerTx, AllResolve
  <1>6. LeaseInv
    BY <1>2, IdleTyped, ReauthAssumption DEF LeaseInv, Waiting
  <1> QED BY <1>2, <1>3, <1>5, <1>6 DEF ReauthInv

LEMMA ReauthStepInv == ReauthInv /\ [Next]_vars => ReauthInv'
  <1> SUFFICES ASSUME ReauthInv, [Next]_vars PROVE ReauthInv'
    OBVIOUS
  <1>1. ASSUME NEW c \in Client, Recovery(c) PROVE ReauthInv'
    BY <1>1, PreflightInv, LockForRecoveryInv, BusyInv, LockForReauthInv, LockForRunInv,
       RecoverOrphansInv, RecoverFinishInv, RecoverRollbackInv, RecoverCompleteInv,
       RecoveryRequiredInv, SyncOrphansInv DEF Recovery
  <1>2. ASSUME NEW c \in Client, Transaction(c) PROVE ReauthInv'
    BY <1>2, CreateStagingInv, LoginInv, AbandonInv, PublishJournalInv, SyncJournalInv,
       PlaceCandidateInv, SyncCandidateInv, CheckOldInv, HideOldInv, ShowNewInv, VerifyNewInv,
       SyncNewInv DEF Transaction
  <1>3. ASSUME NEW c \in Client, Cleanup(c) PROVE ReauthInv'
    BY <1>3, DropOldInv, DropNewInv, SyncDropInv, RollbackInv, DropStagingInv, SyncDroppedInv,
       DropJournalInv, SyncEndInv, RefuseInv, EndRunInv DEF Cleanup
  <1>4. CASE UNCHANGED vars
    <2>1. TypeOK'
      BY <1>4 DEF ReauthInv, TypeOK, vars, files, faults
    <2>2. LeaseInv'
      BY <1>4 DEF ReauthInv, LeaseInv, vars, files, faults
    <2> QED BY <1>4, <2>1, <2>2, QuietStep DEF ReauthInv, TypeOK, vars, files, faults
  <1> QED BY <1>1, <1>2, <1>3, <1>4, KillInv, RotateInv, ChildExitInv, OrphanExitInv, PowerLossInv DEF Next, Step

(* Every behaviour of reauthentication, its recovery and the provider keeps *)
(* the inductive invariant.                                                 *)
THEOREM ReauthInvariant == Spec => []ReauthInv
  BY ReauthInitInv, ReauthStepInv, PTL DEF Spec

(* Files, lease, commands and counters keep their types.                    *)
THEOREM ReauthTypeCorrect == Spec => []TypeOK
  <1>1. ReauthInv => TypeOK
    BY DEF ReauthInv
  <1> QED BY <1>1, ReauthInvariant, PTL

(* What the files amount to, in any mix a power loss may leave.             *)
LEMMA EffectiveIs ==
  ASSUME ReauthInv, NEW h \in onHome, NEW j \in onProfile
  PROVE  /\ Effective(h, j) # Absent
         /\ Effective(h, j) \in Int
         /\ reported <= Effective(h, j)
         /\ Effective(h, j) <= issued
         /\ Effective(h, j) = IF h.auth # Absent THEN h.auth ELSE journal.new
  <1>1. TypeOK /\ FilesInv /\ h \in Home /\ HomeSafe(h)
    BY DEF ReauthInv, TypeOK, FilesInv
  <1>2. CASE h.auth # Absent
    <2>1. h.auth \in Int
      BY <1>1, ReauthAssumption DEF Home, OptCred, Cred, Absent
    <2> QED BY <1>1, <1>2, <2>1, ReauthAssumption DEF Effective, HomeSafe, AuthInRange, TypeOK, Cred
  <1>3. CASE h.auth = Absent
    <2>1. journal # NoJournal /\ h.old[journal.tx] # Absent /\ h.new[journal.tx] = journal.new
      BY <1>1, <1>3 DEF HomeSafe, GapIsJournalled
    <2>2. journal \in Journal /\ journal.tx \in Tx /\ journal.old # Absent /\ journal.new # Absent
      BY <1>1, <2>1, JournalNotNone DEF TypeOK
    <2>3. j = journal
      BY <1>1, <2>1, <2>2 DEF HomeSafe, HiddenIsJournalled
    <2>4. Effective(h, j) = journal.new
      BY <1>3, <2>1, <2>3 DEF Effective
    <2>5. journal.new \in Int /\ reported \in Int
      BY <1>1, <2>2, ReauthAssumption DEF Journal, Cred, TypeOK
    <2>6. reported <= journal.new /\ journal.new <= issued
      BY <1>1, <2>1, <2>3, <2>5 DEF FilesInv, JournalSafe
    <2> QED BY <1>3, <2>2, <2>4, <2>5, <2>6
  <1> QED BY <1>2, <1>3

(* Whatever a power loss leaves, at any point of a replacement or of its    *)
(* recovery, the profile still has a credential.                            *)
THEOREM CredentialKept == Spec => []CredentialNeverLost
  <1>1. ReauthInv => CredentialNeverLost
    BY EffectiveIs DEF CredentialNeverLost
  <1> QED BY <1>1, ReauthInvariant, PTL

(* A replacement that was reported is never undone.                         *)
THEOREM ReportedKept == Spec => []ReportedIsDurable
  <1>1. ReauthInv => ReportedIsDurable
    <2>1. ASSUME ReauthInv, NEW h \in onHome, NEW j \in onProfile
          PROVE  Effective(h, j) >= reported
      <3>1. reported \in Int
        BY <2>1, ReauthAssumption DEF ReauthInv, TypeOK, Cred
      <3>2. Effective(h, j) \in Int /\ reported <= Effective(h, j)
        BY <2>1, EffectiveIs
      <3> QED BY <3>1, <3>2
    <2> QED BY <2>1 DEF ReportedIsDurable
  <1> QED BY <1>1, ReauthInvariant, PTL

(* Recovery refuses only what a provider's rotation made of a journal.      *)
THEOREM RefusalsExplained == Spec => []RefusesOnlyRotation
  <1>1. ReauthInv => RefusesOnlyRotation
    <2>1. ASSUME ReauthInv, NEW h \in onHome, NEW j \in onProfile, j # NoJournal, Outcome(h, j) = "required"
          PROVE  raced
      <3>1. h \in Home /\ j \in Journal
        BY <2>1 DEF ReauthInv, TypeOK
      <3>2. ~Resolves(h, j)
        BY <2>1, <3>1, OutcomeTable
      <3> QED BY <2>1, <3>2 DEF ReauthInv, FilesInv, AllResolve
    <2> QED BY <2>1 DEF RefusesOnlyRotation
  <1> QED BY <1>1, ReauthInvariant, PTL

(* No power loss leaves a hidden old credential without its journal.        *)
THEOREM OldKeptWithJournal == Spec => []OldNeverStrays
  <1>1. ReauthInv => OldNeverStrays
    BY DEF ReauthInv, FilesInv, HomeSafe, HiddenIsJournalled, OldNeverStrays
  <1> QED BY <1>1, ReauthInvariant, PTL

(* The credential the profile amounts to now.                               *)
Standing == IF home.auth # Absent THEN home.auth ELSE journal.new

StandingIs ==
  /\ Effective(home, journal) = Standing
  /\ Standing \in Int /\ Standing <= issued
  /\ home.auth = Absent => journal # NoJournal /\ home.new[journal.tx] = journal.new

LEMMA EffectiveNow == ReauthInv => StandingIs
  <1> SUFFICES ASSUME ReauthInv PROVE StandingIs
    OBVIOUS
  <1>1. home \in onHome /\ journal \in onProfile /\ HomeSafe(home)
    BY DEF ReauthInv, FilesInv, PresentMayStay
  <1> QED BY <1>1, EffectiveIs DEF StandingIs, Standing, HomeSafe, GapIsJournalled

(* One step of anything but a power loss.                                   *)
LEMMA StandingGrows ==
  ASSUME ReauthInv, ReauthInv', StandingIs, StandingIs', Next
  PROVE  PowerLoss \/ Standing' >= Standing \/ Standing \in unleased
  <1>0. Standing \in Int /\ Standing' \in Int
    BY DEF StandingIs
  <1>1. CASE home'.auth = home.auth /\ journal' = journal
    BY <1>0, <1>1 DEF Standing
  <1>2. CASE home'.auth = home.auth /\ (journal = NoJournal \/ journal' = NoJournal)
    BY <1>0, <1>2 DEF Standing, StandingIs
  <1>3. ASSUME NEW c \in Client, HideOld(c)
        PROVE  Standing' >= Standing \/ Standing \in unleased
    <2>1. client[c].pc = "hide" /\ client[c].pc \notin Waiting
      BY <1>3 DEF HideOld, Waiting
    <2>2. HolderInStep(client[c])
      BY <2>1, Holder
    <2>3. /\ client[c].j = journal /\ journal # NoJournal /\ JournalSafe(journal)
          /\ home.auth = journal.old \/ home.auth \in unleased
          /\ home.auth # Absent
      BY <2>1, <2>2 DEF HolderInStep, JournalInStep, HomeInStep, LiveIs, Waiting, NotYetJournal
    <2>4. journal \in Journal /\ journal.old \in Int /\ journal.new \in Int
      BY <2>3, ReauthAssumption DEF ReauthInv, TypeOK, Journal, Cred
    <2>5. journal' = journal
      BY <1>3 DEF HideOld, SameJournal
    <2>6. home \in Home /\ home' = WithAuthOld(home, Absent, client[c].j.tx, home.auth)
      BY <1>3 DEF ReauthInv, TypeOK, HideOld, ChangeHome, WithAuthOld
    <2>7. home'.auth = Absent
      BY <2>6, EditAuthOld
    <2> QED BY <2>3, <2>4, <2>5, <2>7 DEF Standing, JournalSafe
  <1>4. ASSUME NEW c \in Client, ShowNew(c)
        PROVE  Standing' >= Standing \/ Standing \in unleased
    <2>1. client[c].pc = "show" /\ client[c].pc \notin Waiting
      BY <1>4 DEF ShowNew, Waiting
    <2>2. HolderInStep(client[c])
      BY <2>1, Holder
    <2>3. /\ client[c].j = journal /\ journal # NoJournal /\ home.new[journal.tx] = journal.new
          /\ home.auth = Absent \/ home.auth \in unleased
      BY <2>1, <2>2 DEF HolderInStep, JournalInStep, HomeInStep, LiveIs, Waiting, NotYetJournal
    <2>4. journal \in Journal /\ journal.new # Absent
      BY <2>3, JournalNotNone DEF ReauthInv, TypeOK
    <2>5. home \in Home /\ home' = WithAuthNew(home, home.new[journal.tx], journal.tx, Absent)
      BY <1>4, <2>3 DEF ReauthInv, TypeOK, ShowNew, ChangeHome, WithAuthNew
    <2>6. home'.auth = journal.new
      BY <2>3, <2>5, EditAuthNew
    <2> QED BY <1>0, <2>3, <2>4, <2>6 DEF Standing
  <1>6. CASE Rotate
    <2>1. home \in Home /\ home' = [home EXCEPT !.auth = issued + 1] /\ issued \in Nat
      BY <1>6, ReauthAssumption DEF ReauthInv, TypeOK, Rotate, ChangeHome, Cred
    <2>2. home'.auth = issued + 1
      BY <2>1 DEF Home
    <2> QED BY <1>0, <2>1, <2>2 DEF Standing, StandingIs, Absent
  <1>7. ASSUME NEW c \in Client,
               \/ PlaceCandidate(c) \/ DropNew(c) \/ Rollback(c)
        PROVE  home'.auth = home.auth /\ journal' = journal
    <2>1. home \in Home /\ journal' = journal
      BY <1>7 DEF ReauthInv, TypeOK, PlaceCandidate, DropNew, Rollback, SameJournal
    <2>2. PICK t, v : home' = [home EXCEPT !.new[t] = v]
      BY <1>7 DEF PlaceCandidate, DropNew, Rollback, ChangeHome
    <2> QED BY <2>1, <2>2 DEF Home
  <1>8. ASSUME NEW c \in Client, DropOld(c)
        PROVE  home'.auth = home.auth /\ journal' = journal
    <2>1. home \in Home /\ home' = [home EXCEPT !.old[client[c].j.tx] = Absent] /\ journal' = journal
      BY <1>8 DEF ReauthInv, TypeOK, DropOld, ChangeHome, SameJournal
    <2> QED BY <2>1 DEF Home
  <1>9. ASSUME NEW c \in Client, PublishJournal(c) \/ DropJournal(c)
        PROVE  home'.auth = home.auth /\ (journal = NoJournal \/ journal' = NoJournal)
    BY <1>9 DEF PublishJournal, DropJournal, ChangeJournal, SameHome
  <1>10. ASSUME NEW c \in Client, Recovery(c)
         PROVE  home' = home /\ journal' = journal
    BY <1>10 DEF Recovery, Preflight, LockForRecovery, Busy, LockForReauth, LockForRun, RecoverOrphans,
         RecoverFinish, RecoverRollback, RecoverComplete, RecoveryRequired, SyncOrphans, files, SameHome, SameJournal
  <1>11. ASSUME NEW c \in Client,
                \/ CreateStaging(c) \/ Login(c) \/ Abandon(c) \/ SyncJournal(c) \/ SyncCandidate(c)
                \/ CheckOld(c) \/ VerifyNew(c) \/ SyncNew(c)
         PROVE  home' = home /\ journal' = journal
    BY <1>11 DEF CreateStaging, Login, Abandon, SyncJournal, SyncCandidate, CheckOld, VerifyNew, SyncNew,
         files, SameHome, SameJournal, SyncProfile, SyncHome
  <1>12. ASSUME NEW c \in Client,
                \/ SyncDrop(c) \/ DropStaging(c) \/ SyncDropped(c) \/ SyncEnd(c) \/ Refuse(c) \/ EndRun(c)
                \/ Kill(c)
         PROVE  home' = home /\ journal' = journal
    BY <1>12 DEF SyncDrop, DropStaging, SyncDropped, SyncEnd, Refuse, EndRun, Kill, files, SameHome,
         SameJournal, SyncProfile, SyncHome
  <1>13. CASE ChildExit \/ OrphanExit
    BY <1>1, <1>13 DEF ChildExit, OrphanExit, files
  <1>14. ASSUME NEW c \in Client, Recovery(c)
         PROVE  PowerLoss \/ Standing' >= Standing \/ Standing \in unleased
    BY <1>1, <1>10, <1>14
  <1>15. ASSUME NEW c \in Client, Transaction(c)
         PROVE  PowerLoss \/ Standing' >= Standing \/ Standing \in unleased
    BY <1>1, <1>2, <1>3, <1>4, <1>7, <1>9, <1>11, <1>15 DEF Transaction
  <1>16. ASSUME NEW c \in Client, Cleanup(c) \/ Kill(c)
         PROVE  PowerLoss \/ Standing' >= Standing \/ Standing \in unleased
    BY <1>1, <1>2, <1>7, <1>8, <1>9, <1>12, <1>16 DEF Cleanup
  <1> QED BY <1>6, <1>13, <1>14, <1>15, <1>16 DEF Next, Step

(* While no power is lost, the credential a profile amounts to only moves   *)
(* forward through every step, kill and recovery, or the one left behind    *)
(* was written by an orphan that does not have the lease.                   *)
THEOREM OnlyForward == Spec => NeverRollsBack
  <1>1. ASSUME ReauthInv, ReauthInv', StandingIs, StandingIs', [Next]_vars
        PROVE  [\/ PowerLoss
                \/ Effective(home', journal') >= Effective(home, journal)
                \/ Effective(home, journal) \in unleased]_vars
    BY <1>1, StandingGrows DEF StandingIs
  <1> QED BY <1>1, ReauthInvariant, EffectiveNow, PTL DEF Spec, NeverRollsBack

==============================================================================
