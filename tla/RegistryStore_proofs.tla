------------------------ MODULE RegistryStore_proofs ------------------------
(***************************************************************************)
(* Proofs about RegistryStore, for any set of processes and of calls: its  *)
(* document always loads, its answers are honest, and the files implement  *)
(* AtomicDocument.                                                         *)
(***************************************************************************)
EXTENDS RegistryStore, TLAPS

------------------------------------------------------------------------------
(* The inductive invariant *)

(* The files a name may have after a power loss. *)
Files(n) == {disk[n]} \cup {renames[n][i] : i \in DOMAIN renames[n]}

Visible == Contents(Live("registry"))
Stable == Contents(disk["registry"])

Prefix(s, t) == Len(s) <= Len(t) /\ \A i \in 1 .. Len(s) : s[i] = t[i]

(* No file is given its name before its bytes are synced. *)
FilesSynced == \A n \in Name : \A f \in Files(n) : f # Absent => f.synced

(* Only the holder of the lock is inside a transaction, and its caller has   *)
(* not been answered.                                                        *)
OneWriter ==
  \A p \in Process : pc[p] # Idle =>
    lock = p /\ call[p] # Absent /\ answer[call[p].op] = "running"

(* The registry files differ by how many of the visible operations they      *)
(* have, and the synced one has the fewest.                                  *)
FilesOrdered ==
  \A f \in Files("registry") :
    /\ Prefix(Stable.ops, Contents(f).ops)
    /\ Prefix(Contents(f).ops, Visible.ops)

(* The backup that a transaction migrating from `original' leans on. *)
BackupHeld(original) ==
  /\ renames["backup"] = << >>
  /\ disk["backup"] # Absent
  /\ disk["backup"].doc = original

(* A registry file that names a backup names the one the visible file names, *)
(* and that backup is on disk with no rename that could replace it.          *)
BackupsKept ==
  \A f \in Files("registry") :
    /\ Contents(f).schema = 1 => Contents(f).backup = Absent
    /\ Contents(f).backup # Absent =>
         /\ Visible.backup = Contents(f).backup
         /\ renames["backup"] = << >>
         /\ disk["backup"] # Absent
         /\ disk["backup"].doc.schema = 1
         /\ disk["backup"].doc.ops = Contents(f).backup

Saving(p) == At(p, "registry", "start") \/ At(p, "registry", "written")
Published(p) == At(p, "registry", "renamed") \/ At(p, "registry", "durable")
BackingUp(p) == \E s \in {"start", "written", "renamed", "durable"} : At(p, "backup", s)

(* What the writer knows at each step: until its rename the document it read *)
(* is still the visible one; a migration goes on to `save' only with its     *)
(* backup on disk.                                                           *)
InStep(p) ==
  /\ Saving(p) \/ BackingUp(p) =>
       /\ call[p].original = Visible
       /\ \E v2 \in BOOLEAN :
            call[p].doc = NextDocument(call[p].original, call[p].op, v2)
  /\ BackingUp(p) =>
       /\ Visible.schema = 1
       /\ call[p].doc = NextDocument(call[p].original, call[p].op, TRUE)
  /\ At(p, "backup", "renamed") =>
       Live("backup") # Absent /\ Live("backup").doc = call[p].original
  /\ At(p, "backup", "durable") => BackupHeld(call[p].original)
  /\ Saving(p) /\ Migrates(call[p].original, call[p].doc.schema = 2) =>
       BackupHeld(call[p].original)
  /\ Published(p) => Contains(Visible.ops, call[p].op)
  /\ At(p, "registry", "durable") => Contains(Stable.ops, call[p].op)

WriterInStep == \A p \in Process : InStep(p)

(* An operation that a reader sees is acknowledged, or may have happened; an *)
(* acknowledged one is stable.                                               *)
AnswersJustified ==
  \A o \in Op :
    /\ Contains(Visible.ops, o) =>
         \/ answer[o] \in {"ok", "uncertain", "lost"}
         \/ \E p \in Process : Published(p) /\ call[p].op = o
    /\ answer[o] = "ok" => Contains(Stable.ops, o)

StoreInv ==
  /\ TypeOK
  /\ FilesSynced
  /\ OneWriter
  /\ FilesOrdered
  /\ BackupsKept
  /\ WriterInStep
  /\ AnswersJustified

------------------------------------------------------------------------------
(* Documents, files and sequences of operations *)

(* Every file holds a document, and so does a missing one. *)
LEMMA ContentsTyped ==
  ASSUME NEW f \in File \cup {Absent}
  PROVE  Contents(f) \in Document
BY StoreAbsentAssumption DEF Contents, File, Document, Empty

(* The next document is a document that has one more operation. *)
LEMMA NextDocumentTyped ==
  ASSUME NEW d \in Document, NEW o \in Op, NEW v2 \in BOOLEAN
  PROVE  /\ NextDocument(d, o, v2) \in Document
         /\ NextDocument(d, o, v2).ops = Append(d.ops, o)
BY DEF NextDocument, Document, Migrates

(* What a reader sees is one of the files a power loss may leave. *)
LEMMA LiveIsAFile ==
  ASSUME TypeOK, NEW n \in Name
  PROVE  /\ Live(n) \in Files(n)
         /\ Files(n) \subseteq File \cup {Absent}
<1>1. renames[n] \in Seq(File) /\ disk[n] \in File \cup {Absent}
  BY DEF TypeOK
<1>2. CASE renames[n] = << >>
  BY <1>1, <1>2 DEF Live, Files
<1>3. CASE renames[n] # << >>
  <2>1. Len(renames[n]) \in DOMAIN renames[n]
    BY <1>1, <1>3
  <2> QED BY <1>1, <1>3, <2>1 DEF Live, Files
<1> QED BY <1>2, <1>3

(* The visible and the synced contents are documents. *)
LEMMA VisibleTyped ==
  ASSUME TypeOK
  PROVE  Visible \in Document /\ Stable \in Document
<1>1. Live("registry") \in File \cup {Absent}
  BY LiveIsAFile DEF Name
<1>2. disk["registry"] \in File \cup {Absent}
  BY DEF TypeOK, Name
<1> QED BY <1>1, <1>2, ContentsTyped DEF Visible, Stable

(* The empty sequence has no positions. *)
LEMMA EmptyDomain == DOMAIN << >> = {}
OBVIOUS

(* A prefix of a sequence keeps its order and its elements. *)
LEMMA PrefixFacts ==
  ASSUME NEW s \in Seq(Op), NEW t \in Seq(Op)
  PROVE  /\ Prefix(s, s)
         /\ \A o \in Op : Prefix(s, t) => Prefix(s, Append(t, o))
         /\ Prefix(s, t) => s = SubSeq(t, 1, Len(s))
         /\ \A x \in Op : Prefix(s, t) /\ Contains(s, x) => Contains(t, x)
<1>1. Prefix(s, s)
  BY DEF Prefix
<1>2. ASSUME NEW o \in Op, Prefix(s, t) PROVE Prefix(s, Append(t, o))
  BY <1>2 DEF Prefix
<1>3. ASSUME Prefix(s, t) PROVE s = SubSeq(t, 1, Len(s))
  <2>1. SubSeq(t, 1, Len(s)) \in Seq(Op)
    BY <1>3 DEF Prefix
  <2>2. Len(SubSeq(t, 1, Len(s))) = Len(s)
    BY <1>3 DEF Prefix
  <2>3. \A i \in 1 .. Len(s) : SubSeq(t, 1, Len(s))[i] = s[i]
    BY <1>3 DEF Prefix
  <2> QED BY <2>1, <2>2, <2>3
<1>4. ASSUME Prefix(s, t), NEW x \in Op, Contains(s, x) PROVE Contains(t, x)
  <2>1. PICK i \in DOMAIN s : s[i] = x
    BY <1>4 DEF Contains
  <2>2. i \in DOMAIN t /\ t[i] = x
    BY <1>4, <2>1 DEF Prefix
  <2> QED BY <2>2 DEF Contains
<1> QED BY <1>1, <1>2, <1>3, <1>4

(* Appending an operation adds that operation and nothing else. *)
LEMMA ContainsAppend ==
  ASSUME NEW s \in Seq(Op), NEW o \in Op, NEW x \in Op
  PROVE  Contains(Append(s, o), x) <=> Contains(s, x) \/ x = o
<1>1. ASSUME Contains(Append(s, o), x) PROVE Contains(s, x) \/ x = o
  BY <1>1 DEF Contains
<1>2. ASSUME Contains(s, x) PROVE Contains(Append(s, o), x)
  <2>1. PICK i \in DOMAIN s : s[i] = x
    BY <1>2 DEF Contains
  <2>2. i \in DOMAIN Append(s, o) /\ Append(s, o)[i] = x
    BY <2>1
  <2> QED BY <2>2 DEF Contains
<1>3. Contains(Append(s, o), o)
  <2>1. Len(s) + 1 \in DOMAIN Append(s, o) /\ Append(s, o)[Len(s) + 1] = o
    OBVIOUS
  <2> QED BY <2>1 DEF Contains
<1> QED BY <1>1, <1>2, <1>3

------------------------------------------------------------------------------
(* What the steps on files do to the visible, stable and possible files *)

(* A step that leaves the files alone leaves what they hold alone. *)
LEMMA SameFiles ==
  ASSUME UNCHANGED <<disk, renames>>
  PROVE  /\ Visible' = Visible
         /\ Stable' = Stable
         /\ \A n \in Name : Live(n)' = Live(n) /\ Files(n)' = Files(n)
         /\ FilesSynced => FilesSynced'
         /\ FilesOrdered => FilesOrdered'
         /\ BackupsKept => BackupsKept'
         /\ \A d \in Document : BackupHeld(d)' = BackupHeld(d)
BY DEF Visible, Stable, Live, Files, FilesSynced, FilesOrdered, BackupsKept,
       BackupHeld, Contents

(* A rename adds one file to those the name may have and shows it. *)
LEMMA RenameFiles ==
  ASSUME TypeOK, NEW n \in Name, NEW f \in File, disk' = disk,
         renames' = [renames EXCEPT ![n] = Append(@, f)]
  PROVE  /\ Live(n)' = f
         /\ Files(n)' = Files(n) \cup {f}
         /\ \A m \in Name \ {n} : Live(m)' = Live(m) /\ Files(m)' = Files(m)
<1>1. renames[n] \in Seq(File) /\ renames \in [Name -> Seq(File)]
  BY DEF TypeOK
<1>2. renames'[n] = Append(renames[n], f)
  BY <1>1
<1>3. Live(n)' = f
  <2>1. renames'[n] # << >> /\ renames'[n][Len(renames'[n])] = f
    BY <1>1, <1>2
  <2> QED BY <2>1 DEF Live
<1>4. Files(n)' = Files(n) \cup {f}
  <2>1. {renames'[n][i] : i \in DOMAIN renames'[n]}
          = {renames[n][i] : i \in DOMAIN renames[n]} \cup {f}
    <3>1. ASSUME NEW i \in DOMAIN renames[n]
          PROVE  i \in DOMAIN renames'[n] /\ renames'[n][i] = renames[n][i]
      BY <1>1, <1>2
    <3>2. ASSUME NEW i \in DOMAIN renames'[n]
          PROVE  (i \in DOMAIN renames[n] /\ renames'[n][i] = renames[n][i])
                   \/ renames'[n][i] = f
      BY <1>1, <1>2
    <3>3. \E i \in DOMAIN renames'[n] : renames'[n][i] = f
      <4>1. Len(renames[n]) + 1 \in DOMAIN renames'[n]
             /\ renames'[n][Len(renames[n]) + 1] = f
        BY <1>1, <1>2
      <4> QED BY <4>1
    <3> QED BY <3>1, <3>2, <3>3
  <2> QED BY <2>1 DEF Files
<1>5. \A m \in Name \ {n} : Live(m)' = Live(m) /\ Files(m)' = Files(m)
  <2>1. \A m \in Name \ {n} : renames'[m] = renames[m]
    BY <1>1
  <2> QED BY <2>1 DEF Live, Files
<1> QED BY <1>3, <1>4, <1>5

(* A directory sync leaves each name with the file that was visible. *)
LEMMA SyncFiles ==
  ASSUME SyncDirectory, NEW n \in Name
  PROVE  /\ Live(n)' = Live(n)
         /\ Files(n)' = {Live(n)}
         /\ disk'[n] = Live(n)
         /\ renames'[n] = << >>
<1>1. disk'[n] = Live(n) /\ renames'[n] = << >>
  BY DEF SyncDirectory
<1> QED BY <1>1, EmptyDomain DEF Live, Files

(* With every file synced, a power loss leaves files as they were written. *)
LEMMA RecoveredFiles ==
  ASSUME FilesSynced, NEW n \in Name
  PROVE  Recovered(n) = Files(n)
<1>1. \A f \in Files(n) : AfterLoss(f) = f
  BY DEF FilesSynced, AfterLoss
<1> QED BY <1>1 DEF Recovered, Files

------------------------------------------------------------------------------
(* The steps of a call *)

(* A process that is idle is at no step of a transaction. *)
LEMMA IdleInStep ==
  ASSUME NEW p \in Process
  PROVE  /\ pc[p] = Idle => InStep(p) /\ ~Published(p)
         /\ pc'[p] = Idle => InStep(p)' /\ ~Published(p)'
<1>1. ASSUME pc[p] = Idle
      PROVE  /\ ~Saving(p) /\ ~BackingUp(p) /\ ~Published(p)
             /\ \A n \in Name, s \in {"renamed", "durable"} : ~At(p, n, s)
  BY <1>1 DEF Idle, Saving, BackingUp, Published, At, Name
<1>2. ASSUME pc'[p] = Idle
      PROVE  /\ ~Saving(p)' /\ ~BackingUp(p)' /\ ~Published(p)'
             /\ \A n \in Name, s \in {"renamed", "durable"} : ~At(p, n, s)'
  BY <1>2 DEF Idle, Saving, BackingUp, Published, At, Name
<1>3. pc[p] = Idle => InStep(p)
  BY <1>1, Zenon DEF InStep, Name
<1>4. pc'[p] = Idle => InStep(p)'
  BY <1>2, Zenon DEF InStep, Name
<1> QED BY <1>1, <1>2, <1>3, <1>4

(* The process inside a transaction is the only one. *)
LEMMA ActiveIsAlone ==
  ASSUME StoreInv, NEW p \in Process, pc[p] # Idle
  PROVE  /\ lock = p
         /\ call[p] \in Call
         /\ answer[call[p].op] = "running"
         /\ \A q \in Process \ {p} : pc[q] = Idle
BY DEF StoreInv, TypeOK, OneWriter

(* The places of pc are places of Steps, and none of them is Idle. *)
LEMMA StepNames ==
  ASSUME NEW n \in Name, NEW s \in {"start", "written", "renamed", "durable"}
  PROVE  <<n, s>> \in Steps /\ <<n, s>> # Idle
BY DEF Steps, Publishing, Idle, Name

(* Each operation keeps the types. *)
LEMMA TypeStep ==
  ASSUME TypeOK, OneWriter, FilesSynced, [Next]_vars
  PROVE  TypeOK'
<1> USE DEF TypeOK
<1>1. Idle \in Steps
  BY DEF Steps
<1>2. ASSUME NEW p \in Process, NEW o \in Op, NEW v2 \in BOOLEAN, Begin(p, o, v2)
      PROVE  TypeOK'
  <2>1. Visible \in Document
    BY VisibleTyped
  <2>2. NextDocument(Visible, o, v2) \in Document
    BY <2>1, NextDocumentTyped
  <2>3. call' \in [Process -> Call \cup {Absent}]
    BY <1>2, <2>1, <2>2 DEF Begin, Visible, Call
  <2>4. pc' \in [Process -> Steps]
    BY <1>2, StepNames DEF Begin, Name
  <2> QED BY <1>2, <2>3, <2>4 DEF Begin, Answer
<1>3. ASSUME NEW p \in Process, NEW n \in Name, WriteTemporary(p, n)
      PROVE  TypeOK'
  BY <1>3, StepNames DEF WriteTemporary
<1>4. ASSUME NEW p \in Process, NEW n \in Name, SyncTemporary(p, n)
      PROVE  TypeOK'
  BY <1>4 DEF SyncTemporary
<1>5. ASSUME NEW p \in Process, NEW n \in Name, Rename(p, n)
      PROVE  TypeOK'
  <2>1. call[p] \in Call
    BY <1>5, StepNames DEF Rename, ReadyToRename, At, OneWriter
  <2>2. [doc |-> Bytes(p, n), synced |-> synced[p]] \in File
    BY <2>1 DEF Bytes, Call, File
  <2>3. renames' \in [Name -> Seq(File)]
    BY <1>5, <2>2 DEF Rename
  <2> QED BY <1>5, <2>3, StepNames DEF Rename
<1>6. ASSUME NEW p \in Process, NEW n \in Name, ConfirmDurable(p, n)
      PROVE  TypeOK'
  <2>1. \A m \in Name : Live(m) \in File \cup {Absent}
    BY LiveIsAFile
  <2>2. disk' \in [Name -> File \cup {Absent}] /\ renames' \in [Name -> Seq(File)]
    BY <1>6, <2>1 DEF ConfirmDurable, SyncDirectory
  <2> QED BY <1>6, <2>2, StepNames DEF ConfirmDurable
<1>7. ASSUME NEW p \in Process, SaveAfterBackup(p) PROVE TypeOK'
  BY <1>7, StepNames DEF SaveAfterBackup, Name
<1>8. ASSUME NEW p \in Process, NEW reply \in Answer, Return(p, reply)
      PROVE  TypeOK'
  BY <1>1, <1>8 DEF Return
<1>9. ASSUME NEW p \in Process, Commit(p) \/ Fail(p) \/ Uncertain(p) \/ Kill(p)
      PROVE  TypeOK'
  BY <1>8, <1>9 DEF Commit, Fail, Uncertain, Kill, Answer
<1>10. ASSUME PowerLoss PROVE TypeOK'
  <2>1. \A n \in Name : Recovered(n) \subseteq File \cup {Absent}
    BY LiveIsAFile, RecoveredFiles
  <2>2. disk' \in [Name -> File \cup {Absent}]
    BY <1>10, <2>1 DEF PowerLoss, Name
  <2> QED BY <1>1, <1>10, <2>2 DEF PowerLoss, Answer
<1>11. CASE UNCHANGED vars
  BY <1>11 DEF vars
<1> QED BY <1>2, <1>3, <1>4, <1>5, <1>6, <1>7, <1>9, <1>10, <1>11 DEF Next

------------------------------------------------------------------------------
(* Each operation keeps the invariant *)

(* A call that starts reads the document that a reader sees, and its         *)
(* operation is in no file yet.                                              *)
LEMMA BeginInv ==
  ASSUME StoreInv, NEW p \in Process, NEW o \in Op, NEW v2 \in BOOLEAN,
         Begin(p, o, v2)
  PROVE  OneWriter' /\ WriterInStep' /\ AnswersJustified'
<1>1. \A q \in Process : pc[q] = Idle
  BY StoreAbsentAssumption DEF Begin, StoreInv, OneWriter
<1>2. \A q \in Process : ~Published(q)
  BY <1>1, IdleInStep
<1>3. UNCHANGED <<disk, renames>>
  BY DEF Begin
<1>4. Visible' = Visible /\ Stable' = Stable
  BY <1>3, SameFiles
<1>5. /\ call'[p] = [op |-> o, original |-> Visible, doc |-> NextDocument(Visible, o, v2)]
      /\ answer' = [answer EXCEPT ![o] = "running"]
      /\ pc'[p] = <<IF Migrates(Visible, v2) THEN "backup" ELSE "registry", "start">>
      /\ lock' = p
      /\ \A q \in Process \ {p} : pc'[q] = Idle
  BY <1>1 DEF Begin, Visible, StoreInv, TypeOK
<1>6. Visible \in Document /\ NextDocument(Visible, o, v2) \in Document
  BY VisibleTyped, NextDocumentTyped DEF StoreInv
<1>7. call'[p] \in Call /\ call'[p] # Absent
  BY <1>5, <1>6, StoreAbsentAssumption DEF Call
<1>8. OneWriter'
  <2>1. answer'[call'[p].op] = "running"
    BY <1>5 DEF StoreInv, TypeOK
  <2> QED BY <1>5, <1>7, <2>1 DEF OneWriter
<1>9. WriterInStep'
  <2>1. ASSUME NEW q \in Process \ {p} PROVE InStep(q)'
    BY <1>5, <2>1, IdleInStep
  <2>2. InStep(p)'
    <3>1. ~Published(p)' /\ \A n \in Name, s \in {"renamed", "durable"} : ~At(p, n, s)'
      BY <1>5 DEF Published, At, Name
    <3>2. BackingUp(p)' => Migrates(Visible, v2)
      BY <1>5 DEF BackingUp, At
    <3>3. Saving(p)' => ~Migrates(Visible, v2)
      BY <1>5 DEF Saving, At
    <3>4. NextDocument(Visible, o, v2).schema = (IF v2 THEN 2 ELSE Visible.schema)
      BY DEF NextDocument
    <3>5. Saving(p)' => ~Migrates(Visible, NextDocument(Visible, o, v2).schema = 2)
      BY <3>3, <3>4 DEF Migrates
    <3>6. BackingUp(p)' => Visible.schema = 1 /\ v2 = TRUE
      BY <3>2 DEF Migrates
    <3>7. call'[p].original = Visible /\ call'[p].op = o
           /\ call'[p].doc = NextDocument(Visible, o, v2)
      BY <1>5
    <3>8. \E w \in BOOLEAN : call'[p].doc = NextDocument(call'[p].original, call'[p].op, w)
      BY <3>7
    <3>9. BackingUp(p)' => call'[p].doc = NextDocument(call'[p].original, call'[p].op, TRUE)
      BY <3>6, <3>7
    <3> QED BY <1>4, <3>1, <3>5, <3>6, <3>7, <3>8, <3>9, Zenon DEF InStep, Name
  <2> QED BY <2>1, <2>2 DEF WriterInStep
<1>10. AnswersJustified'
  <2>1. ~Contains(Visible.ops, o)
    BY <1>2 DEF Begin, StoreInv, AnswersJustified
  <2>2. \A x \in Op \ {o} : answer'[x] = answer[x]
    BY <1>5 DEF StoreInv, TypeOK
  <2>3. answer'[o] # "ok"
    BY <1>5 DEF StoreInv, TypeOK
  <2>4. \A x \in Op : answer'[x] = "ok" => x # o
    BY <2>3
  <2>5. ASSUME NEW x \in Op, Contains(Visible.ops, x)
        PROVE  answer'[x] \in {"ok", "uncertain", "lost"}
    BY <1>2, <2>1, <2>2, <2>5 DEF StoreInv, AnswersJustified
  <2> QED BY <1>4, <2>2, <2>4, <2>5 DEF StoreInv, AnswersJustified
<1> QED BY <1>8, <1>9, <1>10

(* Writing and syncing the temporary, and going on to `save' once the backup *)
(* is durable, touch no named file.                                          *)
LEMMA TemporaryInv ==
  ASSUME StoreInv, NEW p \in Process,
         \/ \E n \in Name : WriteTemporary(p, n) \/ SyncTemporary(p, n)
         \/ SaveAfterBackup(p)
  PROVE  OneWriter' /\ WriterInStep' /\ AnswersJustified'
<1>1. UNCHANGED <<disk, renames, lock, call, answer>>
  BY DEF WriteTemporary, SyncTemporary, SaveAfterBackup
<1>2. pc[p] # Idle /\ pc'[p] # Idle /\ \A q \in Process \ {p} : pc'[q] = pc[q]
  <2>1. CASE \E n \in Name : WriteTemporary(p, n)
    BY <2>1, StepNames DEF WriteTemporary, At, StoreInv, TypeOK
  <2>2. CASE \E n \in Name : SyncTemporary(p, n)
    BY <2>2, StepNames DEF SyncTemporary, At, StoreInv, TypeOK
  <2>3. CASE SaveAfterBackup(p)
    BY <2>3, StepNames DEF SaveAfterBackup, At, StoreInv, TypeOK, Name
  <2> QED BY <2>1, <2>2, <2>3
<1>3. \A q \in Process \ {p} : pc'[q] = Idle /\ pc[q] = Idle
  BY <1>2, ActiveIsAlone
<1>4. OneWriter'
  BY <1>1, <1>2, <1>3, ActiveIsAlone DEF StoreInv, OneWriter
<1>5. /\ Visible' = Visible /\ Stable' = Stable
      /\ Live("backup")' = Live("backup")
      /\ \A d \in Document : BackupHeld(d)' = BackupHeld(d)
  BY <1>1, SameFiles DEF Name
<1>6. call[p].original \in Document
  BY <1>2, ActiveIsAlone DEF Call
<1>7. ~Published(p) /\ ~Published(p)'
  <2>1. CASE \E n \in Name : WriteTemporary(p, n)
    BY <2>1 DEF WriteTemporary, Published, At, StoreInv, TypeOK, Name
  <2>2. CASE \E n \in Name : SyncTemporary(p, n)
    BY <2>2 DEF SyncTemporary, Published, At, StoreInv, TypeOK, Name
  <2>3. CASE SaveAfterBackup(p)
    BY <2>3 DEF SaveAfterBackup, Published, At, StoreInv, TypeOK
  <2> QED BY <2>1, <2>2, <2>3
<1>8. WriterInStep'
  <2>1. ASSUME NEW q \in Process \ {p} PROVE InStep(q)'
    BY <1>3, IdleInStep
  <2>2. InStep(p)
    BY DEF StoreInv, WriterInStep
  <2>3. /\ Saving(p)' \/ BackingUp(p)' => Saving(p) \/ BackingUp(p)
        /\ BackingUp(p)' => BackingUp(p)
        /\ ~At(p, "backup", "renamed")' /\ ~At(p, "backup", "durable")'
        /\ Saving(p)' => Saving(p) \/ At(p, "backup", "durable")
        /\ ~At(p, "registry", "durable")'
    <3>1. CASE \E n \in Name : WriteTemporary(p, n)
      BY <3>1 DEF WriteTemporary, Saving, BackingUp, At, StoreInv, TypeOK, Name
    <3>2. CASE \E n \in Name : SyncTemporary(p, n)
      BY <3>2 DEF SyncTemporary, Saving, BackingUp, At, StoreInv, TypeOK, Name
    <3>3. CASE SaveAfterBackup(p)
      BY <3>3 DEF SaveAfterBackup, Saving, BackingUp, At, StoreInv, TypeOK
    <3> QED BY <3>1, <3>2, <3>3
  <2>4. BackupHeld(call[p].original)' = BackupHeld(call[p].original)
    BY <1>1, <1>5, <1>6
  <2>5. call'[p] = call[p]
    BY <1>1
  <2>6. InStep(p)'
    BY <1>5, <1>7, <2>2, <2>3, <2>4, <2>5, Zenon DEF InStep
  <2> QED BY <2>1, <2>6 DEF WriterInStep
<1>9. AnswersJustified'
  <2>1. \A q \in Process : ~Published(q)
    BY <1>3, <1>7, IdleInStep
  <2> QED BY <1>1, <1>5, <2>1 DEF StoreInv, AnswersJustified
<1> QED BY <1>4, <1>8, <1>9

(* Publishing a backup: no registry file names one yet. *)
LEMMA RenameBackupInv ==
  ASSUME StoreInv, NEW p \in Process, Rename(p, "backup")
  PROVE  /\ FilesSynced' /\ OneWriter' /\ FilesOrdered' /\ BackupsKept'
         /\ WriterInStep' /\ AnswersJustified'
         /\ Visible' = Visible /\ Stable' = Stable
<1> DEFINE f == [doc |-> call[p].original, synced |-> synced[p]]
<1>1. At(p, "backup", "written") /\ synced[p] = TRUE /\ pc[p] # Idle
  BY StepNames DEF Rename, ReadyToRename, At, Name, StoreInv, TypeOK
<1>2. /\ lock = p /\ call[p] \in Call /\ answer[call[p].op] = "running"
      /\ \A q \in Process \ {p} : pc[q] = Idle
  BY <1>1, ActiveIsAlone
<1>3. f \in File /\ f # Absent /\ f.synced /\ f.doc = call[p].original
  <2>1. f \in File /\ f.synced = TRUE /\ f.doc = call[p].original
    BY <1>1, <1>2 DEF Call, File
  <2> HIDE DEF f
  <2> QED BY <2>1, StoreAbsentAssumption
<1>4. UNCHANGED <<disk, lock, call, synced, answer>>
      /\ pc' = [pc EXCEPT ![p] = <<"backup", "renamed">>]
      /\ renames' = [renames EXCEPT !["backup"] = Append(@, f)]
  BY DEF Rename, Bytes
<1>5. /\ Live("backup")' = f /\ Files("backup")' = Files("backup") \cup {f}
      /\ Live("registry")' = Live("registry") /\ Files("registry")' = Files("registry")
  <2>1. "backup" \in Name /\ "registry" \in Name \ {"backup"}
    BY DEF Name
  <2>2. TypeOK
    BY DEF StoreInv
  <2> HIDE DEF f
  <2> QED BY <1>3, <1>4, <2>1, <2>2, RenameFiles
<1> HIDE DEF f
<1>6. Visible' = Visible /\ Stable' = Stable
  BY <1>4, <1>5 DEF Visible, Stable, Contents
<1>7. InStep(p) /\ BackingUp(p)
  BY <1>1 DEF StoreInv, WriterInStep, BackingUp
<1>8. Visible.schema = 1 /\ \A g \in Files("registry") : Contents(g).backup = Absent
  <2>1. Visible.schema = 1
    BY <1>7 DEF InStep
  <2>2. Live("registry") \in Files("registry")
    BY LiveIsAFile DEF StoreInv, Name
  <2>3. Visible.backup = Absent
    BY <2>1, <2>2 DEF StoreInv, BackupsKept, Visible
  <2> QED BY <2>1, <2>3 DEF StoreInv, BackupsKept
<1>9. FilesSynced'
  BY <1>3, <1>5 DEF StoreInv, FilesSynced, Name
<1>10. FilesOrdered'
  BY <1>5, <1>6 DEF StoreInv, FilesOrdered, Contents
<1>11. BackupsKept'
  BY <1>5, <1>8 DEF BackupsKept, Contents
<1>12. pc'[p] = <<"backup", "renamed">> /\ \A q \in Process \ {p} : pc'[q] = Idle
  BY <1>2, <1>4 DEF StoreInv, TypeOK
<1>13. OneWriter'
  BY <1>1, <1>4, <1>12 DEF StoreInv, OneWriter
<1>14. WriterInStep'
  <2>1. ASSUME NEW q \in Process \ {p} PROVE InStep(q)'
    BY <1>12, IdleInStep
  <2>2. /\ ~Saving(p)' /\ ~Published(p)' /\ ~At(p, "backup", "durable")'
        /\ ~At(p, "registry", "durable")'
    BY <1>12 DEF Saving, Published, At
  <2>3. call'[p] = call[p]
    BY <1>4
  <2>4. InStep(p)'
    BY <1>3, <1>5, <1>6, <1>7, <2>2, <2>3, Zenon DEF InStep
  <2> QED BY <2>1, <2>4 DEF WriterInStep
<1>15. AnswersJustified'
  <2>1. \A q \in Process : ~Published(q)
    BY <1>1, <1>2, IdleInStep DEF Published, At
  <2> QED BY <1>4, <1>6, <2>1 DEF StoreInv, AnswersJustified
<1> QED BY <1>6, <1>9, <1>10, <1>11, <1>13, <1>14, <1>15

(* Publishing the registry: the visible document grows by the operation of   *)
(* the call, and one that names a backup finds it on disk.                   *)
LEMMA RenameRegistryInv ==
  ASSUME StoreInv, NEW p \in Process, Rename(p, "registry")
  PROVE  /\ FilesSynced' /\ OneWriter' /\ FilesOrdered' /\ BackupsKept'
         /\ WriterInStep' /\ AnswersJustified'
         /\ Visible'.ops = Append(Visible.ops, call[p].op) /\ Stable' = Stable
         /\ ~Contains(Visible.ops, call[p].op)
<1> DEFINE f == [doc |-> call[p].doc, synced |-> synced[p]]
<1>1. At(p, "registry", "written") /\ synced[p] = TRUE /\ pc[p] # Idle
  BY StepNames DEF Rename, ReadyToRename, At, Name, StoreInv, TypeOK
<1>2. /\ lock = p /\ call[p] \in Call /\ answer[call[p].op] = "running"
      /\ \A q \in Process \ {p} : pc[q] = Idle
  BY <1>1, ActiveIsAlone
<1>3. f \in File /\ f # Absent /\ f.synced /\ f.doc = call[p].doc
  <2>1. f \in File /\ f.synced = TRUE /\ f.doc = call[p].doc
    BY <1>1, <1>2 DEF Call, File
  <2> HIDE DEF f
  <2> QED BY <2>1, StoreAbsentAssumption
<1>4. UNCHANGED <<disk, lock, call, synced, answer>>
      /\ pc' = [pc EXCEPT ![p] = <<"registry", "renamed">>]
      /\ renames' = [renames EXCEPT !["registry"] = Append(@, f)]
  BY DEF Rename, Bytes
<1>5. /\ Live("registry")' = f /\ Files("registry")' = Files("registry") \cup {f}
      /\ Live("backup")' = Live("backup") /\ Files("backup")' = Files("backup")
      /\ renames'["backup"] = renames["backup"]
  <2>1. "registry" \in Name /\ "backup" \in Name \ {"registry"}
    BY DEF Name
  <2>2. TypeOK
    BY DEF StoreInv
  <2>3. renames'["backup"] = renames["backup"]
    BY <1>4, <2>1, <2>2 DEF TypeOK
  <2> HIDE DEF f
  <2> QED BY <1>3, <1>4, <2>1, <2>2, <2>3, RenameFiles
<1> HIDE DEF f
<1>6. Visible' = call[p].doc /\ Stable' = Stable /\ Contents(f) = call[p].doc
  BY <1>3, <1>4, <1>5 DEF Visible, Stable, Contents
<1>7. InStep(p) /\ Saving(p)
  BY <1>1 DEF StoreInv, WriterInStep, Saving
<1>8. PICK v2 \in BOOLEAN : call[p].doc = NextDocument(Visible, call[p].op, v2)
  BY <1>7 DEF InStep
<1>9. Visible \in Document /\ Stable \in Document /\ call[p].op \in Op
  BY <1>2, VisibleTyped DEF StoreInv, Call
<1>10. Visible'.ops = Append(Visible.ops, call[p].op)
  BY <1>6, <1>8, <1>9, NextDocumentTyped
<1>11. Live("registry") \in Files("registry") /\ Files("registry") \subseteq File \cup {Absent}
  BY LiveIsAFile DEF StoreInv, Name
<1>12. FilesSynced'
  BY <1>3, <1>5 DEF StoreInv, FilesSynced, Name
<1>13. FilesOrdered'
  <2>1. Visible.ops \in Seq(Op) /\ Stable.ops \in Seq(Op) /\ Visible'.ops \in Seq(Op)
    BY <1>9, <1>10 DEF Document
  <2>2. \A g \in Files("registry") : Contents(g).ops \in Seq(Op)
    BY <1>11, ContentsTyped DEF Document
  <2>3. \A g \in Files("registry") :
          /\ Prefix(Stable.ops, Contents(g).ops)
          /\ Prefix(Contents(g).ops, Visible'.ops)
    BY <1>9, <1>10, <2>1, <2>2, PrefixFacts DEF StoreInv, FilesOrdered
  <2>4. Prefix(Stable.ops, Visible'.ops)
    <3>1. Prefix(Stable.ops, Visible.ops)
      BY <1>11 DEF StoreInv, FilesOrdered, Visible
    <3> QED BY <1>9, <1>10, <2>1, <3>1, PrefixFacts
  <2>5. Prefix(Visible'.ops, Visible'.ops)
    BY <1>9, <2>1, PrefixFacts
  <2> QED BY <1>5, <1>6, <2>3, <2>4, <2>5 DEF FilesOrdered, Contents
<1>14. BackupsKept'
  <2>1. Visible.schema = 1 => Visible.backup = Absent
    BY <1>11 DEF StoreInv, BackupsKept, Visible
  <2>2. /\ Visible'.schema = (IF v2 THEN 2 ELSE Visible.schema)
        /\ Visible'.backup = (IF v2 /\ Visible.schema = 1 THEN Visible.ops ELSE Visible.backup)
    BY <1>6, <1>8 DEF NextDocument, Migrates
  <2>3. Visible'.schema = 1 => Visible'.backup = Absent
    BY <2>1, <2>2
  <2>4. ASSUME NEW g \in Files("registry"), Contents(g).backup # Absent
        PROVE  Visible'.backup = Contents(g).backup
    BY <2>1, <2>2, <2>4 DEF StoreInv, BackupsKept
  <2>5. ASSUME Visible'.backup # Absent
        PROVE  /\ renames["backup"] = << >>
               /\ disk["backup"] # Absent
               /\ disk["backup"].doc.schema = 1
               /\ disk["backup"].doc.ops = Visible'.backup
    <3>1. CASE v2 /\ Visible.schema = 1
      <4>1. Migrates(call[p].original, call[p].doc.schema = 2)
        BY <1>6, <1>7, <2>2, <3>1 DEF Migrates, InStep
      <4>2. BackupHeld(Visible)
        BY <1>7, <4>1 DEF InStep
      <4> QED BY <2>2, <3>1, <4>2 DEF BackupHeld
    <3>2. CASE ~(v2 /\ Visible.schema = 1)
      <4>1. Visible.backup = Visible'.backup
        BY <2>2, <3>2
      <4> QED BY <1>11, <2>5, <4>1 DEF StoreInv, BackupsKept, Visible
    <3> QED BY <3>1, <3>2
  <2>6. disk' = disk
    BY <1>4
  <2>7. \A g \in Files("registry") : Contents(g).schema = 1 => Contents(g).backup = Absent
    BY DEF StoreInv, BackupsKept
  <2>8. ASSUME NEW g \in Files("registry") \cup {f}
        PROVE  /\ Contents(g).schema = 1 => Contents(g).backup = Absent
               /\ Contents(g).backup # Absent => Visible'.backup = Contents(g).backup
    BY <1>6, <2>3, <2>4, <2>7, <2>8
  <2> QED BY <1>5, <2>5, <2>6, <2>8 DEF BackupsKept, Contents
<1>15. pc'[p] = <<"registry", "renamed">> /\ \A q \in Process \ {p} : pc'[q] = Idle
  BY <1>2, <1>4 DEF StoreInv, TypeOK
<1>16. OneWriter'
  BY <1>1, <1>4, <1>15 DEF StoreInv, OneWriter
<1>17. Published(p)' /\ call'[p] = call[p]
  BY <1>4, <1>15 DEF Published, At
<1>18. \A x \in Op : Contains(Visible'.ops, x) <=> Contains(Visible.ops, x) \/ x = call[p].op
  BY <1>9, <1>10, ContainsAppend DEF Document
<1>19. WriterInStep'
  <2>1. ASSUME NEW q \in Process \ {p} PROVE InStep(q)'
    BY <1>15, IdleInStep
  <2>2. /\ ~Saving(p)' /\ ~BackingUp(p)' /\ ~At(p, "backup", "durable")'
        /\ ~At(p, "backup", "renamed")' /\ ~At(p, "registry", "durable")'
    BY <1>15 DEF Saving, BackingUp, At
  <2>3. Contains(Visible'.ops, call'[p].op)
    BY <1>9, <1>17, <1>18
  <2>4. InStep(p)'
    BY <2>2, <2>3, Zenon DEF InStep, Contains
  <2> QED BY <2>1, <2>4 DEF WriterInStep
<1>20. \A q \in Process : ~Published(q)
  BY <1>1, <1>2, IdleInStep DEF Published, At
<1>21. AnswersJustified'
  <2>1. ASSUME NEW x \in Op, Contains(Visible'.ops, x)
        PROVE  \/ answer[x] \in {"ok", "uncertain", "lost"}
               \/ Published(p)' /\ call'[p].op = x
    BY <1>17, <1>18, <1>20, <2>1 DEF StoreInv, AnswersJustified
  <2>2. \A x \in Op : answer[x] = "ok" => Contains(Stable.ops, x)
    BY DEF StoreInv, AnswersJustified
  <2> QED BY <1>4, <1>6, <2>1, <2>2 DEF AnswersJustified, Contains
<1>22. ~Contains(Visible.ops, call[p].op)
  BY <1>2, <1>9, <1>20 DEF StoreInv, AnswersJustified
<1> QED BY <1>6, <1>10, <1>12, <1>13, <1>14, <1>16, <1>19, <1>21, <1>22

(* A directory sync makes what is visible stable. *)
LEMMA ConfirmInv ==
  ASSUME StoreInv, NEW p \in Process, NEW n \in Name, ConfirmDurable(p, n)
  PROVE  /\ FilesSynced' /\ OneWriter' /\ FilesOrdered' /\ BackupsKept'
         /\ WriterInStep' /\ AnswersJustified'
         /\ Visible' = Visible /\ Stable' = Visible
<1>1. /\ pc[p] # Idle
      /\ At(p, n, "renamed") \/ (n = "backup" /\ At(p, n, "start") /\ BackupInPlace(p))
  BY StepNames DEF ConfirmDurable, Renamed, At
<1>2. /\ call[p] \in Call
      /\ \A q \in Process \ {p} : pc[q] = Idle
  BY <1>1, ActiveIsAlone
<1>3. /\ SyncDirectory
      /\ UNCHANGED <<lock, call, synced, answer>>
      /\ pc'[p] = <<n, "durable">>
      /\ \A q \in Process \ {p} : pc'[q] = Idle
  BY <1>2 DEF ConfirmDurable, StoreInv, TypeOK
<1>4. \A m \in Name :
        /\ Live(m)' = Live(m) /\ Files(m)' = {Live(m)}
        /\ disk'[m] = Live(m) /\ renames'[m] = << >>
  BY <1>3, SyncFiles
<1>5. Visible' = Visible /\ Stable' = Visible
  BY <1>4 DEF Visible, Stable, Contents, Name
<1>6. \A m \in Name : Live(m) \in Files(m)
  BY LiveIsAFile DEF StoreInv
<1>7. FilesSynced'
  BY <1>4, <1>6 DEF StoreInv, FilesSynced
<1>8. Visible \in Document /\ Stable \in Document
  BY VisibleTyped DEF StoreInv
<1>9. FilesOrdered'
  <2>1. Prefix(Visible.ops, Visible.ops)
    BY <1>8 DEF Prefix, Document
  <2>2. ASSUME NEW f \in Files("registry")' PROVE Contents(f) = Visible
    BY <1>4, <2>2 DEF Visible, Name
  <2> QED BY <1>5, <2>1, <2>2 DEF FilesOrdered, Contents
<1>10. BackupsKept'
  <2>1. ASSUME NEW f \in Files("registry")' PROVE Contents(f) = Visible
    BY <1>4, <2>1 DEF Visible, Name
  <2>2. Visible.schema = 1 => Visible.backup = Absent
    BY <1>6 DEF StoreInv, BackupsKept, Visible, Name
  <2>3. ASSUME Visible.backup # Absent
        PROVE  /\ disk'["backup"] # Absent
               /\ disk'["backup"].doc.schema = 1
               /\ disk'["backup"].doc.ops = Visible.backup
    <3>1. /\ renames["backup"] = << >> /\ disk["backup"] # Absent
          /\ disk["backup"].doc.schema = 1 /\ disk["backup"].doc.ops = Visible.backup
      BY <1>6, <2>3 DEF StoreInv, BackupsKept, Visible, Name
    <3>2. disk'["backup"] = disk["backup"]
      BY <1>4, <3>1 DEF Live, Name
    <3> QED BY <3>1, <3>2
  <2>4. renames'["backup"] = << >>
    BY <1>4 DEF Name
  <2> QED BY <1>5, <2>1, <2>2, <2>3, <2>4 DEF BackupsKept, Contents
<1>11. OneWriter'
  BY <1>1, <1>3 DEF StoreInv, OneWriter
<1>12. InStep(p)
  BY DEF StoreInv, WriterInStep
<1>13. Published(p)' => Published(p)
  BY <1>1, <1>3 DEF Published, At, Name
<1>14. Published(p) => Published(p)'
  BY <1>1, <1>3 DEF Published, At, Name
<1>15. WriterInStep'
  <2>1. ASSUME NEW q \in Process \ {p} PROVE InStep(q)'
    BY <1>3, IdleInStep
  <2>2. /\ ~Saving(p)' /\ ~At(p, "backup", "renamed")'
        /\ At(p, "backup", "durable")' => n = "backup"
        /\ BackingUp(p)' => n = "backup"
    BY <1>3 DEF Saving, BackingUp, At
  <2>3. n = "backup" => BackingUp(p)
    BY <1>1 DEF BackingUp
  <2>4. At(p, "registry", "durable")' => Published(p)'
    BY DEF Published
  <2>5. n = "backup" => BackupHeld(call[p].original)'
    <3>1. SUFFICES ASSUME n = "backup"
                   PROVE  Live("backup") # Absent /\ Live("backup").doc = call[p].original
      BY <1>3, <1>4, <3>1 DEF BackupHeld
    <3>2. CASE At(p, n, "renamed")
      BY <1>12, <3>1, <3>2 DEF InStep
    <3>3. CASE BackupInPlace(p)
      BY <3>3 DEF BackupInPlace
    <3> QED BY <1>1, <3>2, <3>3
  <2>6. call'[p] = call[p]
    BY <1>3
  <2>7. InStep(p)'
    <3>1. Saving(p)' \/ BackingUp(p)' =>
            /\ call'[p].original = Visible'
            /\ \E v2 \in BOOLEAN : call'[p].doc = NextDocument(call'[p].original, call'[p].op, v2)
      BY <1>5, <1>12, <2>2, <2>3, <2>6, Zenon DEF InStep
    <3>2. BackingUp(p)' =>
            /\ Visible'.schema = 1
            /\ call'[p].doc = NextDocument(call'[p].original, call'[p].op, TRUE)
      BY <1>5, <1>12, <2>2, <2>3, <2>6, Zenon DEF InStep
    <3>3. Published(p)' => Contains(Visible'.ops, call'[p].op)
      BY <1>5, <1>12, <1>13, <2>6, Zenon DEF InStep
    <3>4. Published(p)' => Contains(Stable'.ops, call'[p].op)
      BY <1>5, <3>3
    <3>5. At(p, "backup", "durable")' => BackupHeld(call[p].original)'
      BY <2>2, <2>5
    <3> QED BY <1>3, <2>2, <2>4, <3>1, <3>2, <3>3, <3>4, <3>5, Zenon
            DEF InStep, BackupHeld, Contains
  <2> QED BY <2>1, <2>7 DEF WriterInStep
<1>16. AnswersJustified'
  <2>1. \A x \in Op : Contains(Stable.ops, x) => Contains(Visible.ops, x)
    <3>1. Prefix(Stable.ops, Visible.ops)
      BY <1>6 DEF StoreInv, FilesOrdered, Visible, Name
    <3>2. Stable.ops \in Seq(Op) /\ Visible.ops \in Seq(Op)
      BY <1>8 DEF Document
    <3> QED BY <3>1, <3>2, PrefixFacts
  <2>2. \A q \in Process : Published(q) => q = p
    BY <1>2, IdleInStep
  <2>3. call' = call /\ answer' = answer
    BY <1>3
  <2>4. ASSUME NEW x \in Op, Contains(Visible.ops, x)
        PROVE  \/ answer'[x] \in {"ok", "uncertain", "lost"}
               \/ \E q \in Process : Published(q)' /\ call'[q].op = x
    BY <1>14, <2>2, <2>3, <2>4 DEF StoreInv, AnswersJustified
  <2>5. \A x \in Op : answer'[x] = "ok" => Contains(Visible.ops, x)
    BY <2>1, <2>3 DEF StoreInv, AnswersJustified
  <2> QED BY <1>5, <2>4, <2>5 DEF AnswersJustified, Contains
<1> QED BY <1>5, <1>7, <1>9, <1>10, <1>11, <1>15, <1>16

(* A call that returns has told the truth so far, and leaves the lock free. *)
LEMMA ReturnInv ==
  ASSUME StoreInv, NEW p \in Process, pc[p] # Idle,
         NEW reply \in {"ok", "uncertain", "error", "lost"}, Return(p, reply),
         reply = "ok" => Contains(Stable.ops, call[p].op),
         reply = "error" => ~Published(p)
  PROVE  OneWriter' /\ WriterInStep' /\ AnswersJustified'
<1>1. /\ call[p] \in Call /\ answer[call[p].op] = "running"
      /\ \A q \in Process \ {p} : pc[q] = Idle
  BY ActiveIsAlone
<1>2. \A q \in Process : pc'[q] = Idle
  BY <1>1 DEF Return, StoreInv, TypeOK
<1>3. OneWriter' /\ WriterInStep'
  BY <1>2, IdleInStep DEF OneWriter, WriterInStep
<1>4. Visible' = Visible /\ Stable' = Stable
  <2>1. UNCHANGED <<disk, renames>>
    BY DEF Return
  <2> QED BY <2>1, SameFiles
<1>5. AnswersJustified'
  <2>1. call[p].op \in Op
    BY <1>1 DEF Call
  <2>2. answer'[call[p].op] = reply /\ \A x \in Op \ {call[p].op} : answer'[x] = answer[x]
    BY <2>1 DEF Return, StoreInv, TypeOK
  <2>3. \A q \in Process : Published(q) => q = p
    BY <1>1, IdleInStep
  <2>4. ASSUME NEW x \in Op, Contains(Visible.ops, x)
        PROVE  answer'[x] \in {"ok", "uncertain", "lost"}
    BY <1>1, <2>2, <2>3, <2>4 DEF StoreInv, AnswersJustified
  <2>5. \A x \in Op : answer'[x] = "ok" => Contains(Stable.ops, x)
    BY <2>2 DEF StoreInv, AnswersJustified
  <2> QED BY <1>4, <2>4, <2>5 DEF AnswersJustified, Contains
<1> QED BY <1>3, <1>5

(* Each way out of a call is such a return. *)
LEMMA WaysOut ==
  ASSUME StoreInv, NEW p \in Process,
         Commit(p) \/ Fail(p) \/ Uncertain(p) \/ Kill(p)
  PROVE  /\ pc[p] # Idle
         /\ \E reply \in {"ok", "uncertain", "error", "lost"} :
              /\ Return(p, reply)
              /\ reply = "ok" => Contains(Stable.ops, call[p].op)
              /\ reply = "error" => ~Published(p)
<1>1. CASE Commit(p)
  <2>1. Contains(Stable.ops, call[p].op)
    BY <1>1 DEF Commit, StoreInv, WriterInStep, InStep
  <2> QED BY <1>1, <2>1, StepNames DEF Commit, At, Name
<1>2. CASE Fail(p)
  <2>1. ~Published(p)
    BY <1>2 DEF Fail, Published, At, Name
  <2> QED BY <1>2, <2>1, StepNames DEF Fail, At
<1>3. CASE Uncertain(p)
  BY <1>3, StepNames DEF Uncertain, Renamed, At
<1>4. CASE Kill(p)
  BY <1>4 DEF Kill
<1> QED BY <1>1, <1>2, <1>3, <1>4

(* A power loss keeps one of the registry files, and with it its backup. *)
LEMMA PowerLossInv ==
  ASSUME StoreInv, PowerLoss
  PROVE  /\ FilesSynced' /\ OneWriter' /\ FilesOrdered' /\ BackupsKept'
         /\ WriterInStep' /\ AnswersJustified'
         /\ \E r \in Files("registry") : Visible' = Contents(r) /\ Stable' = Contents(r)
<1>1. PICK r \in Files("registry"), b \in Files("backup") :
        disk' = [n \in Name |-> IF n = "registry" THEN r ELSE b]
  BY RecoveredFiles DEF PowerLoss, StoreInv, Name
<1>2. renames' = [n \in Name |-> << >>] /\ pc' = [p \in Process |-> Idle]
      /\ answer' = [o \in Op |-> IF answer[o] = "running" THEN "lost" ELSE answer[o]]
  BY DEF PowerLoss
<1>3. /\ disk'["registry"] = r /\ disk'["backup"] = b
      /\ renames'["registry"] = << >> /\ renames'["backup"] = << >>
  BY <1>1, <1>2 DEF Name
<1>5. /\ Live("registry")' = r /\ Files("registry")' = {r}
      /\ Files("backup")' = {b}
  BY <1>3, EmptyDomain DEF Live, Files
<1>6. Visible' = Contents(r) /\ Stable' = Contents(r)
  BY <1>3, <1>5 DEF Visible, Stable, Contents
<1>7. FilesSynced'
  BY <1>5 DEF StoreInv, FilesSynced, Name
<1>8. OneWriter' /\ WriterInStep'
  BY <1>2, IdleInStep DEF OneWriter, WriterInStep
<1>9. Contents(r) \in Document /\ Visible \in Document /\ Stable \in Document
  BY LiveIsAFile, ContentsTyped, VisibleTyped DEF StoreInv, Name
<1>10. FilesOrdered'
  <2>1. Prefix(Contents(r).ops, Contents(r).ops)
    BY <1>9 DEF Prefix, Document
  <2> QED BY <1>5, <1>6, <2>1 DEF FilesOrdered, Contents
<1>11. BackupsKept'
  <2>1. Contents(r).schema = 1 => Contents(r).backup = Absent
    BY DEF StoreInv, BackupsKept
  <2>2. ASSUME Contents(r).backup # Absent
        PROVE  /\ b # Absent /\ b.doc.schema = 1 /\ b.doc.ops = Contents(r).backup
    <3>1. /\ renames["backup"] = << >> /\ disk["backup"] # Absent
          /\ disk["backup"].doc.schema = 1
          /\ disk["backup"].doc.ops = Contents(r).backup
      BY <2>2 DEF StoreInv, BackupsKept
    <3>2. b = disk["backup"]
      BY <3>1, EmptyDomain DEF Files
    <3> QED BY <3>1, <3>2
  <2> QED BY <1>3, <1>5, <1>6, <2>1, <2>2 DEF BackupsKept, Contents
<1>12. AnswersJustified'
  <2>1. Prefix(Contents(r).ops, Visible.ops) /\ Prefix(Stable.ops, Contents(r).ops)
    BY DEF StoreInv, FilesOrdered
  <2>2. /\ Contents(r).ops \in Seq(Op) /\ Visible.ops \in Seq(Op) /\ Stable.ops \in Seq(Op)
    BY <1>9 DEF Document
  <2>3. \A x \in Op : /\ Contains(Contents(r).ops, x) => Contains(Visible.ops, x)
                      /\ Contains(Stable.ops, x) => Contains(Contents(r).ops, x)
    BY <2>1, <2>2, PrefixFacts
  <2>4. ASSUME NEW x \in Op, Contains(Contents(r).ops, x)
        PROVE  answer'[x] \in {"ok", "uncertain", "lost"}
    <3>1. \/ answer[x] \in {"ok", "uncertain", "lost"}
          \/ \E p \in Process : Published(p) /\ call[p].op = x
      BY <2>3, <2>4 DEF StoreInv, AnswersJustified
    <3>2. ASSUME NEW p \in Process, Published(p) PROVE answer[call[p].op] = "running"
      BY <3>2, ActiveIsAlone, IdleInStep
    <3> QED BY <1>2, <3>1, <3>2
  <2>5. \A x \in Op : answer'[x] = "ok" => answer[x] = "ok"
    BY <1>2
  <2>6. \A x \in Op : answer'[x] = "ok" => Contains(Contents(r).ops, x)
    BY <2>3, <2>5 DEF StoreInv, AnswersJustified
  <2> QED BY <1>6, <2>4, <2>6 DEF AnswersJustified, Contains
<1> QED BY <1>6, <1>7, <1>8, <1>10, <1>11, <1>12

------------------------------------------------------------------------------
(* The invariant holds, and what follows from it *)

(* Before the first call there are no files. *)
LEMMA InitInv ==
  ASSUME Init
  PROVE  StoreInv
<1>1. TypeOK
  BY DEF Init, TypeOK, Steps, Answer
<1>2. \A n \in Name : disk[n] = Absent /\ renames[n] = << >>
  BY DEF Init
<1>4. \A n \in Name : Live(n) = Absent /\ Files(n) = {Absent}
  BY <1>2, EmptyDomain DEF Live, Files
<1>5. Visible = Empty /\ Stable = Empty /\ \A f \in Files("registry") : Contents(f) = Empty
  BY <1>2, <1>4 DEF Visible, Stable, Contents, Name
<1>6. Empty.ops = << >> /\ Empty.backup = Absent
  BY DEF Empty
<1>7. FilesSynced /\ FilesOrdered /\ BackupsKept
  BY <1>4, <1>5, <1>6 DEF FilesSynced, FilesOrdered, BackupsKept, Prefix
<1>8. OneWriter /\ WriterInStep
  BY IdleInStep DEF Init, OneWriter, WriterInStep
<1>9. AnswersJustified
  BY <1>5, <1>6 DEF Init, AnswersJustified, Contains
<1> QED BY <1>1, <1>7, <1>8, <1>9 DEF StoreInv

(* Every step of the store keeps the invariant. *)
LEMMA StepInv ==
  ASSUME StoreInv, [Next]_vars
  PROVE  StoreInv'
<1>1. TypeOK'
  BY TypeStep DEF StoreInv
<1>2. ASSUME UNCHANGED <<disk, renames>>, OneWriter', WriterInStep', AnswersJustified'
      PROVE  StoreInv'
  BY <1>1, <1>2, SameFiles DEF StoreInv
<1>3. ASSUME NEW p \in Process, NEW o \in Op, NEW v2 \in BOOLEAN, Begin(p, o, v2)
      PROVE  StoreInv'
  BY <1>2, <1>3, BeginInv DEF Begin
<1>4. ASSUME NEW p \in Process,
             \/ \E n \in Name : WriteTemporary(p, n) \/ SyncTemporary(p, n)
             \/ SaveAfterBackup(p)
      PROVE  StoreInv'
  <2>1. UNCHANGED <<disk, renames>>
    BY <1>4 DEF WriteTemporary, SyncTemporary, SaveAfterBackup
  <2> QED BY <1>2, <1>4, <2>1, TemporaryInv
<1>5. ASSUME NEW p \in Process, NEW n \in Name, Rename(p, n) PROVE StoreInv'
  BY <1>1, <1>5, RenameBackupInv, RenameRegistryInv DEF StoreInv, Name
<1>6. ASSUME NEW p \in Process, NEW n \in Name, ConfirmDurable(p, n) PROVE StoreInv'
  BY <1>1, <1>6, ConfirmInv DEF StoreInv
<1>7. ASSUME NEW p \in Process, Commit(p) \/ Fail(p) \/ Uncertain(p) \/ Kill(p)
      PROVE  StoreInv'
  <2>1. PICK reply \in {"ok", "uncertain", "error", "lost"} :
          /\ Return(p, reply)
          /\ reply = "ok" => Contains(Stable.ops, call[p].op)
          /\ reply = "error" => ~Published(p)
    BY <1>7, WaysOut
  <2>2. UNCHANGED <<disk, renames>>
    BY <2>1 DEF Return
  <2> QED BY <1>2, <1>7, <2>1, <2>2, WaysOut, ReturnInv
<1>8. ASSUME PowerLoss PROVE StoreInv'
  BY <1>1, <1>8, PowerLossInv DEF StoreInv
<1>9. CASE UNCHANGED vars
  <2>1. /\ OneWriter => OneWriter'
        /\ WriterInStep => WriterInStep'
        /\ AnswersJustified => AnswersJustified'
        /\ UNCHANGED <<disk, renames>>
    BY <1>9 DEF vars, OneWriter, WriterInStep, InStep, AnswersJustified, Saving,
                BackingUp, Published, At, Visible, Stable, Live, Contents,
                BackupHeld, Contains
  <2> QED BY <1>2, <2>1 DEF StoreInv
<1> QED BY <1>3, <1>4, <1>5, <1>6, <1>7, <1>8, <1>9 DEF Next

(* The invariant of the store holds in every reachable state. *)
THEOREM StoreInvariant == Spec => []StoreInv
<1>1. Init => StoreInv
  BY InitInv
<1>2. StoreInv /\ [Next]_vars => StoreInv'
  BY StepInv
<1> QED BY <1>1, <1>2, PTL DEF Spec

(* Every operation of the store, and a power loss, keeps the shapes of the   *)
(* files, the lock, the calls and the answers.                               *)
THEOREM StoreTypeCorrect == Spec => []TypeOK
<1>1. StoreInv => TypeOK
  BY DEF StoreInv
<1> QED BY <1>1, StoreInvariant, PTL

(* Whatever instant the power fails at, load finds a whole registry, and the *)
(* backup that a schema 2 registry names.                                    *)
THEOREM RegistryAlwaysLoads == Spec => []AlwaysLoads
<1>1. ASSUME StoreInv PROVE AlwaysLoads
  <2>1. ASSUME NEW r \in Files("registry"), NEW b \in Files("backup")
        PROVE  Loads(r, b)
    <3>1. Contents(r) \in Document
      BY <1>1, LiveIsAFile, ContentsTyped DEF StoreInv, Name
    <3>2. ASSUME Contents(r).backup # Absent
          PROVE  b # Absent /\ b.doc.schema = 1 /\ b.doc.ops = Contents(r).backup
      <4>1. /\ renames["backup"] = << >> /\ disk["backup"] # Absent
            /\ disk["backup"].doc.schema = 1
            /\ disk["backup"].doc.ops = Contents(r).backup
        BY <1>1, <3>2 DEF StoreInv, BackupsKept
      <4>2. b = disk["backup"]
        BY <4>1, EmptyDomain DEF Files
      <4> QED BY <4>1, <4>2
    <3> QED BY <3>1, <3>2 DEF Loads, Document
  <2>2. Live("registry") \in Files("registry") /\ Live("backup") \in Files("backup")
    BY <1>1, LiveIsAFile DEF StoreInv, Name
  <2>3. Recovered("registry") = Files("registry") /\ Recovered("backup") = Files("backup")
    BY <1>1, RecoveredFiles DEF StoreInv, Name
  <2> QED BY <2>1, <2>2, <2>3 DEF AlwaysLoads
<1> QED BY <1>1, StoreInvariant, PTL

(* transact's Ok survives every power loss; its error other than             *)
(* CommitUncertain leaves no trace.                                          *)
THEOREM AnswersHonest == Spec => []AnswersAreHonest
<1>1. ASSUME StoreInv PROVE AnswersAreHonest
  <2>1. Recovered("registry") = Files("registry") /\ Live("registry") \in Files("registry")
    BY <1>1, RecoveredFiles, LiveIsAFile DEF StoreInv, Name
  <2>2. ASSUME NEW o \in Op, NEW r \in Files("registry")
        PROVE  /\ answer[o] = "ok" => Contains(Contents(r).ops, o)
               /\ answer[o] = "error" => ~Contains(Contents(r).ops, o)
    <3>1. Prefix(Stable.ops, Contents(r).ops) /\ Prefix(Contents(r).ops, Visible.ops)
      BY <1>1 DEF StoreInv, FilesOrdered
    <3>2. /\ Contents(r).ops \in Seq(Op) /\ Stable.ops \in Seq(Op)
          /\ Visible.ops \in Seq(Op)
      BY <1>1, LiveIsAFile, ContentsTyped, VisibleTyped DEF StoreInv, Name, Document
    <3>3. /\ Contains(Stable.ops, o) => Contains(Contents(r).ops, o)
          /\ Contains(Contents(r).ops, o) => Contains(Visible.ops, o)
      BY <3>1, <3>2, PrefixFacts
    <3>4. answer[o] = "error" => ~Contains(Visible.ops, o)
      <4>1. ASSUME NEW p \in Process, Published(p) PROVE answer[call[p].op] = "running"
        BY <1>1, <4>1, ActiveIsAlone, IdleInStep
      <4> QED BY <1>1, <4>1 DEF StoreInv, AnswersJustified
    <3> QED BY <1>1, <3>3, <3>4 DEF StoreInv, AnswersJustified
  <2> QED BY <2>1, <2>2 DEF AnswersAreHonest
<1> QED BY <1>1, StoreInvariant, PTL

------------------------------------------------------------------------------
(* The files implement the atomic document *)

(* Each step of the store is a step of the atomic document or leaves it      *)
(* alone: a call starts, the rename of the registry publishes, a directory   *)
(* sync stabilises, every way out replies.                                   *)
LEMMA StepRefines ==
  ASSUME StoreInv, [Next]_vars
  PROVE  [Abstract!Next]_(Abstract!vars)
<1>1. ASSUME UNCHANGED <<Visible, Stable, answer>> PROVE UNCHANGED Abstract!vars
  BY <1>1 DEF Abstract!vars, Visible, Stable
<1>2. ASSUME UNCHANGED <<disk, renames>> PROVE Visible' = Visible /\ Stable' = Stable
  BY <1>2, SameFiles
<1>3. ASSUME NEW p \in Process, NEW o \in Op, NEW v2 \in BOOLEAN, Begin(p, o, v2)
      PROVE  Abstract!Start(o)
  <2>1. Visible' = Visible /\ Stable' = Stable
    BY <1>2, <1>3 DEF Begin
  <2> QED BY <1>3, <2>1 DEF Begin, Abstract!Start, Visible, Stable
<1>4. ASSUME NEW p \in Process,
             \/ \E n \in Name : WriteTemporary(p, n) \/ SyncTemporary(p, n)
             \/ SaveAfterBackup(p)
      PROVE  UNCHANGED Abstract!vars
  <2>1. UNCHANGED <<disk, renames, answer>>
    BY <1>4 DEF WriteTemporary, SyncTemporary, SaveAfterBackup
  <2> QED BY <1>1, <1>2, <2>1
<1>5. ASSUME NEW p \in Process, Rename(p, "backup") PROVE UNCHANGED Abstract!vars
  <2>1. Visible' = Visible /\ Stable' = Stable
    BY <1>5, RenameBackupInv
  <2> QED BY <1>1, <1>5, <2>1 DEF Rename
<1>6. ASSUME NEW p \in Process, Rename(p, "registry")
      PROVE  call[p].op \in Op /\ Abstract!Publish(call[p].op)
  <2>1. /\ Visible'.ops = Append(Visible.ops, call[p].op) /\ Stable' = Stable
        /\ ~Contains(Visible.ops, call[p].op)
    BY <1>6, RenameRegistryInv
  <2>2. pc[p] # Idle
    BY <1>6, StepNames DEF Rename, ReadyToRename, At, Name
  <2>3. call[p].op \in Op /\ answer[call[p].op] = "running"
    BY <2>2, ActiveIsAlone DEF Call
  <2>4. answer' = answer
    BY <1>6 DEF Rename
  <2> QED BY <2>1, <2>3, <2>4
          DEF Abstract!Publish, Abstract!Contains, Contains, Visible, Stable
<1>7. ASSUME NEW p \in Process, NEW n \in Name, ConfirmDurable(p, n)
      PROVE  Abstract!Stabilise
  <2>1. Visible' = Visible /\ Stable' = Visible
    BY <1>7, ConfirmInv
  <2>2. answer' = answer
    BY <1>7 DEF ConfirmDurable
  <2> QED BY <2>1, <2>2 DEF Abstract!Stabilise, Visible, Stable
<1>8. ASSUME NEW p \in Process, Commit(p) \/ Fail(p) \/ Uncertain(p) \/ Kill(p)
      PROVE  \E o \in Op : \E reply \in Abstract!Answer : Abstract!Reply(o, reply)
  <2>1. PICK reply \in {"ok", "uncertain", "error", "lost"} :
          /\ pc[p] # Idle
          /\ Return(p, reply)
          /\ reply = "ok" => Contains(Stable.ops, call[p].op)
          /\ reply = "error" => ~Published(p)
    BY <1>8, WaysOut
  <2>2. /\ call[p].op \in Op /\ answer[call[p].op] = "running"
        /\ \A q \in Process \ {p} : pc[q] = Idle
    BY <2>1, ActiveIsAlone DEF Call
  <2>3. \A q \in Process : Published(q) => q = p
    BY <2>2, IdleInStep
  <2>4. reply = "error" => ~Contains(Visible.ops, call[p].op)
    BY <2>1, <2>2, <2>3 DEF StoreInv, AnswersJustified
  <2>5. Visible' = Visible /\ Stable' = Stable
    BY <1>2, <2>1 DEF Return
  <2>6. answer' = [answer EXCEPT ![call[p].op] = reply]
    BY <2>1 DEF Return
  <2>7. Abstract!Reply(call[p].op, reply)
    BY <2>1, <2>2, <2>4, <2>5, <2>6
       DEF Abstract!Reply, Abstract!Answer, Abstract!Contains, Contains, Visible, Stable
  <2>8. reply \in Abstract!Answer
    BY DEF Abstract!Answer
  <2> QED BY <2>2, <2>7, <2>8
<1>9. ASSUME PowerLoss PROVE Abstract!PowerLoss
  <2>1. PICK r \in Files("registry") : Visible' = Contents(r) /\ Stable' = Contents(r)
    BY <1>9, PowerLossInv
  <2>2. Prefix(Stable.ops, Contents(r).ops) /\ Prefix(Contents(r).ops, Visible.ops)
    BY DEF StoreInv, FilesOrdered
  <2>3. /\ Contents(r).ops \in Seq(Op) /\ Stable.ops \in Seq(Op)
        /\ Visible.ops \in Seq(Op)
    BY LiveIsAFile, ContentsTyped, VisibleTyped DEF StoreInv, Name, Document
  <2>4. Len(Contents(r).ops) \in Len(Stable.ops) .. Len(Visible.ops)
    BY <2>2, <2>3 DEF Prefix
  <2>5. Contents(r).ops = SubSeq(Visible.ops, 1, Len(Contents(r).ops))
    BY <2>2, <2>3, PrefixFacts
  <2>6. answer' = [o \in Op |-> IF answer[o] = "running" THEN "lost" ELSE answer[o]]
    BY <1>9 DEF PowerLoss
  <2>7. Visible'.ops = SubSeq(Visible.ops, 1, Len(Contents(r).ops)) /\ Stable' = Visible'
    BY <2>1, <2>5
  <2> QED BY <2>4, <2>6, <2>7 DEF Abstract!PowerLoss, Visible, Stable
<1>10. CASE UNCHANGED vars
  BY <1>1, <1>2, <1>10 DEF vars
<1> QED BY <1>3, <1>4, <1>5, <1>6, <1>7, <1>8, <1>9, <1>10
        DEF Next, Name, Abstract!Next

(* The write, sync, rename and directory sync of save, the backup before the *)
(* migration and every failure between them behave to the callers as one     *)
(* document that changes by whole operations.                                *)
THEOREM FilesImplementAtomicDocument == Spec => ImplementsAtomicDocument
<1>1. Init => Abstract!Init
  BY DEF Init, Abstract!Init, Live, Contents, Empty, Name
<1>2. StoreInv /\ [Next]_vars => [Abstract!Next]_(Abstract!vars)
  BY StepRefines
<1> QED BY <1>1, <1>2, StoreInvariant, PTL
        DEF Spec, ImplementsAtomicDocument, Abstract!Spec
=============================================================================
