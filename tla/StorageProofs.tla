--------------------------- MODULE StorageProofs ---------------------------
(***************************************************************************)
(* Lemmas about the steps of Storage, for the proofs of the packages that  *)
(* are composed with it: they keep its invariant, if the package lets no   *)
(* Restore begin while the task of Schedule is alive.                      *)
(***************************************************************************)
EXTENDS Storage, TLAPS

LEMMA ContentTypes ==
  /\ Version \subseteq Nat /\ 0 \in Version
  /\ None \notin Content /\ None \notin Version /\ Partial \notin Version
BY StorageAssumption DEF Version, Content

LEMMA LatestOf ==
  ASSUME NEW a \in Version \cup {None}, NEW b \in Version \cup {None}
  PROVE  /\ Latest(a, b) \in {a, b}
         /\ a \in Version => Latest(a, b) \in Version /\ a <= Latest(a, b)
         /\ b \in Version => Latest(a, b) \in Version /\ b <= Latest(a, b)
BY ContentTypes DEF Latest

\* A package starts with what it finds on the host.
LEMMA StorageInitInv == StorageInit => StorageInv
<1> SUFFICES ASSUME StorageInit PROVE StorageInv
  OBVIOUS
<1> USE ContentTypes
<1>1. PICK f \in Found : /\ volume = f[1] /\ archive = f[2] /\ visible = f[2]
                         /\ writes = Latest(Latest(f[1], f[2]), 0)
  BY DEF StorageInit
<1>2. f[1] \in Version \cup {None} /\ f[2] \in Version \cup {None}
  BY <1>1, StorageAssumption DEF Version
<1> DEFINE newest == Latest(f[1], f[2])
<1>3. /\ newest \in Version \cup {None}
      /\ \A content \in {f[1], f[2]} \cap Version : newest \in Version /\ content <= newest
  BY <1>2, LatestOf
<1>4. writes = Latest(newest, 0)
  BY <1>1
<1>5. writes \in Version /\ (newest \in Version => newest <= writes)
  <2> HIDE DEF newest
  <2> QED
    BY <1>3, <1>4, LatestOf
<1>6. \A content \in Copies \cap Version : content <= writes
  <2> HIDE DEF newest
  <2> SUFFICES ASSUME NEW content \in Version, content \in {f[1], f[2]}
               PROVE  content <= writes
    BY <1>1 DEF StorageInit, Copies
  <2>1. newest \in Version /\ content <= newest
    BY <1>3
  <2>2. content \in Nat /\ newest \in Nat /\ writes \in Nat /\ newest <= writes
    BY <1>5, <2>1
  <2> QED
    BY <2>1, <2>2
<1>7. StorageTypeOK
  BY <1>1, <1>2, <1>5 DEF StorageInit, StorageTypeOK, Content
<1> QED
  BY <1>6, <1>7 DEF StorageInit, StorageInv, NoBackupDuringRestore, BackupInv

-----------------------------------------------------------------------------
(* The steps of the storage itself.                                        *)

LEMMA RestoreKeeps ==
  ASSUME StorageInv,
         EnsureVolumes \/ NoBackup \/ Download \/ UnpackEnds \/ RestoreFails
  PROVE  StorageInv' /\ restore # "off" /\ restore' # "off" /\ timer = "off" /\ timer' = "off"
         /\ UNCHANGED <<cancelled, archive>>
<1> USE ContentTypes DEF EnsureVolumes, NoBackup, Download, UnpackEnds, RestoreFails, task,
                         provider
<1>1. restore # "off" /\ restore' # "off" /\ timer = "off" /\ timer' = "off"
  BY DEF StorageInv, NoBackupDuringRestore
<1>2. StorageTypeOK'
  BY DEF StorageInv, StorageTypeOK, Unpacked, Content
<1>3. \A content \in Copies' \cap Version : content \in Copies \/ content = 0
  <2>1. CASE UnpackEnds
    BY <2>1 DEF Copies, Unpacked
  <2>2. CASE ~UnpackEnds
    BY <2>2 DEF Copies
  <2> QED
    BY <2>1, <2>2
<1>4. writes' = writes /\ writes \in Nat
  BY DEF StorageInv, StorageTypeOK
<1>5. \A content \in Copies' \cap Version : content <= writes'
  BY <1>3, <1>4 DEF StorageInv, BackupInv
<1>6. restore' = "ok" => spoiled' \/ Covers(volume, archive)'
  <2>1. CASE NoBackup
    BY <2>1 DEF Covers
  <2>2. CASE UnpackEnds
    <3> SUFFICES ASSUME ~spoiled' PROVE Covers(volume, archive)'
      OBVIOUS
    <3>1. volume' = archive /\ archive' = archive
      BY <2>2
    <3> QED
      BY <3>1 DEF Covers
  <2>3. CASE EnsureVolumes \/ Download \/ RestoreFails
    BY <2>3
  <2> QED
    BY <2>1, <2>2, <2>3
<1>7. BackupInv'
  BY <1>1, <1>5, <1>6 DEF BackupInv
<1>8. NoBackupDuringRestore'
  BY <1>1 DEF NoBackupDuringRestore
<1> QED
  BY <1>1, <1>2, <1>7, <1>8 DEF StorageInv

\* What a stray busybox does is all noted in spoiled.
LEMMA OrphanKeeps ==
  ASSUME StorageInv, OrphanEnds
  PROVE  StorageInv' /\ spoiled' /\ UNCHANGED <<cancelled, archive, restore, timer>>
<1> USE DEF OrphanEnds, task, provider
<1>1. StorageTypeOK'
  BY DEF StorageInv, StorageTypeOK, Unpacked, Content
<1>2. \A content \in Copies' : content \in Copies \/ content = Partial
  BY DEF Copies, Unpacked
<1>3. \A content \in Copies' \cap Version : content <= writes'
  BY <1>2, ContentTypes DEF StorageInv, BackupInv
<1> QED
  BY <1>1, <1>3 DEF StorageInv, NoBackupDuringRestore, BackupInv

\* The task packs what covers the archive, and that is what it uploads.
LEMMA BackupKeeps ==
  ASSUME StorageInv, Tick \/ Pack \/ Upload \/ BackupFails \/ TimerEnds
  PROVE  /\ StorageInv' /\ timer # "off" /\ restore = "off"
         /\ UNCHANGED <<cancelled, restore, spoiled>>
         /\ archive \in Version /\ archive' \in Version => archive' >= archive \/ spoiled
<1> USE ContentTypes DEF Tick, Pack, Upload, BackupFails, TimerEnds, restoring, provider
<1>1. timer # "off" /\ restore = "off" /\ UNCHANGED <<cancelled, restore, spoiled, writes, volume>>
  BY DEF StorageInv, NoBackupDuringRestore
<1>2. StorageTypeOK'
  BY DEF StorageInv, StorageTypeOK, Content
<1>3. \A content \in Copies' : content \in Copies \/ content \in {Partial, None}
  BY DEF Copies
<1>4. \A content \in Copies' \cap Version : content <= writes'
  BY <1>1, <1>3 DEF StorageInv, BackupInv
<1>5. ASSUME ~spoiled PROVE Covers(volume, archive)'
  BY <1>1, <1>5 DEF StorageInv, StorageTypeOK, BackupInv, Covers, Content
<1>6. ASSUME ~spoiled, timer' = "upload", snapshot' \in Version
      PROVE  Covers(volume, snapshot)' /\ Covers(snapshot, archive)'
  BY <1>1, <1>6 DEF StorageInv, StorageTypeOK, BackupInv, Covers, Content
<1>7. BackupInv'
  BY <1>1, <1>4, <1>5, <1>6 DEF BackupInv
<1>8. archive \in Version /\ archive' \in Version => archive' >= archive \/ spoiled
  BY <1>1 DEF StorageInv, StorageTypeOK, BackupInv, Covers, Content
<1> QED
  BY <1>1, <1>2, <1>7, <1>8 DEF StorageInv, NoBackupDuringRestore

\* An archive that appears is one there was already.
LEMMA AppearKeeps ==
  ASSUME StorageInv, Appear
  PROVE  StorageInv' /\ UNCHANGED <<cancelled, volume, archive, restore, timer, spoiled>>
<1> USE DEF Appear, restoring, task
<1>1. StorageTypeOK'
  BY DEF StorageInv, StorageTypeOK
<1>2. \A content \in Copies' : content \in Copies
  BY DEF Copies
<1> QED
  BY <1>1, <1>2 DEF StorageInv, NoBackupDuringRestore, BackupInv

\* All of them together: what a package needs to know of what goes on in its
\* storage meanwhile.
LEMMA StorageStepKeeps ==
  ASSUME StorageInv, StorageStep
  PROVE  /\ StorageInv' /\ cancelled' = cancelled
         /\ restore # "off" <=> restore' # "off"
         /\ timer = "off" => timer' = "off"
         /\ timer = "off" => archive' = archive
         /\ restore = "off" /\ timer = "off" => spoiled' \/ volume' = volume
         /\ restore = "off" /\ spoiled => spoiled'
         /\ archive \in Version /\ archive' \in Version => archive' >= archive \/ spoiled
<1>1. CASE EnsureVolumes \/ NoBackup \/ Download \/ UnpackEnds \/ RestoreFails
  <2>1. restore # "off"
    BY <1>1, RestoreKeeps
  <2>2. archive \in Version => archive >= archive
    BY ContentTypes
  <2> QED
    BY <1>1, <2>1, <2>2, RestoreKeeps
<1>2. CASE OrphanEnds
  <2>1. archive \in Version => archive >= archive
    BY ContentTypes
  <2> QED
    BY <1>2, <2>1, OrphanKeeps
<1>3. CASE Tick \/ Pack \/ Upload \/ BackupFails \/ TimerEnds
  BY <1>3, BackupKeeps
<1>4. CASE Appear
  <2>1. archive \in Version => archive >= archive
    BY ContentTypes
  <2> QED
    BY <1>4, <2>1, AppearKeeps
<1> QED
  BY <1>1, <1>2, <1>3, <1>4 DEF StorageStep

-----------------------------------------------------------------------------
(* The steps of the package in the storage.                                *)

LEMMA StorageStutter == StorageInv /\ UNCHANGED storage /\ cancelled' \in BOOLEAN => StorageInv'
BY DEF StorageInv, StorageTypeOK, NoBackupDuringRestore, BackupInv, Copies, storage, restoring,
       task, provider

LEMMA CallRestoreKeeps == StorageInv /\ timer = "off" /\ CallRestore /\ cancelled' \in BOOLEAN => StorageInv'
BY DEF CallRestore, StorageInv, StorageTypeOK, NoBackupDuringRestore, BackupInv, Copies, task,
       provider

\* When Restore has returned well the volume covers the archive.
LEMMA ReturnedKeeps ==
  ASSUME StorageInv, UNCHANGED <<task, cancelled>>, NEW result \in {"ok", "failed"}, Returned(result)
  PROVE  /\ StorageInv' /\ restore' = "off"
         /\ result = "ok" => spoiled' \/ Covers(volume, archive)'
BY DEF Returned, StorageInv, StorageTypeOK, NoBackupDuringRestore, BackupInv, Copies, Covers, task,
       provider

LEMMA ScheduleKeeps ==
  ASSUME StorageInv, Schedule, restore = "off", spoiled \/ Covers(volume, archive),
         UNCHANGED <<volume, provider, writes, restoring, spoiled, cancelled>>
  PROVE  StorageInv'
<1> USE DEF Schedule, restoring, provider
<1>1. StorageTypeOK'
  BY DEF StorageInv, StorageTypeOK
<1>2. \A content \in Copies' : content \in Copies \/ content = None
  BY DEF Copies
<1> QED
  BY <1>1, <1>2, ContentTypes DEF StorageInv, NoBackupDuringRestore, BackupInv, Covers

LEMMA HaltKeeps == StorageInv /\ Halt /\ cancelled' \in BOOLEAN => StorageInv'
BY DEF Halt, StorageInv, StorageTypeOK, NoBackupDuringRestore, BackupInv, Copies, restoring,
       provider

\* A write is newer than all there is.
LEMMA WriteKeeps ==
  ASSUME StorageInv, Write, cancelled' \in BOOLEAN
  PROVE  /\ StorageInv'
         /\ spoiled \/ Covers(volume, archive) => spoiled \/ Covers(volume, archive)'
<1> USE ContentTypes DEF Write, restoring, task, provider
<1>1. writes + 1 \in Version /\ writes \in Nat
  BY StorageAssumption DEF StorageInv, StorageTypeOK, Version
<1>2. StorageTypeOK'
  BY <1>1 DEF StorageInv, StorageTypeOK, Content
<1>3. \A content \in Copies' : content \in Copies \/ content = writes + 1
  BY DEF Copies
<1>4. ASSUME NEW content \in Copies \cap Version PROVE content <= writes + 1
  <2>1. content \in Nat /\ content <= writes
    BY DEF StorageInv, BackupInv
  <2> QED
    BY <1>1, <2>1
<1>5. ASSUME NEW content \in Copies' \cap Version PROVE content <= writes'
  <2>1. writes' = writes + 1 /\ writes + 1 <= writes + 1
    BY <1>1
  <2> QED
    BY <1>3, <1>4, <2>1
<1>6. Covers(volume, archive)' /\ (snapshot' \in Version => Covers(volume, snapshot)')
  BY <1>1, <1>4 DEF Copies, Covers
<1>7. BackupInv'
  BY <1>5, <1>6 DEF StorageInv, BackupInv, Covers
<1> QED
  BY <1>2, <1>6, <1>7 DEF StorageInv, NoBackupDuringRestore

LEMMA CrashKeeps ==
  ASSUME StorageInv, StorageCrash, cancelled' \in BOOLEAN
  PROVE  StorageInv'
<1> USE DEF StorageCrash, provider
<1>1. StorageTypeOK'
  BY DEF StorageInv, StorageTypeOK, Content
<1>2. \A content \in Copies' : content \in Copies \/ content = None
  BY DEF Copies
<1>3. BackupInv' /\ NoBackupDuringRestore'
  BY <1>2, ContentTypes DEF StorageInv, BackupInv, NoBackupDuringRestore
<1> QED
  BY <1>1, <1>3 DEF StorageInv
=============================================================================
