------------------------------ MODULE Storage ------------------------------
(***************************************************************************)
(* The volumes of one package and their backup (core/storage/storage.go,   *)
(* backup/, internal.Timer).  Restore unpacks the archive into the volumes *)
(* and Backup packs them, each in a busybox container that docker runs     *)
(* whether or not the caller still waits for it.  Backup is called by the  *)
(* task of Schedule, whose context derives from that of the package.       *)
(*                                                                         *)
(* The data of the volumes is a version: the number of the last write of   *)
(* the application, or Partial after an archive has been unpacked halfway. *)
(* The module has the state and the steps; a package composes them with    *)
(* its own.                                                                *)
(***************************************************************************)
EXTENDS Naturals

CONSTANTS None,      \* no volume, no archive
          Partial,   \* part of the data, or a mixture of versions
          Found,     \* pairs of what volume and archive may hold at first
          MaxWrites, \* bound on the writes of the application
          Late       \* whether the provider may show an archive late

ASSUME StorageAssumption == /\ MaxWrites \in Nat /\ None # Partial /\ Late \in BOOLEAN
                            /\ None \notin Nat /\ Partial \notin Nat
                            /\ Found \subseteq ((0..MaxWrites) \cup {None}) \X ((0..MaxWrites) \cup {None})

VARIABLES
    cancelled, \* the context of the package is done
    volume,    \* what the volumes hold
    archive,   \* what the backup provider was given last
    visible,   \* what it lets one download: B2 takes minutes to show an archive (Late)
    writes,    \* how often the application has written
    restore,   \* where Restore is, and how it has returned
    unpacking, \* the archive in the busybox container Restore waits for
    orphans,   \* the archives in busybox containers nobody waits for
    timer,     \* the task of Schedule: off, waiting for a tick, or in Backup
    snapshot,  \* the archive Backup has packed
    halted,    \* Stop has cancelled the context of the task
    spoiled    \* the volumes may lack what the archive has (history)

task == <<timer, snapshot, halted>>
restoring == <<restore, unpacking, orphans>>
provider == <<archive, visible>>
storage == <<volume, provider, writes, restoring, task, spoiled>>

Version == 0..MaxWrites
Content == Version \cup {Partial}

\* The larger of two versions, where None is no version.
Latest(a, b) == IF b = None \/ (a # None /\ a >= b) THEN a ELSE b

StorageInit ==
    /\ cancelled = FALSE
    /\ \E f \in Found : /\ volume = f[1] /\ archive = f[2] /\ visible = f[2]
                        /\ writes = Latest(Latest(f[1], f[2]), 0)
    /\ restore = "off" /\ unpacking = None /\ orphans = {}
    /\ timer = "off" /\ snapshot = None /\ halted = FALSE
    /\ spoiled = FALSE

-----------------------------------------------------------------------------
(* Restore.                                                                *)

\* Volumes that do not exist are created.
EnsureVolumes ==
    /\ restore = "ensure"
    /\ volume' = IF volume = None THEN 0 ELSE volume
    /\ restore' = "download"
    /\ UNCHANGED <<cancelled, provider, writes, unpacking, orphans, task, spoiled>>

\* ErrBackupNotExists: there is nothing to restore, or it is not seen yet.
NoBackup ==
    /\ restore = "download"
    /\ visible = None
    /\ spoiled' = (archive # None)
    /\ restore' = "ok"
    /\ UNCHANGED <<cancelled, volume, provider, writes, unpacking, orphans, task>>

\* The archive is downloaded and decrypted, and busybox starts to unpack it.
Download ==
    /\ restore = "download"
    /\ visible # None
    /\ unpacking' = visible
    /\ restore' = "wait"
    /\ UNCHANGED <<cancelled, volume, provider, writes, orphans, task, spoiled>>

\* What tar leaves in the volume, completely, halfway or not at all.
Unpacked(content) == {content, volume, Partial}

\* ContainerWait answers.  The exit status of tar is not looked at; a busybox
\* that docker has removed by then is an error.  The volumes are as good as the
\* archive again, unless tar failed or a newer archive had not been seen.
UnpackEnds ==
    /\ restore = "wait"
    /\ volume' \in Unpacked(unpacking)
    /\ spoiled' = (volume' # unpacking \/ unpacking # archive)
    /\ unpacking' = None
    /\ restore' \in {"ok", "failed"}
    /\ UNCHANGED <<cancelled, provider, writes, orphans, task>>

\* Mutant: the package goes on without its data.
RestoreIgnored ==
    /\ restore \in {"ensure", "download", "wait"}
    /\ restore' = "ok"
    /\ unpacking' = None
    /\ orphans' = orphans \cup ({unpacking} \ {None})
    /\ UNCHANGED <<cancelled, volume, provider, writes, task, spoiled>>

\* A call fails, or the context is cancelled under it: busybox goes on.
RestoreFails ==
    /\ restore \in {"ensure", "download", "wait"}
    /\ restore' = "failed"
    /\ unpacking' = None
    /\ orphans' = orphans \cup ({unpacking} \ {None})
    /\ UNCHANGED <<cancelled, volume, provider, writes, task, spoiled>>

\* A busybox that nobody waits for ends.
OrphanEnds ==
    /\ \E content \in orphans :
         /\ volume' \in Unpacked(content)
         /\ orphans' = orphans \ {content}
    /\ spoiled' = TRUE
    /\ UNCHANGED <<cancelled, provider, writes, restore, unpacking, task>>

-----------------------------------------------------------------------------
(* The task of Schedule, and Backup.                                       *)

\* The ticker fires; with a cancelled context Backup fails at once.
Tick ==
    /\ timer = "wait"
    /\ ~cancelled /\ ~halted
    /\ timer' = "pack"
    /\ UNCHANGED <<cancelled, volume, provider, writes, restoring, snapshot, halted, spoiled>>

\* busybox packs the volumes; again nobody looks at the exit status.
Pack ==
    /\ timer = "pack"
    /\ snapshot' \in {volume, Partial}
    /\ timer' = "upload"
    /\ UNCHANGED <<cancelled, volume, provider, writes, restoring, halted, spoiled>>

\* The archive is encrypted and replaces the one of the provider, by a rename
\* or a put; a copy to a directory does not look at the context.
Upload ==
    /\ timer = "upload"
    /\ archive' = snapshot
    /\ visible' \in {visible, snapshot} /\ (Late \/ visible' = snapshot)
    /\ timer' = "wait" /\ snapshot' = None
    /\ UNCHANGED <<cancelled, volume, writes, restoring, halted, spoiled>>

\* The provider lets one download what it was given last.
Appear ==
    /\ visible # archive
    /\ visible' = archive
    /\ UNCHANGED <<cancelled, volume, archive, writes, restoring, task, spoiled>>

\* A call fails or is cancelled; the task logs it.
BackupFails ==
    /\ timer \in {"pack", "upload"}
    /\ timer' = "wait" /\ snapshot' = None
    /\ UNCHANGED <<cancelled, volume, provider, writes, restoring, halted, spoiled>>

\* The context of the task is done, and the goroutine ends.
TimerEnds ==
    /\ timer = "wait"
    /\ cancelled \/ halted
    /\ timer' = "off"
    /\ UNCHANGED <<cancelled, volume, provider, writes, restoring, snapshot, halted, spoiled>>

-----------------------------------------------------------------------------
StorageStep == \/ EnsureVolumes \/ NoBackup \/ Download \/ UnpackEnds \/ RestoreFails
               \/ OrphanEnds \/ Tick \/ Pack \/ Upload \/ Appear \/ BackupFails \/ TimerEnds

\* The goroutine of Restore does something, or the one of the task.
RestoreStep == EnsureVolumes \/ NoBackup \/ Download \/ UnpackEnds \/ RestoreFails
BackupStep == Pack \/ Upload \/ BackupFails \/ TimerEnds

\* The steps a package takes in the storage: it calls Restore and looks at
\* the result, calls Schedule and calls Stop, and its containers write.
CallRestore == /\ restore' = "ensure"
               /\ UNCHANGED <<volume, provider, writes, unpacking, orphans, task, spoiled>>

Returned(result) ==
    /\ restore = result
    /\ restore' = "off"
    /\ UNCHANGED <<volume, provider, writes, unpacking, orphans, spoiled>>

Schedule == timer' = "wait" /\ snapshot' = None /\ halted' = FALSE

Halt == /\ halted' = TRUE
        /\ UNCHANGED <<volume, provider, writes, restoring, timer, snapshot, spoiled>>

Write ==
    /\ writes < MaxWrites
    /\ writes' = writes + 1
    /\ volume' = writes + 1
    /\ UNCHANGED <<provider, restoring, task, spoiled>>

\* The process dies: its goroutines are gone, the busybox containers are not.
StorageCrash ==
    /\ restore' = "off" /\ unpacking' = None
    /\ orphans' = orphans \cup ({unpacking} \ {None})
    /\ timer' = "off" /\ snapshot' = None /\ halted' = FALSE
    /\ UNCHANGED <<volume, provider, writes, spoiled>>

-----------------------------------------------------------------------------
StorageTypeOK ==
    /\ cancelled \in BOOLEAN /\ halted \in BOOLEAN /\ spoiled \in BOOLEAN
    /\ volume \in Content \cup {None} /\ archive \in Content \cup {None}
    /\ visible \in Content \cup {None}
    /\ writes \in Version
    /\ restore \in {"off", "ensure", "download", "wait", "ok", "failed"}
    /\ unpacking \in Content \cup {None} /\ orphans \subseteq Content
    /\ timer \in {"off", "wait", "pack", "upload"} /\ snapshot \in Content \cup {None}

\* Restore never meets a Backup of the previous deployment: an archive is not
\* replaced while it is being restored, nor by a snapshot from before.
NoBackupDuringRestore == restore # "off" => timer = "off"

\* An upload never replaces an archive by an older one, whatever the order of
\* redeployments, cancellations and crashes, unless the Restore of this very
\* deployment has left something else than the last archive in the volumes,
\* because tar failed or the provider did not show that archive yet, or an
\* abandoned busybox has since been at the volumes.  The next good Restore ends
\* the exception.
BackupsAdvance ==
    [][(archive \in Version /\ archive' \in Version) => (archive' >= archive \/ spoiled)]_archive

\* _docs/04_backup.md: "Restore will be done automatically before the first
\* run": once the application has written here, a restore does not bring an
\* older version back.
RestoreOnlyFirst ==
    [][(volume \in Version /\ volume' \in Version /\ ~spoiled') => volume' >= volume]_volume

\* What makes BackupsAdvance inductive: no copy is newer than the last write,
\* and unless it was spoiled, what is backed up has everything the archive has,
\* from the end of Restore on.
Covers(newer, older) == older \in Version => newer \in Version /\ newer >= older

Copies == {volume, archive, visible, unpacking, snapshot} \cup orphans

BackupInv ==
    /\ \A content \in Copies \cap Version : content <= writes
    /\ ~spoiled =>
        /\ timer # "off" \/ restore = "ok" => Covers(volume, archive)
        /\ timer = "upload" /\ snapshot \in Version =>
               Covers(volume, snapshot) /\ Covers(snapshot, archive)

StorageInv == StorageTypeOK /\ NoBackupDuringRestore /\ BackupInv
=============================================================================
