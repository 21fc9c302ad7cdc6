------------------------ MODULE ComposePackageProofs ------------------------
(***************************************************************************)
(* Proofs about ComposePackage for any containers, any data and any        *)
(* failures and crashes: what is published is up, nothing is left behind   *)
(* unnoticed, backups do not go back, and Run is the task the poller takes *)
(* it for.                                                                 *)
(***************************************************************************)
EXTENDS ComposePackage, StorageProofs

LEMMA InitInv == Init => ComposeInv
<1> SUFFICES ASSUME Init PROVE ComposeInv
  OBVIOUS
<1> USE DEF Init, Steps, Deferred
<1>1. StorageInv
  BY StorageInitInv
<1>2. TypeOK
  BY <1>1 DEF StorageInv, TypeOK
<1>3. StorageInPlace /\ ContainersInPlace
  BY DEF StorageInit, StorageInPlace, ContainersInPlace
<1>4. OutcomeInPlace
  BY DEF OutcomeInPlace, outcome
<1> QED
  BY <1>1, <1>2, <1>3, <1>4 DEF ComposeInv

-----------------------------------------------------------------------------
(* The storage.                                                            *)

\* Steps of Run and of docker that do not touch the storage.
Aside == \/ Spawn \/ Build \/ Up \/ UpFails \/ MapContainers \/ SetIngress \/ RegisterDNS
         \/ Destroy \/ ClearIngress \/ StopComposition \/ Return \/ Cancel
         \/ \E c \in Container : Join(c) \/ JoinFails(c) \/ LeaveNetwork(c) \/ Exits(c)

LEMMA AsideInStorage == ASSUME ComposeInv, Aside PROVE StorageInv' /\ StorageInPlace'
<1> USE DEF Aside, Goto, Fail
<1>1. UNCHANGED storage /\ cancelled' \in BOOLEAN
  BY DEF ComposeInv, TypeOK, StorageTypeOK, Spawn, Build, Up, UpFails, MapContainers, SetIngress,
         RegisterDNS, Destroy, ClearIngress, StopComposition, Return, Cancel, Join, JoinFails,
         LeaveNetwork, Exits
<1>2. StorageInv'
  BY <1>1, StorageStutter DEF ComposeInv
<1>3. /\ pc' = pc \/ (pc # "restore" /\ pc' # "restore")
      /\ pc' # "schedule" \/ pc' = pc
      /\ \/ pc' \notin {"none", "load", "restore", "schedule", "done"}
         \/ pc \in {"none", "load", "restore", "schedule", "done"}
         \/ timer = "off"
  BY DEF Spawn, Build, Up, UpFails, MapContainers, SetIngress, RegisterDNS, Destroy, ClearIngress,
         StopComposition, Return, Cancel, Join, JoinFails, LeaveNetwork, Exits
<1>4. StorageInPlace'
  BY <1>1, <1>3 DEF ComposeInv, StorageInPlace, storage, provider, restoring, task, Covers
<1> QED
  BY <1>2, <1>4

LEMMA StorageKept == ASSUME ComposeInv, Next PROVE StorageInv' /\ StorageInPlace'
<1>1. CASE Load
  <2> USE <1>1 DEF Load, Goto, Fail
  <2>1. timer = "off" /\ restore = "off"
    BY DEF ComposeInv, StorageInPlace
  <2>2. CASE pc' = "restore"
    <3>1. CallRestore /\ cancelled' = cancelled
      BY <2>2
    <3>2. StorageInv'
      BY <2>1, <3>1, CallRestoreKeeps DEF ComposeInv, TypeOK, StorageTypeOK
    <3> QED
      BY <2>1, <2>2, <3>1, <3>2 DEF StorageInPlace, CallRestore, task
  <2>3. CASE pc' = "done"
    <3>1. UNCHANGED storage /\ cancelled' = cancelled
      BY <2>3
    <3>2. StorageInv'
      BY <3>1, StorageStutter DEF ComposeInv, TypeOK, StorageTypeOK
    <3> QED
      BY <2>1, <2>3, <3>1, <3>2 DEF StorageInPlace, storage, restoring, task
  <2> QED
    BY <2>2, <2>3
<1>2. CASE Restored
  <2> USE <1>2 DEF Restored, Goto, Fail
  <2>1. timer' = "off" /\ UNCHANGED <<task, cancelled>>
    BY DEF ComposeInv, StorageInPlace, task
  <2>2. CASE Returned("ok") /\ pc' = "schedule"
    BY <2>1, <2>2, ReturnedKeeps DEF ComposeInv, StorageInPlace
  <2>3. CASE Returned("failed") /\ pc' = "done"
    BY <2>1, <2>3, ReturnedKeeps DEF ComposeInv, StorageInPlace
  <2> QED
    BY <2>2, <2>3
<1>3. CASE ScheduleBackup
  <2> USE <1>3 DEF ScheduleBackup, Goto
  <2>1. restore = "off" /\ (spoiled \/ Covers(volume, archive))
    BY DEF ComposeInv, StorageInPlace
  <2>2. StorageInv'
    BY <2>1, ScheduleKeeps DEF ComposeInv
  <2> QED
    BY <2>1, <2>2 DEF StorageInPlace, restoring
<1>4. CASE HaltBackup
  <2> USE <1>4 DEF HaltBackup, Goto
  <2>1. StorageInv'
    BY HaltKeeps DEF ComposeInv, TypeOK, StorageTypeOK
  <2> QED
    BY <2>1 DEF ComposeInv, StorageInPlace, Halt, restoring
<1>5. CASE InStorage
  <2>1. /\ StorageInv' /\ pc' = pc
        /\ restore # "off" <=> restore' # "off"
        /\ timer = "off" => timer' = "off" /\ archive' = archive
        /\ restore = "off" /\ timer = "off" => spoiled' \/ volume' = volume
        /\ restore = "off" /\ spoiled => spoiled'
    BY <1>5, StorageStepKeeps DEF InStorage, ComposeInv
  <2> QED
    BY <2>1 DEF ComposeInv, StorageInPlace, Covers
<1>6. CASE ContainerWrites
  <2> USE <1>6 DEF ContainerWrites
  <2>1. StorageInv' /\ (spoiled \/ Covers(volume, archive) => spoiled \/ Covers(volume, archive)')
    BY WriteKeeps DEF ComposeInv, TypeOK, StorageTypeOK
  <2> QED
    BY <2>1 DEF ComposeInv, StorageInPlace, Write, restoring, task
<1>7. CASE Crash
  <2> USE <1>7 DEF Crash
  <2>1. StorageInv'
    BY CrashKeeps DEF ComposeInv
  <2> QED
    BY <2>1 DEF StorageInPlace, StorageCrash
<1> QED
  BY <1>1, <1>2, <1>3, <1>4, <1>5, <1>6, <1>7, AsideInStorage DEF Next, Progress, Aside

-----------------------------------------------------------------------------
(* The outcome.                                                            *)

LEMMA OutcomeKept == ASSUME ComposeInv, Next PROVE OutcomeInPlace'
<1> USE DEF Goto, Fail, outcome, Steps, Deferred, Active
<1>0. OutcomeInPlace /\ ready \in BOOLEAN /\ failed \in BOOLEAN /\ cancelled \in BOOLEAN
  BY DEF ComposeInv, TypeOK, StorageTypeOK
<1>1. CASE Spawn \/ Crash
  BY <1>1 DEF Spawn, Crash, OutcomeInPlace
<1>2. CASE Load \/ Restored \/ ScheduleBackup \/ Build \/ Up \/ UpFails \/ MapContainers
  BY <1>0, <1>2 DEF Load, Restored, ScheduleBackup, Build, Up, UpFails, MapContainers, OutcomeInPlace
<1>3. CASE \E c \in Container : Join(c) \/ JoinFails(c) \/ LeaveNetwork(c) \/ Exits(c)
  <2>1. CASE \E c \in Container : JoinFails(c)
    BY <1>0, <2>1 DEF JoinFails, OutcomeInPlace
  <2>2. CASE \E c \in Container : Join(c) \/ LeaveNetwork(c) \/ Exits(c)
    <3>1. UNCHANGED <<pc, outcome, cancelled>>
      BY <2>2 DEF Join, LeaveNetwork, Exits
    <3> QED
      BY <1>0, <3>1 DEF OutcomeInPlace
  <2> QED
    BY <1>3, <2>1, <2>2
<1>4. CASE SetIngress \/ RegisterDNS \/ Destroy
  BY <1>0, <1>4 DEF SetIngress, RegisterDNS, Destroy, OutcomeInPlace
<1>5. CASE ClearIngress \/ StopComposition \/ HaltBackup \/ Return
  BY <1>0, <1>5 DEF ClearIngress, StopComposition, HaltBackup, Return, OutcomeInPlace
<1>6. CASE InStorage
  <2>1. UNCHANGED <<pc, outcome, cancelled>>
    BY <1>6, StorageStepKeeps DEF InStorage, ComposeInv
  <2> QED
    BY <1>0, <2>1 DEF OutcomeInPlace
<1>7. CASE Cancel \/ ContainerWrites
  BY <1>0, <1>7 DEF Cancel, ContainerWrites, OutcomeInPlace
<1> QED
  BY <1>1, <1>2, <1>3, <1>4, <1>5, <1>6, <1>7 DEF Next, Progress

-----------------------------------------------------------------------------
(* The containers, and the types.                                          *)

LEMMA ContainersKept == ASSUME ComposeInv, Next PROVE ContainersInPlace'
<1> USE DEF Goto, Fail, docker, networking
<1>0. ContainersInPlace /\ joined \subseteq found
  BY DEF ComposeInv, TypeOK
<1>1. CASE Spawn \/ Crash
  BY <1>0, <1>1 DEF Spawn, Crash, ContainersInPlace
<1>2. CASE Load \/ Restored \/ ScheduleBackup \/ Build
  BY <1>0, <1>2 DEF Load, Restored, ScheduleBackup, Build, ContainersInPlace
<1>3. CASE Up \/ UpFails \/ MapContainers
  <2>1. CASE Up
    BY <1>0, <2>1 DEF Up, ContainersInPlace
  <2>2. CASE UpFails
    BY <1>0, <2>2 DEF UpFails, ContainersInPlace
  <2>3. CASE MapContainers
    BY <1>0, <2>3 DEF MapContainers, ContainersInPlace
  <2> QED
    BY <1>3, <2>1, <2>2, <2>3
<1>4. CASE \E c \in Container : Join(c) \/ JoinFails(c) \/ LeaveNetwork(c)
  <2>1. PICK c \in Container : Join(c) \/ JoinFails(c) \/ LeaveNetwork(c)
    BY <1>4
  <2>2. CASE Join(c)
    BY <1>0, <2>2 DEF Join, ContainersInPlace
  <2>3. CASE JoinFails(c)
    BY <1>0, <2>3 DEF JoinFails, ContainersInPlace
  <2>4. CASE LeaveNetwork(c)
    BY <1>0, <2>4 DEF LeaveNetwork, ContainersInPlace
  <2> QED
    BY <2>1, <2>2, <2>3, <2>4
<1>5. CASE SetIngress \/ RegisterDNS \/ Destroy \/ ClearIngress
  BY <1>0, <1>5 DEF SetIngress, RegisterDNS, Destroy, ClearIngress, ContainersInPlace
<1>6. CASE StopComposition \/ HaltBackup \/ Return
  BY <1>0, <1>6 DEF StopComposition, HaltBackup, Return, ContainersInPlace
<1>7. CASE InStorage \/ Cancel \/ ContainerWrites
  BY <1>0, <1>7 DEF InStorage, Cancel, ContainerWrites, ContainersInPlace
<1>8. CASE \E c \in Container : Exits(c)
  <2>1. /\ UNCHANGED <<pc, linked, found, joined, routed, torn>>
        /\ running' \subseteq running /\ running \cup exited = running' \cup exited'
    BY <1>8 DEF Exits
  <2> QED
    BY <1>0, <2>1 DEF ContainersInPlace
<1> QED
  BY <1>1, <1>2, <1>3, <1>4, <1>5, <1>6, <1>7, <1>8 DEF Next, Progress

LEMMA TypeStep == ASSUME ComposeInv, Next, StorageInv' PROVE TypeOK'
<1> USE PackageAssumption DEF Goto, Fail, outcome, docker, networking
<1>0. TypeOK /\ StorageTypeOK' /\ ContainersInPlace
  BY DEF ComposeInv, StorageInv
<1>1. CASE Spawn \/ Crash
  BY <1>0, <1>1 DEF TypeOK, Spawn, Crash, Steps, ContainersInPlace
<1>2. CASE Load \/ Restored \/ ScheduleBackup \/ Build
  BY <1>0, <1>2 DEF TypeOK, Load, Restored, ScheduleBackup, Build, Steps, Deferred
<1>3. CASE Up \/ UpFails \/ MapContainers
  <2>1. CASE Up
    BY <1>0, <2>1 DEF TypeOK, Up, Steps
  <2>2. CASE UpFails
    BY <1>0, <2>2 DEF TypeOK, UpFails, Deferred
  <2>3. CASE MapContainers
    BY <1>0, <2>3 DEF TypeOK, MapContainers, Steps, Deferred, ContainersInPlace
  <2> QED
    BY <1>3, <2>1, <2>2, <2>3
<1>4. CASE \E c \in Container : Join(c) \/ JoinFails(c) \/ LeaveNetwork(c)
  <2>1. /\ UNCHANGED <<running, exited, found, routed, torn, ready>>
        /\ pc' \in {pc, "leave"} /\ failed' \in {failed, TRUE}
        /\ linked' \subseteq Container /\ joined' \subseteq found
    BY <1>0, <1>4 DEF TypeOK, Join, JoinFails, LeaveNetwork
  <2> QED
    BY <1>0, <2>1 DEF TypeOK, Deferred
<1>5. CASE SetIngress \/ RegisterDNS \/ Destroy \/ ClearIngress
  BY <1>0, <1>5 DEF TypeOK, SetIngress, RegisterDNS, Destroy, ClearIngress, Steps, Deferred
<1>6. CASE StopComposition \/ HaltBackup \/ Return
  BY <1>0, <1>6 DEF TypeOK, StopComposition, HaltBackup, Return, Steps, Deferred
<1>7. CASE InStorage \/ Cancel \/ ContainerWrites
  BY <1>0, <1>7 DEF TypeOK, InStorage, Cancel, ContainerWrites
<1>8. CASE \E c \in Container : Exits(c)
  BY <1>0, <1>8 DEF TypeOK, Exits
<1> QED
  BY <1>1, <1>2, <1>3, <1>4, <1>5, <1>6, <1>7, <1>8 DEF Next, Progress

LEMMA StutterInv == ComposeInv /\ UNCHANGED vars => ComposeInv'
<1> SUFFICES ASSUME ComposeInv, UNCHANGED vars PROVE ComposeInv'
  OBVIOUS
<1> USE DEF vars, outcome, docker, networking, storage, provider, restoring, task
<1>1. StorageInv'
  BY StorageStutter DEF ComposeInv, TypeOK, StorageTypeOK
<1>2. TypeOK' /\ StorageInPlace'
  BY <1>1 DEF ComposeInv, TypeOK, StorageInv, StorageInPlace, Covers
<1>3. ContainersInPlace' /\ OutcomeInPlace'
  BY DEF ComposeInv, ContainersInPlace, OutcomeInPlace
<1> QED
  BY <1>1, <1>2, <1>3 DEF ComposeInv

THEOREM ComposeInvariance == Spec => []ComposeInv
<1>1. ComposeInv /\ Next => ComposeInv'
  BY StorageKept, OutcomeKept, ContainersKept, TypeStep DEF ComposeInv
<1> QED
  BY <1>1, InitInv, StutterInv, PTL DEF Spec

-----------------------------------------------------------------------------
(* The theorems.                                                           *)

\* The package, its storage and its containers keep their types.
THEOREM ComposeTypeCorrect == Spec => []TypeOK
<1>1. ComposeInv => TypeOK
  BY DEF ComposeInv
<1> QED
  BY <1>1, ComposeInvariance, PTL

\* Whichever step fails, the domains lead nowhere before the containers go.
THEOREM RoutesAreUp == Spec => []RouteIsUp
<1>1. ComposeInv => RouteIsUp
  BY DEF ComposeInv, TypeOK, ContainersInPlace, RouteIsUp
<1> QED
  BY <1>1, ComposeInvariance, PTL

\* What is left running when Run has returned was left by an up or a stop that
\* failed, or by a process that died.
THEOREM NothingIsLeft == Spec => []NoResidue
<1>1. ComposeInv => NoResidue
  BY DEF ComposeInv, ContainersInPlace, NoResidue
<1> QED
  BY <1>1, ComposeInvariance, PTL

\* Restore and Backup never overlap, over all deployments.
THEOREM BackupsAwaitRestore == Spec => []NoBackupDuringRestore
<1>1. ComposeInv => NoBackupDuringRestore
  BY DEF ComposeInv, StorageInv
<1> QED
  BY <1>1, ComposeInvariance, PTL

\* No upload takes the archive back, also after a Restore under a composition
\* that was left running and writes, unless this deployment has not got the
\* last archive into its volumes.
THEOREM BackupsNeverGoBack == Spec => BackupsAdvance
<1> DEFINE Advances == archive \in Version /\ archive' \in Version => archive' >= archive \/ spoiled
<1>1. ComposeInv /\ [Next]_vars => [Advances]_archive
  <2> SUFFICES ASSUME ComposeInv, Next, archive' # archive PROVE Advances
    BY DEF vars, storage, provider
  <2>1. InStorage
    BY DEF Next, Progress, Spawn, Load, CallRestore, Restored, Returned, ScheduleBackup, Build, Up,
           UpFails, MapContainers, Join, JoinFails, LeaveNetwork, SetIngress, RegisterDNS, Destroy,
           ClearIngress, StopComposition, HaltBackup, Halt, Return, Cancel, ContainerWrites, Write,
           Exits, Crash, StorageCrash, storage, provider
  <2> QED
    BY <2>1, StorageStepKeeps DEF InStorage, ComposeInv
<1> QED
  BY <1>1, ComposeInvariance, PTL DEF Spec, BackupsAdvance

-----------------------------------------------------------------------------
(* Run is a task.                                                          *)

\* What a step does to the place of Run and to the outcome.
LEMMA RunMoves ==
  ASSUME ComposeInv, Next
  PROVE  \/ UNCHANGED <<pc, ready, failed, cancelled>>
         \/ pc \in {"none", "done"} /\ Spawn
         \/ Crash
         \/ Active /\ UNCHANGED <<pc, ready, failed>> /\ cancelled' = TRUE
         \/ Active /\ pc' \in Steps \cup Deferred /\ UNCHANGED <<ready, cancelled>>
         \/ pc = "dns" /\ pc' = "ready" /\ ready' = TRUE /\ UNCHANGED <<failed, cancelled>>
         \/ pc \in Steps \ {"ready"} /\ pc' = "done" /\ failed' = TRUE /\ UNCHANGED <<ready, cancelled>>
         \/ pc = "join timer" /\ pc' = "done" /\ UNCHANGED <<ready, failed, cancelled>>
<1> USE DEF Goto, Fail, outcome, Steps, Deferred, Active
<1>1. CASE Spawn \/ Crash \/ Cancel
  BY <1>1 DEF Spawn, Cancel
<1>2. CASE Load \/ Restored \/ ScheduleBackup \/ Build \/ Up \/ UpFails \/ MapContainers
  BY <1>2 DEF Load, Restored, ScheduleBackup, Build, Up, UpFails, MapContainers
<1>3. CASE \E c \in Container : Join(c) \/ JoinFails(c) \/ LeaveNetwork(c) \/ Exits(c)
  BY <1>3 DEF Join, JoinFails, LeaveNetwork, Exits
<1>4. CASE SetIngress \/ RegisterDNS \/ Destroy
  BY <1>4 DEF SetIngress, RegisterDNS, Destroy
<1>5. CASE ClearIngress \/ StopComposition \/ HaltBackup \/ Return
  BY <1>5 DEF ClearIngress, StopComposition, HaltBackup, Return
<1>6. CASE InStorage
  BY <1>6, StorageStepKeeps DEF InStorage, ComposeInv
<1>7. CASE ContainerWrites
  BY <1>7 DEF ContainerWrites
<1> QED
  BY <1>1, <1>2, <1>3, <1>4, <1>5, <1>6, <1>7 DEF Next, Progress

\* Run is a task of the poller: it fails, or gets ready and ends when it is
\* cancelled, and its error tells which.
THEOREM RunIsTask == Spec => ImplementsTask
<1> USE DEF Task!vars, Task!Next, Task!Step, Task!Live
<1>1. Init => Task!Init
  BY DEF Init, StorageInit, Task!Init
<1>2. ComposeInv /\ [Next]_vars => [Task!Next]_(Task!vars)
  <2> SUFFICES ASSUME ComposeInv, Next PROVE Task!Next \/ UNCHANGED Task!vars
    BY DEF vars, outcome
  <2> USE DEF Steps, Deferred, Active
  <2>0. OutcomeInPlace /\ cancelled \in BOOLEAN /\ ready \in BOOLEAN
    BY DEF ComposeInv, TypeOK, StorageTypeOK
  <2>1. CASE UNCHANGED <<pc, ready, failed, cancelled>>
    BY <2>1
  <2>2. CASE pc \in {"none", "done"} /\ Spawn
    BY <2>2 DEF Spawn, Task!Spawn
  <2>3. CASE Crash
    BY <2>3 DEF Crash, Task!Crash
  <2>4. CASE Active /\ UNCHANGED <<pc, ready, failed>> /\ cancelled' = TRUE
    BY <2>4 DEF Task!Cancel
  <2>5. CASE Active /\ pc' \in Steps \cup Deferred /\ UNCHANGED <<ready, cancelled>>
    BY <2>5
  <2>6. CASE pc = "dns" /\ pc' = "ready" /\ ready' = TRUE /\ UNCHANGED <<failed, cancelled>>
    BY <2>0, <2>6 DEF Task!Ready, OutcomeInPlace, outcome
  <2>7. CASE pc \in Steps \ {"ready"} /\ pc' = "done" /\ failed' = TRUE /\ UNCHANGED <<ready, cancelled>>
    BY <2>0, <2>7 DEF Task!DeployFails, OutcomeInPlace, outcome
  <2>8. CASE pc = "join timer" /\ pc' = "done" /\ UNCHANGED <<ready, failed, cancelled>>
    <3>1. CASE outcome = <<FALSE, TRUE>>
      BY <2>8, <3>1 DEF Task!DeployFails, outcome
    <3>2. CASE outcome = <<TRUE, FALSE>> /\ cancelled
      BY <2>8, <3>2 DEF Task!TornDown, outcome
    <3> QED
      BY <2>0, <2>8, <3>1, <3>2 DEF OutcomeInPlace
  <2> QED
    BY <2>1, <2>2, <2>3, <2>4, <2>5, <2>6, <2>7, <2>8, RunMoves
<1> QED
  BY <1>1, <1>2, ComposeInvariance, PTL DEF Spec, ImplementsTask, Task!Spec
=============================================================================
