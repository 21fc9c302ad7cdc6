------------------------ MODULE DockerPackageProofs ------------------------
(***************************************************************************)
(* Proofs about DockerPackage for any room for containers, any data and    *)
(* any failures and crashes: there is one container at most, nothing is    *)
(* restored or routed at the wrong time, backups do not go back, and Run   *)
(* is the task the poller takes it for.                                    *)
(***************************************************************************)
EXTENDS DockerPackage, StorageProofs

LEMMA InitInv == Init => DockerInv
<1> SUFFICES ASSUME Init PROVE DockerInv
  OBVIOUS
<1> USE DEF Init, Steps, Deferred
<1>1. StorageInv
  BY StorageInitInv
<1>2. TypeOK
  BY <1>1 DEF StorageInv, TypeOK
<1>3. StorageInPlace
  BY DEF StorageInit, StorageInPlace
<1>4. ContainerInPlace
  BY DEF ContainerInPlace, Existing, Running
<1>5. OutcomeInPlace
  BY DEF OutcomeInPlace, outcome
<1> QED
  BY <1>1, <1>2, <1>3, <1>4, <1>5 DEF DockerInv

-----------------------------------------------------------------------------
(* The storage.                                                            *)

\* Steps of Run and of docker that do not touch the storage.
Aside == \/ Spawn \/ Cleanup \/ CleanupFails \/ CreateContainer \/ CreateFails \/ Join
         \/ StartContainer \/ StartFails \/ WaitToBeHealthy \/ WaitFails \/ SetIngress
         \/ RegisterDNS \/ Destroy \/ ClearIngress \/ StopContainer \/ LeaveNetwork
         \/ RemoveContainers \/ Return \/ Cancel
         \/ \E s \in Slot : GetsHealthy(s) \/ Exits(s)

LEMMA AsideInStorage == ASSUME DockerInv, Aside PROVE StorageInv' /\ StorageInPlace'
<1> USE DEF Aside, Goto, Fail
<1>1. UNCHANGED storage /\ cancelled' \in BOOLEAN
  BY DEF DockerInv, TypeOK, StorageTypeOK, Spawn, Cleanup, CleanupFails, CreateContainer,
         CreateFails, Join, StartContainer, StartFails, WaitToBeHealthy, WaitFails, SetIngress,
         RegisterDNS, Destroy, ClearIngress, StopContainer, LeaveNetwork, RemoveContainers,
         Return, Cancel, GetsHealthy, Exits
<1>2. StorageInv'
  BY <1>1, StorageStutter DEF DockerInv
<1>3. /\ pc' = pc \/ (pc # "restore" /\ pc' # "restore")
      /\ pc' # "schedule" \/ pc' = pc
      /\ \/ pc' \notin {"none", "cleanup", "build", "restore", "schedule", "done"}
         \/ pc \in {"none", "cleanup", "build", "restore", "schedule", "done"}
         \/ timer = "off"
  BY DEF Spawn, Cleanup, CleanupFails, CreateContainer, CreateFails, Join, StartContainer,
         StartFails, WaitToBeHealthy, WaitFails, SetIngress, RegisterDNS, Destroy, ClearIngress,
         StopContainer, LeaveNetwork, RemoveContainers, Return, Cancel, GetsHealthy, Exits
<1>4. StorageInPlace'
  BY <1>1, <1>3 DEF DockerInv, StorageInPlace, storage, provider, restoring, task, Covers
<1> QED
  BY <1>2, <1>4

LEMMA StorageKept == ASSUME DockerInv, Next PROVE StorageInv' /\ StorageInPlace'
<1>1. CASE Build
  <2> USE <1>1 DEF Build, Goto, Fail
  <2>1. timer = "off" /\ restore = "off"
    BY DEF DockerInv, StorageInPlace
  <2>2. CASE pc' = "restore"
    <3>1. CallRestore /\ cancelled' = cancelled
      BY <2>2
    <3>2. StorageInv'
      BY <2>1, <3>1, CallRestoreKeeps DEF DockerInv, TypeOK, StorageTypeOK
    <3> QED
      BY <2>1, <2>2, <3>1, <3>2 DEF StorageInPlace, CallRestore, task
  <2>3. CASE pc' = "done"
    <3>1. UNCHANGED storage /\ cancelled' = cancelled
      BY <2>3
    <3>2. StorageInv'
      BY <3>1, StorageStutter DEF DockerInv, TypeOK, StorageTypeOK
    <3> QED
      BY <2>1, <2>3, <3>1, <3>2 DEF StorageInPlace, storage, restoring, task
  <2> QED
    BY <2>2, <2>3
<1>2. CASE Restored
  <2> USE <1>2 DEF Restored, Goto, Fail
  <2>1. timer' = "off" /\ UNCHANGED <<task, cancelled>>
    BY DEF DockerInv, StorageInPlace, task
  <2>2. CASE Returned("ok") /\ pc' = "schedule"
    BY <2>1, <2>2, ReturnedKeeps DEF DockerInv, StorageInPlace
  <2>3. CASE Returned("failed") /\ pc' = "done"
    BY <2>1, <2>3, ReturnedKeeps DEF DockerInv, StorageInPlace
  <2> QED
    BY <2>2, <2>3
<1>3. CASE ScheduleBackup
  <2> USE <1>3 DEF ScheduleBackup, Goto
  <2>1. restore = "off" /\ (spoiled \/ Covers(volume, archive))
    BY DEF DockerInv, StorageInPlace
  <2>2. StorageInv'
    BY <2>1, ScheduleKeeps DEF DockerInv
  <2> QED
    BY <2>1, <2>2 DEF StorageInPlace, restoring
<1>4. CASE HaltBackup
  <2> USE <1>4 DEF HaltBackup, Goto
  <2>1. StorageInv'
    BY HaltKeeps DEF DockerInv, TypeOK, StorageTypeOK
  <2> QED
    BY <2>1 DEF DockerInv, StorageInPlace, Halt, restoring
<1>5. CASE InStorage
  <2>1. /\ StorageInv' /\ pc' = pc
        /\ restore # "off" <=> restore' # "off"
        /\ timer = "off" => timer' = "off" /\ archive' = archive
        /\ restore = "off" /\ timer = "off" => spoiled' \/ volume' = volume
        /\ restore = "off" /\ spoiled => spoiled'
    BY <1>5, StorageStepKeeps DEF InStorage, DockerInv
  <2> QED
    BY <2>1 DEF DockerInv, StorageInPlace, Covers
<1>6. CASE ContainerWrites
  <2> USE <1>6 DEF ContainerWrites
  <2>1. StorageInv' /\ (spoiled \/ Covers(volume, archive) => spoiled \/ Covers(volume, archive)')
    BY WriteKeeps DEF DockerInv, TypeOK, StorageTypeOK
  <2> QED
    BY <2>1 DEF DockerInv, StorageInPlace, Write, restoring, task
<1>7. CASE Crash
  <2> USE <1>7 DEF Crash
  <2>1. StorageInv'
    BY CrashKeeps DEF DockerInv
  <2> QED
    BY <2>1 DEF StorageInPlace, StorageCrash
<1> QED
  BY <1>1, <1>2, <1>3, <1>4, <1>5, <1>6, <1>7, AsideInStorage DEF Next, Progress, Aside

-----------------------------------------------------------------------------
(* The outcome.                                                            *)

LEMMA OutcomeKept == ASSUME DockerInv, Next PROVE OutcomeInPlace'
<1> USE DEF Goto, Fail, outcome, Steps, Deferred, Active
<1>0. OutcomeInPlace /\ ready \in BOOLEAN /\ failed \in BOOLEAN /\ cancelled \in BOOLEAN
  BY DEF DockerInv, TypeOK, StorageTypeOK
<1>1. CASE Spawn \/ Crash
  BY <1>1 DEF Spawn, Crash, OutcomeInPlace
<1>2. CASE Cleanup \/ CleanupFails \/ Build \/ Restored \/ ScheduleBackup
  BY <1>0, <1>2 DEF Cleanup, CleanupFails, Build, Restored, ScheduleBackup, OutcomeInPlace
<1>3. CASE CreateContainer \/ CreateFails \/ Join \/ StartContainer \/ StartFails
  BY <1>0, <1>3 DEF CreateContainer, CreateFails, Join, StartContainer, StartFails, OutcomeInPlace
<1>4. CASE WaitToBeHealthy \/ WaitFails \/ SetIngress \/ RegisterDNS \/ Destroy
  BY <1>0, <1>4 DEF WaitToBeHealthy, WaitFails, SetIngress, RegisterDNS, Destroy, OutcomeInPlace
<1>5. CASE ClearIngress \/ StopContainer \/ LeaveNetwork \/ RemoveContainers \/ HaltBackup \/ Return
  BY <1>0, <1>5 DEF ClearIngress, StopContainer, LeaveNetwork, RemoveContainers, HaltBackup,
                    Return, OutcomeInPlace
<1>6. CASE InStorage
  <2>1. UNCHANGED <<pc, outcome, cancelled>>
    BY <1>6, StorageStepKeeps DEF InStorage, DockerInv
  <2> QED
    BY <1>0, <2>1 DEF OutcomeInPlace
<1>7. CASE Cancel \/ ContainerWrites \/ \E s \in Slot : GetsHealthy(s) \/ Exits(s)
  BY <1>0, <1>7 DEF Cancel, ContainerWrites, GetsHealthy, Exits, OutcomeInPlace
<1> QED
  BY <1>1, <1>2, <1>3, <1>4, <1>5, <1>6, <1>7 DEF Next, Progress

-----------------------------------------------------------------------------
(* The containers.                                                         *)

\* Steps that change nothing of docker or the ingress.
LEMMA QuietSteps ==
  ASSUME DockerInv, UNCHANGED <<docker, routed, mine, torn>>,
         \/ pc' = pc
         \/ Build \/ Restored \/ ScheduleBackup \/ StartFails \/ WaitToBeHealthy \/ WaitFails
         \/ RegisterDNS \/ Destroy \/ HaltBackup \/ Return
  PROVE  ContainerInPlace'
<1> USE DEF Goto, Fail, docker
<1>1. ContainerInPlace /\ Existing' = Existing /\ Running' = Running
  BY DEF DockerInv, Existing, Running
<1>2. Existing = {} => Running = {}
  BY DEF Existing, Running
<1>3. \/ pc' = pc
      \/ pc = "build" /\ pc' \in {"restore", "done"}
      \/ pc = "restore" /\ pc' \in {"schedule", "done"}
      \/ pc = "schedule" /\ pc' = "create"
      \/ pc = "start" /\ pc' = "leave"
      \/ pc = "health" /\ mine \in healthy /\ pc' = "set"
      \/ pc = "health" /\ pc' = "stop"
      \/ pc = "dns" /\ pc' \in {"ready", "clear"}
      \/ pc = "ready" /\ pc' = "clear"
      \/ pc = "halt" /\ pc' = "join timer"
      \/ pc = "join timer" /\ pc' = "done"
  BY DEF Build, Restored, ScheduleBackup, StartFails, WaitToBeHealthy, WaitFails, RegisterDNS,
         Destroy, HaltBackup, Return
<1> QED
  BY <1>1, <1>2, <1>3 DEF ContainerInPlace

\* Steps that remove containers.
LEMMA RemovingSteps ==
  ASSUME DockerInv, Cleanup \/ CleanupFails \/ RemoveContainers
  PROVE  ContainerInPlace'
<1> USE DEF Goto, Fail, docker, RemoveBut
<1>1. ContainerInPlace
  BY DEF DockerInv
<1>2. Existing' \subseteq Existing /\ Running' \subseteq Running
  BY DEF Cleanup, CleanupFails, RemoveContainers, Existing, Running
<1>3. CASE Cleanup
  <2>1. Existing' = {}
    BY <1>3 DEF Cleanup, Existing
  <2> QED
    BY <1>1, <1>3, <2>1 DEF ContainerInPlace, Cleanup
<1>4. CASE CleanupFails
  BY <1>1, <1>2, <1>4 DEF ContainerInPlace, CleanupFails
<1>5. CASE RemoveContainers
  <2>1. Running' # {} => torn'
    BY <1>5 DEF RemoveContainers, Running
  <2> QED
    BY <1>1, <1>2, <1>5, <2>1 DEF ContainerInPlace, RemoveContainers
<1> QED
  BY <1>3, <1>4, <1>5

\* The container is created, and there was none.
LEMMA CreatingSteps ==
  ASSUME DockerInv, CreateContainer \/ CreateFails
  PROVE  ContainerInPlace'
<1> USE DEF Fail, docker, CreateContainer, CreateFails
<1>1. Existing = {} /\ routed = None /\ pc = "create"
  BY DEF DockerInv, ContainerInPlace
<1>2. /\ pc' = "join" \/ pc' = "halt"
      /\ \/ container' = container
         \/ \E s \in Slot : container' = [container EXCEPT ![s] = "created"]
      /\ pc' = "join" => mine' \in Slot /\ container' = [container EXCEPT ![mine'] = "created"]
      /\ routed' = None
  BY <1>1
<1>3. \A s \in Slot : container[s] = "none"
  BY <1>1 DEF Existing
<1>4. Running' = {} /\ \A s, t \in Existing' : s = t
  BY <1>2, <1>3 DEF Existing, Running, DockerInv, TypeOK
<1>5. pc' = "join" => mine' \in Existing'
  BY <1>2 DEF Existing, DockerInv, TypeOK
<1> QED
  BY <1>2, <1>4, <1>5 DEF ContainerInPlace

\* Steps on the container of this deployment, or of docker on any.
LEMMA ChangingSteps ==
  ASSUME DockerInv, NEW s \in Slot, NEW status \in {"running", "exited"}, s \in Existing,
         container' = [container EXCEPT ![s] = status] \/ container' = container,
         status = "running" => pc \notin {"none", "cleanup", "halt", "join timer", "done"}
  PROVE  /\ Existing' = Existing
         /\ \A t \in Slot : container[t] \in {"running", "exited"} => container'[t] \in {"running", "exited"}
         /\ pc \in {"none", "cleanup", "halt", "join timer", "done"} => Running' \subseteq Running
<1>1. Existing' = Existing
  BY DEF Existing, DockerInv, TypeOK
<1>2. \A t \in Slot : container[t] \in {"running", "exited"} => container'[t] \in {"running", "exited"}
  BY DEF DockerInv, TypeOK
<1>3. pc \in {"none", "cleanup", "halt", "join timer", "done"} => Running' \subseteq Running
  BY DEF Running, DockerInv, TypeOK
<1> QED
  BY <1>1, <1>2, <1>3

LEMMA WorkingSteps ==
  ASSUME DockerInv, Join \/ StartContainer \/ SetIngress \/ ClearIngress \/ StopContainer \/ LeaveNetwork
  PROVE  ContainerInPlace'
<1> USE DEF Goto, Fail
<1>0. ContainerInPlace /\ mine \in Existing /\ mine \in Slot
  BY DEF DockerInv, ContainerInPlace, Existing, Join, StartContainer, SetIngress, ClearIngress,
         StopContainer, LeaveNetwork
<1>1. CASE Join \/ SetIngress \/ ClearIngress \/ LeaveNetwork
  <2>1. Existing' = Existing
    BY <1>1 DEF Existing, Join, SetIngress, ClearIngress, LeaveNetwork, docker
  <2> QED
    BY <1>0, <1>1, <2>1 DEF ContainerInPlace, Join, SetIngress, ClearIngress, LeaveNetwork, docker
<1>2. CASE StartContainer
  <2>1. Existing' = Existing /\ container'[mine] = "running"
    BY <1>0, <1>2, ChangingSteps DEF StartContainer, DockerInv, TypeOK
  <2> QED
    BY <1>0, <1>2, <2>1 DEF ContainerInPlace, StartContainer
<1>3. CASE StopContainer
  <2>1. Existing' = Existing
    BY <1>0, <1>3, ChangingSteps DEF StopContainer
  <2> QED
    BY <1>0, <1>3, <2>1 DEF ContainerInPlace, StopContainer
<1> QED
  BY <1>1, <1>2, <1>3

LEMMA DockerSteps ==
  ASSUME DockerInv, NEW s \in Slot, GetsHealthy(s) \/ Exits(s)
  PROVE  ContainerInPlace'
<1>1. CASE GetsHealthy(s)
  <2>1. Existing' = Existing /\ Running' = Running
    BY <1>1 DEF GetsHealthy, Existing, Running
  <2> QED
    BY <1>1, <2>1 DEF DockerInv, ContainerInPlace, GetsHealthy
<1>2. CASE Exits(s)
  <2>1. s \in Existing
    BY <1>2 DEF Exits, Existing, Running
  <2>2. /\ Existing' = Existing
        /\ \A t \in Slot : container[t] \in {"running", "exited"} => container'[t] \in {"running", "exited"}
        /\ pc \in {"none", "cleanup", "halt", "join timer", "done"} => Running' \subseteq Running
    BY <1>2, <2>1, ChangingSteps DEF Exits
  <2>3. mine \in Existing => mine \in Slot
    BY DEF Existing
  <2> QED
    BY <1>2, <2>2, <2>3 DEF DockerInv, ContainerInPlace, Exits
<1> QED
  BY <1>1, <1>2

LEMMA ContainersKept == ASSUME DockerInv, Next PROVE ContainerInPlace'
<1>1. CASE Build \/ Restored \/ ScheduleBackup \/ StartFails \/ WaitToBeHealthy \/ WaitFails
           \/ RegisterDNS \/ Destroy \/ HaltBackup \/ Return
  <2>1. UNCHANGED <<docker, routed, mine, torn>>
    BY <1>1 DEF Build, Restored, ScheduleBackup, StartFails, WaitToBeHealthy, WaitFails,
                RegisterDNS, Destroy, HaltBackup, Return, Goto, Fail
  <2> QED
    BY <1>1, <2>1, QuietSteps
<1>2. CASE InStorage \/ Cancel \/ ContainerWrites
  BY <1>2, QuietSteps DEF InStorage, Cancel, ContainerWrites
<1>3. CASE Spawn
  BY <1>3 DEF Spawn, DockerInv, ContainerInPlace, docker, Existing, Running
<1>4. CASE Crash
  <2>1. Existing' = Existing /\ Running' = Running /\ Running \subseteq Existing
    BY <1>4 DEF Crash, docker, Existing, Running
  <2> QED
    BY <1>4, <2>1 DEF Crash, DockerInv, ContainerInPlace
<1> QED
  BY <1>1, <1>2, <1>3, <1>4, RemovingSteps, CreatingSteps, WorkingSteps, DockerSteps
     DEF Next, Progress

-----------------------------------------------------------------------------
(* Types, and the invariant.                                               *)

LEMMA TypeStep == ASSUME DockerInv, Next, StorageInv' PROVE TypeOK'
<1> USE DEF Goto, Fail, outcome, docker
<1>0. TypeOK /\ StorageTypeOK'
  BY DEF DockerInv, StorageInv
<1>1. CASE Spawn \/ Crash
  BY <1>0, <1>1 DEF TypeOK, Spawn, Crash, Steps
<1>2. CASE Cleanup \/ CleanupFails \/ RemoveContainers
  BY <1>0, <1>2 DEF TypeOK, Cleanup, CleanupFails, RemoveContainers, RemoveBut, Steps, Deferred
<1>3. CASE Build \/ Restored \/ ScheduleBackup \/ HaltBackup \/ Return
  BY <1>0, <1>3 DEF TypeOK, Build, Restored, ScheduleBackup, HaltBackup, Return, Steps, Deferred
<1>4. CASE CreateContainer \/ CreateFails \/ Join
  BY <1>0, <1>4 DEF TypeOK, CreateContainer, CreateFails, Join, Steps, Deferred, DockerInv,
                    ContainerInPlace, Existing
<1>5. CASE StartContainer \/ StartFails \/ WaitToBeHealthy \/ WaitFails
  BY <1>0, <1>5 DEF TypeOK, StartContainer, StartFails, WaitToBeHealthy, WaitFails, Steps, Deferred
<1>6. CASE SetIngress \/ RegisterDNS \/ Destroy \/ ClearIngress
  BY <1>0, <1>6 DEF TypeOK, SetIngress, RegisterDNS, Destroy, ClearIngress, Steps, Deferred
<1>7. CASE StopContainer \/ LeaveNetwork
  BY <1>0, <1>7 DEF TypeOK, StopContainer, LeaveNetwork, Steps, Deferred
<1>8. CASE InStorage \/ Cancel \/ ContainerWrites
  BY <1>0, <1>8 DEF TypeOK, InStorage, Cancel, ContainerWrites
<1>9. CASE \E s \in Slot : GetsHealthy(s) \/ Exits(s)
  BY <1>0, <1>9 DEF TypeOK, GetsHealthy, Exits
<1> QED
  BY <1>1, <1>2, <1>3, <1>4, <1>5, <1>6, <1>7, <1>8, <1>9 DEF Next, Progress

LEMMA StutterInv == DockerInv /\ UNCHANGED vars => DockerInv'
<1> SUFFICES ASSUME DockerInv, UNCHANGED vars PROVE DockerInv'
  OBVIOUS
<1> USE DEF vars, outcome, docker, storage, provider, restoring, task
<1>1. StorageInv'
  BY StorageStutter DEF DockerInv, TypeOK, StorageTypeOK
<1>2. TypeOK' /\ StorageInPlace'
  BY <1>1 DEF DockerInv, TypeOK, StorageInv, StorageInPlace, Covers
<1>3. ContainerInPlace'
  BY DEF DockerInv, ContainerInPlace, Existing, Running
<1>4. OutcomeInPlace'
  BY DEF DockerInv, OutcomeInPlace
<1> QED
  BY <1>1, <1>2, <1>3, <1>4 DEF DockerInv

THEOREM DockerInvariance == Spec => []DockerInv
<1>1. DockerInv /\ Next => DockerInv'
  BY StorageKept, OutcomeKept, ContainersKept, TypeStep DEF DockerInv
<1> QED
  BY <1>1, InitInv, StutterInv, PTL DEF Spec

-----------------------------------------------------------------------------
(* The theorems.                                                           *)

\* The package, its storage and its containers keep their types.
THEOREM DockerTypeCorrect == Spec => []TypeOK
<1>1. DockerInv => TypeOK
  BY DEF DockerInv
<1> QED
  BY <1>1, DockerInvariance, PTL

\* Two containers never run on one volume, however often the process dies.
THEOREM OneContainerRuns == Spec => []OneRunning
<1>1. DockerInv => OneRunning
  BY DEF DockerInv, ContainerInPlace, OneRunning, Existing, Running
<1> QED
  BY <1>1, DockerInvariance, PTL

\* Whichever step fails, the domains lead nowhere before their container goes.
THEOREM RoutesAreUp == Spec => []RouteIsUp
<1>1. DockerInv => RouteIsUp
  BY DEF DockerInv, ContainerInPlace, RouteIsUp
<1> QED
  BY <1>1, DockerInvariance, PTL

\* An archive is unpacked while no container runs.
THEOREM RestoresAlone == Spec => []RestoreAlone
<1>1. DockerInv => RestoreAlone
  BY DEF DockerInv, StorageInPlace, ContainerInPlace, RestoreAlone, Existing, Running
<1> QED
  BY <1>1, DockerInvariance, PTL

\* Restore and Backup never overlap, over all deployments.
THEOREM BackupsAwaitRestore == Spec => []NoBackupDuringRestore
<1>1. DockerInv => NoBackupDuringRestore
  BY DEF DockerInv, StorageInv
<1> QED
  BY <1>1, DockerInvariance, PTL

\* What is left running when Run has returned was left by docker or a crash.
THEOREM NothingIsLeft == Spec => []NoResidue
<1>1. DockerInv => NoResidue
  BY DEF DockerInv, ContainerInPlace, NoResidue
<1> QED
  BY <1>1, DockerInvariance, PTL

\* No upload takes the archive back, however late the provider shows archives,
\* unless this deployment has not got the last one into its volumes.
THEOREM BackupsNeverGoBack == Spec => BackupsAdvance
<1> DEFINE Advances == archive \in Version /\ archive' \in Version => archive' >= archive \/ spoiled
<1>1. DockerInv /\ [Next]_vars => [Advances]_archive
  <2> SUFFICES ASSUME DockerInv, Next, archive' # archive PROVE Advances
    BY DEF vars, storage, provider
  <2>1. InStorage
    BY DEF Next, Progress, Spawn, Cleanup, CleanupFails, Build, CallRestore, Restored, Returned,
           ScheduleBackup, CreateContainer, CreateFails, Join, StartContainer, StartFails,
           WaitToBeHealthy, WaitFails, SetIngress, RegisterDNS, Destroy, ClearIngress,
           StopContainer, LeaveNetwork, RemoveContainers, HaltBackup, Halt, Return, Cancel,
           ContainerWrites, Write, GetsHealthy, Exits, Crash, StorageCrash, storage, provider
  <2> QED
    BY <2>1, StorageStepKeeps DEF InStorage, DockerInv
<1> QED
  BY <1>1, DockerInvariance, PTL DEF Spec, BackupsAdvance

-----------------------------------------------------------------------------
(* Run is a task.                                                          *)

\* What a step does to the place of Run and to the outcome.
LEMMA RunMoves ==
  ASSUME DockerInv, Next
  PROVE  \/ UNCHANGED <<pc, ready, failed, cancelled>>
         \/ pc \in {"none", "done"} /\ Spawn
         \/ Crash
         \/ Active /\ UNCHANGED <<pc, ready, failed>> /\ cancelled' = TRUE
         \/ Active /\ pc' \in Steps \cup Deferred /\ UNCHANGED <<ready, cancelled>>
         \/ pc = "dns" /\ pc' = "ready" /\ ready' = TRUE /\ UNCHANGED <<failed, cancelled>>
         \/ pc \in Steps \ {"ready"} /\ pc' = "done" /\ failed' = TRUE /\ UNCHANGED <<ready, cancelled>>
         \/ pc = "join timer" /\ pc' = "done" /\ UNCHANGED <<ready, failed, cancelled>>
<1> USE DEF Goto, Fail, outcome, Steps, Deferred, Active
<1>1. CASE Spawn \/ Crash \/ Cancel
  BY <1>1 DEF Spawn, Cancel
<1>2. CASE Cleanup \/ CleanupFails \/ Build \/ Restored \/ ScheduleBackup
  BY <1>2 DEF Cleanup, CleanupFails, Build, Restored, ScheduleBackup
<1>3. CASE CreateContainer \/ CreateFails \/ Join \/ StartContainer \/ StartFails
  BY <1>3 DEF CreateContainer, CreateFails, Join, StartContainer, StartFails
<1>4. CASE WaitToBeHealthy \/ WaitFails \/ SetIngress \/ RegisterDNS \/ Destroy
  BY <1>4 DEF WaitToBeHealthy, WaitFails, SetIngress, RegisterDNS, Destroy
<1>5. CASE ClearIngress \/ StopContainer \/ LeaveNetwork \/ RemoveContainers \/ HaltBackup \/ Return
  BY <1>5 DEF ClearIngress, StopContainer, LeaveNetwork, RemoveContainers, HaltBackup, Return
<1>6. CASE InStorage
  BY <1>6, StorageStepKeeps DEF InStorage, DockerInv
<1>7. CASE ContainerWrites \/ \E s \in Slot : GetsHealthy(s) \/ Exits(s)
  BY <1>7 DEF ContainerWrites, GetsHealthy, Exits
<1> QED
  BY <1>1, <1>2, <1>3, <1>4, <1>5, <1>6, <1>7 DEF Next, Progress

\* Run is a task of the poller: it fails, or gets ready and ends when it is
\* cancelled, and its error tells which.
THEOREM RunIsTask == Spec => ImplementsTask
<1> USE DEF Task!vars, Task!Next, Task!Step, Task!Live
<1>1. Init => Task!Init
  BY DEF Init, StorageInit, Task!Init
<1>2. DockerInv /\ [Next]_vars => [Task!Next]_(Task!vars)
  <2> SUFFICES ASSUME DockerInv, Next PROVE Task!Next \/ UNCHANGED Task!vars
    BY DEF vars, outcome
  <2> USE DEF Steps, Deferred, Active
  <2>0. OutcomeInPlace /\ cancelled \in BOOLEAN /\ ready \in BOOLEAN
    BY DEF DockerInv, TypeOK, StorageTypeOK
  <2>1. CASE UNCHANGED <<pc, ready, failed, cancelled>>
    BY <2>1
  <2>2. CASE pc \in {"none", "done"} /\ Spawn
    BY <2>2 DEF Spawn, Task!Spawn
  <2>3. CASE Crash
    BY <2>3 DEF Crash, Task!Crash
  <2>4. CASE Active /\ UNCHANGED <<pc, ready, failed>> /\ cancelled' = TRUE
    BY <2>4 DEF Task!Cancel
  <2>5. CASE Active /\ pc' \in Steps \cup Deferred /\ UNCHANGED <<ready, cancelled>>
    BY <2>5
  <2>6. CASE pc = "dns" /\ pc' = "ready" /\ ready' = TRUE /\ UNCHANGED <<failed, cancelled>>
    BY <2>0, <2>6 DEF Task!Ready, OutcomeInPlace, outcome
  <2>7. CASE pc \in Steps \ {"ready"} /\ pc' = "done" /\ failed' = TRUE /\ UNCHANGED <<ready, cancelled>>
    BY <2>0, <2>7 DEF Task!DeployFails, OutcomeInPlace, outcome
  <2>8. CASE pc = "join timer" /\ pc' = "done" /\ UNCHANGED <<ready, failed, cancelled>>
    <3>1. CASE outcome = <<FALSE, TRUE>>
      BY <2>8, <3>1 DEF Task!DeployFails, outcome
    <3>2. CASE outcome = <<TRUE, FALSE>> /\ cancelled
      BY <2>8, <3>2 DEF Task!TornDown, outcome
    <3> QED
      BY <2>0, <2>8, <3>1, <3>2 DEF OutcomeInPlace
  <2> QED
    BY <2>1, <2>2, <2>3, <2>4, <2>5, <2>6, <2>7, <2>8, RunMoves
<1> QED
  BY <1>1, <1>2, DockerInvariance, PTL DEF Spec, ImplementsTask, Task!Spec
=============================================================================
