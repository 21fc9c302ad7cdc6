--------------------------- MODULE DockerPackage ---------------------------
(***************************************************************************)
(* A package with a Dockerfile (packs/dckr/daemon.go): Run cleans up,      *)
(* builds, restores, and then creates, joins, starts and publishes one     *)
(* container, each step with a deferred call that undoes it.  The deferred *)
(* calls run in the opposite order when a step fails or the context of the *)
(* ready package is done.  Their errors are ignored.                       *)
(*                                                                         *)
(* One deployment follows the other (Poller); the process may die between  *)
(* any two steps, and leaves to docker what it has created.  The ingress   *)
(* and the network are seen from one group: Ingress and Network have them  *)
(* in full.                                                                *)
(***************************************************************************)
EXTENDS Storage

CONSTANTS Slot,    \* room for containers
          Checked  \* the image has a HEALTHCHECK

ASSUME PackageAssumption == None \notin Slot /\ Checked \in BOOLEAN

VARIABLES
    pc,        \* where Run is
    ready,     \* it has come to wait for its context
    failed,    \* it returns an error
    container, \* docker: the containers with the label of the group
    healthy,   \* docker: those it has reported healthy since they were created
    linked,    \* docker: those connected to the network
    mine,      \* containerID
    routed,    \* ingress: the container the domains of the group lead to
    torn       \* containers were left behind since the last cleanup (history)

docker == <<container, healthy, linked>>
outcome == <<ready, failed>>
vars == <<cancelled, storage, pc, outcome, docker, mine, routed, torn>>

Init ==
    /\ StorageInit
    /\ pc = "none" /\ ready = FALSE /\ failed = FALSE
    /\ container = [s \in Slot |-> "none"]
    /\ healthy = {} /\ linked = {}
    /\ mine = None /\ routed = None /\ torn = FALSE

Existing == {s \in Slot : container[s] # "none"}
Running == {s \in Slot : container[s] = "running"}

\* The steps of Run, and the deferred calls in the order they are made in.
Steps == {"cleanup", "build", "restore", "schedule", "create", "join", "start",
          "health", "set", "dns", "ready"}
Deferred == {"clear", "stop", "leave", "remove", "halt", "join timer"}
Active == pc \in Steps \cup Deferred

Goto(place) == pc' = place /\ UNCHANGED <<cancelled, outcome, mine, torn>>

\* An error: Run returns it after the deferred calls from that one on.
Fail(place) == pc' = place /\ failed' = TRUE /\ UNCHANGED <<cancelled, ready, mine, torn>>

\* ContainerRemove with force of the containers but some.
RemoveBut(kept) ==
    /\ container' = [s \in Slot |-> IF s \in kept THEN container[s] ELSE "none"]
    /\ healthy' = healthy \cap kept
    /\ linked' = linked \cap kept

-----------------------------------------------------------------------------
\* internal.Spawn, under a context that may already be done.
Spawn ==
    /\ pc \in {"none", "done"}
    /\ pc' = "cleanup"
    /\ cancelled' \in BOOLEAN
    /\ ready' = FALSE /\ failed' = FALSE
    /\ mine' = None
    /\ UNCHANGED <<storage, docker, routed, torn>>

\* Mutant: containers that run are not removed, for want of Force, and the
\* error is ignored.
CleanupStopped ==
    /\ pc = "cleanup"
    /\ RemoveBut(Running)
    /\ torn' = FALSE
    /\ pc' = "build"
    /\ UNCHANGED <<cancelled, storage, outcome, mine, routed>>

\* cleanupContainers: also those of a process that has died.
Cleanup ==
    /\ pc = "cleanup"
    /\ RemoveBut({})
    /\ torn' = FALSE
    /\ pc' = "build"
    /\ UNCHANGED <<cancelled, storage, outcome, mine, routed>>

\* Mutant: all errors of the cleanup are ignored.
CleanupIgnored ==
    /\ pc = "cleanup"
    /\ \E kept \in SUBSET Existing : RemoveBut(kept)
    /\ Goto("build")
    /\ UNCHANGED <<storage, routed>>

\* Some, or all, could not be removed.
CleanupFails ==
    /\ pc = "cleanup"
    /\ \E kept \in SUBSET Existing : RemoveBut(kept)
    /\ Fail("done")
    /\ UNCHANGED <<storage, routed>>

Build ==
    /\ pc = "build"
    /\ \/ Goto("restore") /\ CallRestore
       \/ Fail("done") /\ UNCHANGED storage
    /\ UNCHANGED <<docker, routed>>

Restored ==
    /\ pc = "restore"
    /\ \/ Returned("ok") /\ Goto("schedule")
       \/ Returned("failed") /\ Fail("done")
    /\ UNCHANGED <<task, docker, routed>>

ScheduleBackup ==
    /\ pc = "schedule"
    /\ Schedule
    /\ Goto("create")
    /\ UNCHANGED <<volume, provider, writes, restoring, spoiled, docker, routed>>

\* Mutant: the ID that is returned is that of the image.
CreateOfImage ==
    /\ pc = "create"
    /\ \E s \in Slot \ Existing : container' = [container EXCEPT ![s] = "created"]
    /\ mine' = "image"
    /\ pc' = "join"
    /\ UNCHANGED <<cancelled, storage, outcome, healthy, linked, routed, torn>>

CreateContainer ==
    /\ pc = "create"
    /\ \E s \in Slot \ Existing :
         /\ container' = [container EXCEPT ![s] = "created"]
         /\ mine' = s
    /\ pc' = "join"
    /\ UNCHANGED <<cancelled, storage, outcome, healthy, linked, routed, torn>>

\* Docker may have created the container when the answer is lost.
CreateFails ==
    /\ pc = "create"
    /\ \/ UNCHANGED container
       \/ \E s \in Slot \ Existing : container' = [container EXCEPT ![s] = "created"]
    /\ Fail("halt")
    /\ UNCHANGED <<storage, healthy, linked, routed>>

Join ==
    /\ pc = "join"
    /\ linked' \in {linked, linked \cup {mine}}
    /\ IF mine \in linked' /\ mine \notin linked THEN Goto("start") \/ Fail("remove")
                                                ELSE Fail("remove")
    /\ UNCHANGED <<storage, container, healthy, routed>>

\* Mutant: the removal is deferred only when the container has started.
StartUndeferred ==
    /\ pc = "start"
    /\ container' = [container EXCEPT ![mine] = "running"]
    /\ Goto(IF Checked THEN "health" ELSE "set") \/ Fail("halt")
    /\ UNCHANGED <<storage, healthy, linked, routed>>

\* ContainerStart and ContainerInspect; an image without a HEALTHCHECK has no
\* State.Health to wait for.
StartContainer ==
    /\ pc = "start"
    /\ container' = [container EXCEPT ![mine] = "running"]
    /\ Goto(IF Checked THEN "health" ELSE "set") \/ Fail("leave")
    /\ UNCHANGED <<storage, healthy, linked, routed>>

StartFails ==
    /\ pc = "start"
    /\ Fail("leave")
    /\ UNCHANGED <<storage, docker, routed>>

\* WaitToBeHealthy sees the events since the container was created.
WaitToBeHealthy ==
    /\ pc = "health"
    /\ mine \in healthy
    /\ Goto("set")
    /\ UNCHANGED <<storage, docker, routed>>

\* Mutant: the wait does not look at the context.
WaitUncancelled ==
    /\ pc = "health"
    /\ ~cancelled
    /\ Fail("stop")
    /\ UNCHANGED <<storage, docker, routed>>

\* The stream of events fails, or the context is done.
WaitFails ==
    /\ pc = "health"
    /\ Fail("stop")
    /\ UNCHANGED <<storage, docker, routed>>

\* The ingress may refuse a domain.
SetIngress ==
    /\ pc = "set"
    /\ \/ routed' = mine /\ Goto("dns")
       \/ UNCHANGED routed /\ Fail("stop")
    /\ UNCHANGED <<storage, docker>>

RegisterDNS ==
    /\ pc = "dns"
    /\ \/ pc' = "ready" /\ ready' = TRUE /\ UNCHANGED <<cancelled, failed, mine, torn>>
       \/ Fail("clear")
    /\ UNCHANGED <<storage, docker, routed>>

\* Mutants: Run does not wait for the context; Clear is not deferred.
DestroyAtOnce ==
    /\ pc = "ready"
    /\ Goto("clear")
    /\ UNCHANGED <<storage, docker, routed>>

DestroyUncleared ==
    /\ pc = "ready"
    /\ cancelled
    /\ Goto("stop")
    /\ UNCHANGED <<storage, docker, routed>>

\* <-ctx.Done()
Destroy ==
    /\ pc = "ready"
    /\ cancelled
    /\ Goto("clear")
    /\ UNCHANGED <<storage, docker, routed>>

-----------------------------------------------------------------------------
(* The deferred calls.                                                     *)

ClearIngress ==
    /\ pc = "clear"
    /\ routed' = None
    /\ Goto("stop")
    /\ UNCHANGED <<storage, docker>>

StopContainer ==
    /\ pc = "stop"
    /\ \/ container' = [container EXCEPT ![mine] = "exited"]
       \/ UNCHANGED container
    /\ Goto("leave")
    /\ UNCHANGED <<storage, healthy, linked, routed>>

LeaveNetwork ==
    /\ pc = "leave"
    /\ linked' \in {linked, linked \ {mine}}
    /\ Goto("remove")
    /\ UNCHANGED <<storage, container, healthy, routed>>

RemoveContainers ==
    /\ pc = "remove"
    /\ \E kept \in SUBSET Existing :
         /\ RemoveBut(kept)
         /\ torn' = (torn \/ kept # {})
    /\ pc' = "halt"
    /\ UNCHANGED <<cancelled, storage, outcome, mine, routed>>

\* backup.Stop: cancel, then wait for the goroutine.
HaltBackup ==
    /\ pc = "halt"
    /\ Halt
    /\ Goto("join timer")
    /\ UNCHANGED <<docker, routed>>

\* Mutant: Stop only cancels.
ReturnAtOnce ==
    /\ pc = "join timer"
    /\ Goto("done")
    /\ UNCHANGED <<storage, docker, routed>>

Return ==
    /\ pc = "join timer"
    /\ timer = "off"
    /\ Goto("done")
    /\ UNCHANGED <<storage, docker, routed>>

-----------------------------------------------------------------------------
(* Everybody else.                                                         *)

InStorage ==
    /\ StorageStep
    /\ UNCHANGED <<pc, outcome, docker, mine, routed, torn>>

\* The poller stops the package, or the process is interrupted.
Cancel ==
    /\ Active
    /\ cancelled' = TRUE
    /\ UNCHANGED <<storage, pc, outcome, docker, mine, routed, torn>>

\* The containers: they write, get healthy, exit and are not started again
\* (the status was 0: RestartPolicy on-failure).
ContainerWrites ==
    /\ Running # {}
    /\ Write
    /\ UNCHANGED <<cancelled, pc, outcome, docker, mine, routed, torn>>

GetsHealthy(s) ==
    /\ s \in Running
    /\ healthy' = healthy \cup {s}
    /\ UNCHANGED <<cancelled, storage, pc, outcome, container, linked, mine, routed, torn>>

Exits(s) ==
    /\ s \in Running
    /\ container' = [container EXCEPT ![s] = "exited"]
    /\ UNCHANGED <<cancelled, storage, pc, outcome, healthy, linked, mine, routed, torn>>

\* The process dies; the ingress dies with it, the containers do not.
Crash ==
    /\ pc' = "none"
    /\ StorageCrash
    /\ cancelled' = FALSE /\ ready' = FALSE /\ failed' = FALSE
    /\ mine' = None /\ routed' = None
    /\ torn' = (torn \/ Existing # {})
    /\ UNCHANGED docker

\* What Run does without waiting for anybody but docker.
Progress == \/ Cleanup \/ CleanupFails \/ Build \/ Restored \/ ScheduleBackup
            \/ CreateContainer \/ CreateFails \/ Join \/ StartContainer \/ StartFails
            \/ WaitToBeHealthy \/ SetIngress \/ RegisterDNS \/ Destroy
            \/ ClearIngress \/ StopContainer \/ LeaveNetwork \/ RemoveContainers
            \/ HaltBackup \/ Return

Next == \/ Progress \/ WaitFails \/ InStorage
        \/ Spawn \/ Cancel \/ ContainerWrites \/ Crash
        \/ \E s \in Slot : GetsHealthy(s) \/ Exits(s)

Spec == Init /\ [][Next]_vars

\* Docker and the backup provider answer, with a result or an error.  A
\* container need not get healthy: nothing but the context ends that wait.  It
\* is enough that the goroutines of the package do not all stop for ever.
Fairness == WF_vars(Progress \/ (cancelled /\ WaitFails) \/ (InStorage /\ (RestoreStep \/ BackupStep)))

FairSpec == Spec /\ Fairness

-----------------------------------------------------------------------------
TypeOK ==
    /\ StorageTypeOK
    /\ pc \in Steps \cup Deferred \cup {"none", "done"}
    /\ ready \in BOOLEAN /\ failed \in BOOLEAN /\ torn \in BOOLEAN
    /\ container \in [Slot -> {"none", "created", "running", "exited"}]
    /\ healthy \subseteq Slot /\ linked \subseteq Slot
    /\ mine \in Slot \cup {None} /\ routed \in Slot \cup {None}

\* Two containers of a group never run at the same time, not even one of a
\* process that has died and one of its successor: they share the volume.
OneRunning == \A s, t \in Running : s = t

\* The domains lead to the container of this deployment, which is there, is
\* in the network and has been healthy, as long as they lead anywhere: Clear
\* comes before the container is stopped, whichever step has failed.
RouteIsUp ==
    routed # None =>
        /\ routed = mine
        /\ container[mine] \in {"running", "exited"} /\ mine \in linked
        /\ Checked => mine \in healthy

\* An archive is unpacked by Restore only while no container runs on the
\* volume, even if the last process has died and left one.
RestoreAlone == restore # "off" => Running = {}

\* When Run has returned no container runs, unless docker has failed to
\* remove it or the process has died.
NoResidue == pc \in {"none", "done"} /\ Running # {} => torn

\* A package that is stopped returns, whatever step it is in and whatever
\* Backup is doing: there is always a later time at which none is cancelled and
\* has not returned.
TearDownEnds == []<>~(cancelled /\ Active)

\* For the poller, Run is a task.
Task == INSTANCE PackageTask
          WITH state <- IF pc \in {"none", "done"} THEN pc
                        ELSE IF ready THEN "ready" ELSE "deploying",
               err <- pc = "done" /\ failed

ImplementsTask == Task!Spec

\* What the place of Run says about the rest of the state.

\* The goroutine of Restore, the task of Schedule, and what they work on.
StorageInPlace ==
    /\ restore # "off" <=> pc = "restore"
    /\ pc \in {"none", "cleanup", "build", "restore", "schedule", "done"} => timer = "off"
    /\ pc = "schedule" => spoiled \/ Covers(volume, archive)

\* The one container there may be, and what it has come to.
ContainerInPlace ==
    /\ \A s, t \in Existing : s = t
    /\ pc \in {"build", "restore", "schedule", "create"} => Existing = {}
    /\ pc \in {"join", "start", "health", "set", "dns", "ready", "clear", "stop", "leave", "remove"} =>
           mine \in Existing
    /\ pc \in {"start", "health", "set", "dns", "ready", "clear"} => mine \in linked
    /\ pc \in {"health", "set", "dns", "ready", "clear", "stop"} =>
           container[mine] \in {"running", "exited"}
    /\ Checked /\ pc \in {"set", "dns", "ready", "clear"} => mine \in healthy
    /\ routed = IF pc \in {"dns", "ready", "clear"} THEN mine ELSE None
    /\ pc \in {"none", "cleanup", "halt", "join timer", "done"} /\ Running # {} => torn

\* A package either fails or gets ready and is cancelled.
OutcomeInPlace ==
    /\ pc \in (Steps \ {"ready"}) \cup {"none"} => outcome = <<FALSE, FALSE>>
    /\ pc = "ready" => outcome = <<TRUE, FALSE>>
    /\ pc \in Deferred \cup {"done"} => \/ outcome = <<FALSE, TRUE>>
                                        \/ outcome = <<TRUE, FALSE>> /\ cancelled

\* The inductive invariant.
DockerInv == TypeOK /\ StorageInv /\ StorageInPlace /\ ContainerInPlace /\ OutcomeInPlace
=============================================================================
