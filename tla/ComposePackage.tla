--------------------------- MODULE ComposePackage ---------------------------
(***************************************************************************)
(* A package with a compose file (packs/compose/compose.go): Run restores  *)
(* the volumes of the composition, builds and brings it up, joins the      *)
(* containers of the services that publish ports to the network, and       *)
(* publishes them.  The deferred calls undo that in the opposite order     *)
(* when a step fails or the context of the ready package is done, and      *)
(* their errors are ignored.                                               *)
(*                                                                         *)
(* There is no cleanup at the start: docker-compose finds the containers   *)
(* of the project again.  It is external and is modelled by what it does   *)
(* to the containers.                                                      *)
(***************************************************************************)
EXTENDS Storage

CONSTANTS Container, \* the containers of the composition
          Published  \* those of services with ports

ASSUME PackageAssumption == Published \subseteq Container

VARIABLES
    pc,      \* where Run is
    ready,   \* it has come to wait for its context
    failed,  \* it returns an error
    running, \* docker: the containers that run
    exited,  \* docker: those that have ended by themselves
    linked,  \* docker: the containers connected to the network
    found,   \* the containers with ports that mapContainers has found
    joined,  \* those of them that have joined, with a deferred Leave
    routed,  \* ingress: the containers the domains of the group lead to
    torn     \* the last up or stop failed, or the process has died (history)

docker == <<running, exited, linked>>
networking == <<found, joined>>
outcome == <<ready, failed>>
vars == <<cancelled, storage, pc, outcome, docker, networking, routed, torn>>

Init ==
    /\ StorageInit
    /\ pc = "none" /\ ready = FALSE /\ failed = FALSE
    /\ running = {} /\ exited = {} /\ linked = {}
    /\ found = {} /\ joined = {} /\ routed = {}
    /\ torn = FALSE

\* The steps of Run, and the deferred calls in the order they are made in.
Steps == {"load", "restore", "schedule", "build", "up", "map", "join", "dns", "ready"}
Deferred == {"clear", "leave", "stop", "halt", "join timer"}
Active == pc \in Steps \cup Deferred

Goto(place) == pc' = place /\ UNCHANGED <<cancelled, outcome>>

\* An error: Run returns it after the deferred calls from that one on.
Fail(place) == pc' = place /\ failed' = TRUE /\ UNCHANGED <<cancelled, ready>>

-----------------------------------------------------------------------------
\* internal.Spawn, under a context that may already be done.
Spawn ==
    /\ pc \in {"none", "done"}
    /\ pc' = "load"
    /\ cancelled' \in BOOLEAN
    /\ ready' = FALSE /\ failed' = FALSE
    /\ found' = {}
    /\ UNCHANGED <<storage, docker, joined, routed, torn>>

\* .env and the compose file are read and rewritten.
Load ==
    /\ pc = "load"
    /\ \/ Goto("restore") /\ CallRestore
       \/ Fail("done") /\ UNCHANGED storage
    /\ UNCHANGED <<docker, networking, routed, torn>>

Restored ==
    /\ pc = "restore"
    /\ \/ Returned("ok") /\ Goto("schedule")
       \/ Returned("failed") /\ Fail("done")
    /\ UNCHANGED <<task, docker, networking, routed, torn>>

ScheduleBackup ==
    /\ pc = "schedule"
    /\ Schedule
    /\ Goto("build")
    /\ UNCHANGED <<volume, provider, writes, restoring, spoiled, docker, networking, routed, torn>>

\* docker-compose build.
Build ==
    /\ pc = "build"
    /\ Goto("up") \/ Fail("halt")
    /\ UNCHANGED <<storage, docker, networking, routed, torn>>

\* docker-compose up.
Up ==
    /\ pc = "up"
    /\ running' = Container /\ exited' = {}
    /\ Goto("map")
    /\ UNCHANGED <<storage, linked, networking, routed, torn>>

\* up fails, or is killed with the context, halfway: the stop of what it has
\* brought up is not deferred yet.
UpFails ==
    /\ pc = "up"
    /\ \E some \in SUBSET Container :
         running' = running \cup some /\ exited' = exited \ some
    /\ torn' = TRUE
    /\ Fail("halt")
    /\ UNCHANGED <<storage, linked, networking, routed>>

\* Mutant: the stop is deferred only when the containers have been listed.
MapUndeferred ==
    /\ pc = "map"
    /\ \/ found' = Published \cap running /\ Goto("join")
       \/ UNCHANGED found /\ Fail("halt")
    /\ UNCHANGED <<storage, docker, joined, routed, torn>>

\* mapContainers lists the containers of the project that run at that moment;
\* those that have ended already get no domains, and nobody is told.
MapContainers ==
    /\ pc = "map"
    /\ \/ found' = Published \cap running /\ Goto("join")
       \/ UNCHANGED found /\ Fail("stop")
    /\ UNCHANGED <<storage, docker, joined, routed, torn>>

\* The containers that publish ports join one by one.
Join(c) ==
    /\ pc = "join"
    /\ c \in found \ joined
    /\ linked' = linked \cup {c}
    /\ joined' = joined \cup {c}
    /\ UNCHANGED <<cancelled, storage, pc, outcome, running, exited, found, routed, torn>>

JoinFails(c) ==
    /\ pc = "join"
    /\ c \in found \ joined
    /\ linked' \in {linked, linked \cup {c}}
    /\ Fail("leave")
    /\ UNCHANGED <<storage, running, exited, networking, routed, torn>>

\* Mutant: every service of the file gets its domains, listed or not.
SetEverything ==
    /\ pc = "join"
    /\ joined = found
    /\ \/ routed' = Published /\ Goto("dns")
       \/ UNCHANGED routed /\ Fail("leave")
    /\ UNCHANGED <<storage, docker, networking, torn>>

\* All have joined: the domains are allocated, and the ingress may refuse one.
SetIngress ==
    /\ pc = "join"
    /\ joined = found
    /\ \/ routed' = joined /\ Goto("dns")
       \/ UNCHANGED routed /\ Fail("leave")
    /\ UNCHANGED <<storage, docker, networking, torn>>

RegisterDNS ==
    /\ pc = "dns"
    /\ \/ pc' = "ready" /\ ready' = TRUE /\ UNCHANGED <<cancelled, failed>>
       \/ Fail("clear")
    /\ UNCHANGED <<storage, docker, networking, routed, torn>>

\* Mutants: Run does not wait for the context; Clear is not deferred.
DestroyAtOnce ==
    /\ pc = "ready"
    /\ Goto("clear")
    /\ UNCHANGED <<storage, docker, networking, routed, torn>>

DestroyUncleared ==
    /\ pc = "ready"
    /\ cancelled
    /\ Goto("leave")
    /\ UNCHANGED <<storage, docker, networking, routed, torn>>

\* <-ctx.Done()
Destroy ==
    /\ pc = "ready"
    /\ cancelled
    /\ Goto("clear")
    /\ UNCHANGED <<storage, docker, networking, routed, torn>>

-----------------------------------------------------------------------------
(* The deferred calls.                                                     *)

ClearIngress ==
    /\ pc = "clear"
    /\ routed' = {}
    /\ Goto("leave")
    /\ UNCHANGED <<storage, docker, networking, torn>>

\* Mutant: Leave is repeated until it succeeds.
LeaveUntilLeft(c) ==
    /\ pc = "leave"
    /\ c \in joined
    /\ joined' = joined \ {c}
    /\ ~cancelled /\ linked' = linked \ {c}
    /\ UNCHANGED <<cancelled, storage, pc, outcome, running, exited, found, routed, torn>>

\* Leave is given the context of the package: once that is cancelled the call
\* fails and the container stays in the network.
LeaveNetwork(c) ==
    /\ pc = "leave"
    /\ c \in joined
    /\ joined' = joined \ {c}
    /\ \/ ~cancelled /\ linked' = linked \ {c}
       \/ UNCHANGED linked
    /\ UNCHANGED <<cancelled, storage, pc, outcome, running, exited, found, routed, torn>>

\* docker-compose stop, with a context of its own.
StopComposition ==
    /\ pc \in {"leave", "stop"} /\ joined = {}
    /\ running' \in SUBSET running
    /\ exited' = {}
    /\ torn' = (running' # {})
    /\ Goto("halt")
    /\ UNCHANGED <<storage, linked, networking, routed>>

\* backupTask.Stop: cancel, then wait for the goroutine.
HaltBackup ==
    /\ pc = "halt"
    /\ Halt
    /\ Goto("join timer")
    /\ UNCHANGED <<docker, networking, routed, torn>>

\* Mutant: Stop only cancels.
ReturnAtOnce ==
    /\ pc = "join timer"
    /\ Goto("done")
    /\ UNCHANGED <<storage, docker, networking, routed, torn>>

Return ==
    /\ pc = "join timer"
    /\ timer = "off"
    /\ Goto("done")
    /\ UNCHANGED <<storage, docker, networking, routed, torn>>

-----------------------------------------------------------------------------
(* Everybody else.                                                         *)

InStorage ==
    /\ StorageStep
    /\ UNCHANGED <<pc, outcome, docker, networking, routed, torn>>

\* The poller stops the package, or the process is interrupted.
Cancel ==
    /\ Active
    /\ cancelled' = TRUE
    /\ UNCHANGED <<storage, pc, outcome, docker, networking, routed, torn>>

ContainerWrites ==
    /\ running # {}
    /\ Write
    /\ UNCHANGED <<cancelled, pc, outcome, docker, networking, routed, torn>>

Exits(c) ==
    /\ c \in running
    /\ running' = running \ {c} /\ exited' = exited \cup {c}
    /\ UNCHANGED <<cancelled, storage, pc, outcome, linked, networking, routed, torn>>

\* The process dies; the containers do not.
Crash ==
    /\ pc' = "none"
    /\ StorageCrash
    /\ cancelled' = FALSE /\ ready' = FALSE /\ failed' = FALSE
    /\ found' = {} /\ joined' = {} /\ routed' = {}
    /\ torn' = TRUE
    /\ UNCHANGED docker

\* What Run does without waiting for anybody but docker.
Progress == \/ Load \/ Restored \/ ScheduleBackup \/ Build \/ Up \/ UpFails \/ MapContainers
            \/ (\E c \in Container : Join(c) \/ JoinFails(c) \/ LeaveNetwork(c))
            \/ SetIngress \/ RegisterDNS \/ Destroy
            \/ ClearIngress \/ StopComposition \/ HaltBackup \/ Return

Next == \/ Progress \/ InStorage
        \/ Spawn \/ Cancel \/ ContainerWrites \/ Crash
        \/ \E c \in Container : Exits(c)

Spec == Init /\ [][Next]_vars

\* Docker and the backup provider answer, with a result or an error: the
\* goroutines of the package do not all stop for ever.
Fairness == WF_vars(Progress \/ (InStorage /\ (RestoreStep \/ BackupStep)))

FairSpec == Spec /\ Fairness

-----------------------------------------------------------------------------
TypeOK ==
    /\ StorageTypeOK
    /\ pc \in Steps \cup Deferred \cup {"none", "done"}
    /\ ready \in BOOLEAN /\ failed \in BOOLEAN /\ torn \in BOOLEAN
    /\ running \subseteq Container /\ exited \subseteq Container /\ linked \subseteq Container
    /\ found \subseteq Published /\ joined \subseteq found /\ routed \subseteq found

\* The domains lead to containers of the composition that are up, or have
\* ended by themselves, and are in the network, for as long as they lead
\* anywhere: Clear comes before Leave and stop, whichever step has failed.
RouteIsUp == routed \subseteq (running \cup exited) \cap linked

\* When Run has returned no container runs, unless an up or a stop has failed
\* or the process has died, so the next Restore meets none either.
NoResidue == pc \in {"none", "done"} /\ running # {} => torn

\* A package that is stopped returns, whatever step it is in and whatever
\* Backup is doing: there is always a later time at which none is cancelled and
\* has not returned.
TearDownEnds == []<>~(cancelled /\ Active)

\* For the poller, Run is a task.
Task == INSTANCE PackageTask
          WITH state <- IF pc \in {"none", "done"} THEN pc
                        ELSE IF ready THEN "ready" ELSE "deploying",
               err <- pc = "done" /\ failed

ImplementsTask == Task!Spec

\* What the place of Run says about the rest of the state.

\* The goroutine of Restore, the task of Schedule, and what they work on.
StorageInPlace ==
    /\ restore # "off" <=> pc = "restore"
    /\ pc \in {"none", "load", "restore", "schedule", "done"} => timer = "off"
    /\ pc = "schedule" => spoiled \/ Covers(volume, archive)

\* The containers that have been found, those that have joined, and those
\* that are published.
ContainersInPlace ==
    /\ pc \notin {"join", "dns", "ready", "clear", "leave"} => joined = {}
    /\ joined \subseteq linked
    /\ pc \in {"join", "dns", "ready", "clear", "leave"} => found \subseteq running \cup exited
    /\ pc \in {"dns", "ready", "clear"} => routed \subseteq joined
    /\ pc \notin {"dns", "ready", "clear"} => routed = {}
    /\ /\ pc \in {"none", "load", "restore", "schedule", "build", "up", "halt", "join timer", "done"}
       /\ running # {}
       => torn

\* A package either fails or gets ready and is cancelled.
OutcomeInPlace ==
    /\ pc \in (Steps \ {"ready"}) \cup {"none"} => outcome = <<FALSE, FALSE>>
    /\ pc = "ready" => outcome = <<TRUE, FALSE>>
    /\ pc \in Deferred \cup {"done"} => \/ outcome = <<FALSE, TRUE>>
                                        \/ outcome = <<TRUE, FALSE>> /\ cancelled

\* The inductive invariant.
ComposeInv == TypeOK /\ StorageInv /\ StorageInPlace /\ ContainersInPlace /\ OutcomeInPlace
=============================================================================
