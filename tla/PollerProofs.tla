---------------------------- MODULE PollerProofs ----------------------------
(***************************************************************************)
(* Proofs about Poller for any commits, packagings, failures, pushes and   *)
(* restarts: at most one package of a pipeline is alive, none is left      *)
(* behind, and no update is lost.                                          *)
(***************************************************************************)
EXTENDS Poller, TLAPS

LEMMA FreshIsTask ==
  ASSUME NEW state \in {"unused", "deploying", "ready", "done"},
         NEW kind \in {"compose", "docker"}, NEW cancelled \in BOOLEAN
  PROVE  Fresh(state, kind, cancelled) \in Task
BY DEF Fresh, Task

LEMMA UnusedIsTask == Unused \in Task
BY FreshIsTask DEF Unused

\* The changes a task undergoes, one field at a time.
LEMMA TaskFields ==
  ASSUME NEW t \in Task
  PROVE  /\ [t EXCEPT !.cancelled = TRUE] \in Task
         /\ \A x \in {"ready", "done"} : [t EXCEPT !.state = x] \in Task
         /\ [t EXCEPT !.state = "done", !.err = TRUE] \in Task
         /\ \A c \in Commit \cup {None} : [t EXCEPT !.image = c] \in Task
         /\ \A c \in Commit \cup {None}, v \in Value \cup {None} :
              /\ [t EXCEPT !.image = c, !.value = v] \in Task
              /\ [t EXCEPT !.config = c, !.value = v] \in Task
BY DEF Task

LEMMA InitInv == Init => IInv
<1> SUFFICES ASSUME Init PROVE IInv
  OBVIOUS
<1>1. TypeOK
  <2>1. task \in [Slot -> Task]
    BY UnusedIsTask DEF Init
  <2>2. env \in Value \cup {None} /\ pushes \in 0..MaxPushes /\ starts \in Nat
    BY PollerAssumption DEF Init
  <2> QED
    BY <2>1, <2>2 DEF Init, TypeOK, Places
<1>2. OnlyCurrentLive /\ UpdateNoted
  BY DEF Init, OnlyCurrentLive, UpdateNoted, Live, Unused, Fresh
<1> QED
  BY <1>1, <1>2 DEF IInv

-----------------------------------------------------------------------------
(* Type correctness.                                                       *)

LEMMA TypeStep == TypeOK /\ Next => TypeOK'
<1> SUFFICES ASSUME TypeOK, Next PROVE TypeOK'
  OBVIOUS
<1> USE PollerAssumption DEF TypeOK, Places, remote, clone, locals, loop
<1>1. CASE BeginPoll \/ Clone \/ Fetch \/ PrevHash \/ Reset
  BY <1>1 DEF BeginPoll, Clone, Fetch, PrevHash, Reset
<1>2. CASE NothingToDo \/ Redeploy \/ UnknownPackage \/ PollFails \/ CommandKilled
  BY <1>2 DEF NothingToDo, Redeploy, UnknownPackage, PollFails, CommandKilled
<1>3. CASE StopOld \/ OnContextDone
  <2>1. task' \in [Slot -> Task]
    <3>1. task' = [s \in Slot |->
            IF s = current THEN [task[s] EXCEPT !.cancelled = TRUE] ELSE task[s]]
      BY <1>3 DEF StopOld, OnContextDone
    <3> QED
      BY <3>1, TaskFields
  <2>2. pc' \in Places /\ UNCHANGED <<remote, clone, locals, loop, current, env, starts>>
    BY <1>3 DEF StopOld, OnContextDone
  <2> QED
    BY <2>1, <2>2
<1>4. CASE JoinOld
  BY <1>4 DEF JoinOld
<1>5. CASE Spawn
  <2>1. PICK s \in Slot :
           /\ task' = [task EXCEPT ![s] =
                Fresh("deploying", IF head \in Compose THEN "compose" ELSE "docker", stopped)]
           /\ current' = s
    BY <1>5 DEF Spawn
  <2>2. task' \in [Slot -> Task]
    BY <2>1, FreshIsTask
  <2> QED
    BY <1>5, <2>1, <2>2 DEF Spawn
<1>6. CASE OnTick \/ OnPackageStopped \/ Exit
  BY <1>6 DEF OnTick, OnPackageStopped, Exit
<1>7. ASSUME NEW s \in Slot, TaskStep(s) PROVE TypeOK'
  <2>1. CASE Load(s)
    <3>1. env' \in Value \cup {None} /\ head \in Commit \cup {None}
      BY <2>1 DEF Load
    <3>2. task' = [task EXCEPT ![s] = [task[s] EXCEPT !.config = head, !.value = env']]
      BY <2>1 DEF Load
    <3>3. task' \in [Slot -> Task]
      BY <3>1, <3>2, TaskFields
    <3> QED
      BY <2>1, <3>1, <3>3 DEF Load
  <2>2. CASE Build(s)
    <3>1. \/ task' = [task EXCEPT ![s] = [task[s] EXCEPT !.image = head]]
          \/ task' = [task EXCEPT ![s] = [task[s] EXCEPT !.image = head, !.value = env]]
      BY <2>2 DEF Build
    <3>2. /\ [task[s] EXCEPT !.image = head] \in Task
          /\ [task[s] EXCEPT !.image = head, !.value = env] \in Task
      BY TaskFields
    <3>3. task' \in [Slot -> Task]
      BY <3>1, <3>2
    <3>4. UNCHANGED <<remote, clone, locals, loop, pc, current, env, starts>>
      BY <2>2 DEF Build
    <3> QED
      BY <3>3, <3>4
  <2>3. CASE Ready(s) \/ TornDown(s)
    <3>1. \E x \in {"ready", "done"} : task' = [task EXCEPT ![s] = [task[s] EXCEPT !.state = x]]
      BY <2>3 DEF Ready, TornDown
    <3>2. \A x \in {"ready", "done"} : [task[s] EXCEPT !.state = x] \in Task
      BY TaskFields
    <3>3. task' \in [Slot -> Task]
      BY <3>1, <3>2
    <3>4. UNCHANGED <<remote, clone, locals, loop, pc, current, env, starts>>
      BY <2>3 DEF Ready, TornDown
    <3> QED
      BY <3>3, <3>4
  <2>4. CASE DeployFails(s)
    <3>1. task' = [task EXCEPT ![s] = [task[s] EXCEPT !.state = "done", !.err = TRUE]]
      BY <2>4 DEF DeployFails
    <3>2. task' \in [Slot -> Task]
      BY <3>1, TaskFields
    <3> QED
      BY <2>4, <3>2 DEF DeployFails
  <2> QED
    BY <1>7, <2>1, <2>2, <2>3, <2>4 DEF TaskStep
<1>8. CASE Push
  BY <1>8 DEF Push
<1>9. CASE Tick \/ Crash
  BY <1>9 DEF Tick, Crash
<1>10. CASE Interrupt
  <2>1. task' \in [Slot -> Task]
    BY <1>10, TaskFields DEF Interrupt
  <2> QED
    BY <1>10, <2>1 DEF Interrupt
<1>11. CASE Start
  <2>1. task' \in [Slot -> Task]
    BY <1>11, UnusedIsTask DEF Start
  <2>2. env' \in Value \cup {None} /\ starts' \in Nat /\ current' = None /\ pc' = "poll"
    BY <1>11 DEF Start
  <2>3. UNCHANGED <<remote, clone>> /\ force' = TRUE /\ tick' = FALSE /\ stopped' = FALSE
    BY <1>11 DEF Start
  <2>4. fresh' = FALSE /\ prev' = None
    BY <1>11 DEF Start
  <2> QED
    BY <2>1, <2>2, <2>3, <2>4
<1> QED
  BY <1>1, <1>2, <1>3, <1>4, <1>5, <1>6, <1>7, <1>8, <1>9, <1>10, <1>11
  DEF Next, PollStep, RunStep, Environment

-----------------------------------------------------------------------------
(* Only poller.current is alive.                                           *)

\* What a step of a task does to the tasks and to the poller.
LEMMA TaskStepEffect ==
  ASSUME TypeOK, NEW s \in Slot, TaskStep(s)
  PROVE  /\ Live(s)
         /\ UNCHANGED <<remote, clone, locals, loop, pc, current>>
         /\ \A t \in Slot : t # s => task'[t] = task[t]
         /\ task'[s].config = task[s].config \/ task'[s].config = head
         /\ task'[s].image = task[s].image \/ task'[s].image = head
BY DEF TypeOK, Task, TaskStep, Load, Build, Ready, DeployFails, TornDown, Live

\* Cancelling tasks neither starts nor ends nor changes them.
LEMMA CancelEffect ==
  ASSUME TypeOK, StopOld \/ OnContextDone \/ Interrupt, NEW s \in Slot
  PROVE  /\ task'[s].state = task[s].state
         /\ task'[s].config = task[s].config
         /\ task'[s].image = task[s].image
BY DEF TypeOK, Task, StopOld, OnContextDone, Interrupt

LEMMA OnlyCurrentStep == TypeOK /\ OnlyCurrentLive /\ Next => OnlyCurrentLive'
<1> SUFFICES ASSUME TypeOK, OnlyCurrentLive, Next PROVE OnlyCurrentLive'
  OBVIOUS
<1> USE DEF OnlyCurrentLive, Live
<1>1. CASE BeginPoll \/ Clone \/ Fetch \/ PrevHash \/ Reset
  BY <1>1 DEF BeginPoll, Clone, Fetch, PrevHash, Reset
<1>2. CASE NothingToDo \/ Redeploy \/ UnknownPackage \/ PollFails \/ CommandKilled
  BY <1>2 DEF NothingToDo, Redeploy, UnknownPackage, PollFails, CommandKilled
<1>3. CASE StopOld \/ OnContextDone
  <2>1. pc' \notin {"detect", "exited"} /\ UNCHANGED current
    BY <1>3 DEF StopOld, OnContextDone
  <2> QED
    BY <1>3, <2>1, CancelEffect
<1>4. CASE JoinOld \/ Exit
  <2>1. \A s \in Slot : ~Live(s)
    BY <1>4, PollerAssumption DEF JoinOld, Exit, Done
  <2> QED
    BY <1>4, <2>1 DEF JoinOld, Exit
<1>5. CASE Spawn
  BY <1>5 DEF Spawn, TypeOK
<1>6. CASE OnPackageStopped
  BY <1>6 DEF OnPackageStopped, Done
<1>7. CASE OnTick \/ Push \/ Tick \/ Crash
  BY <1>7 DEF OnTick, Push, Tick, Crash, loop
<1>8. ASSUME NEW s \in Slot, TaskStep(s) PROVE OnlyCurrentLive'
  BY <1>8, TaskStepEffect
<1>9. CASE Interrupt
  BY <1>9, CancelEffect DEF Interrupt
<1>10. CASE Start
  BY <1>10 DEF Start, Unused, Fresh
<1> QED
  BY <1>1, <1>2, <1>3, <1>4, <1>5, <1>6, <1>7, <1>8, <1>9, <1>10
  DEF Next, PollStep, RunStep, Environment

-----------------------------------------------------------------------------
(* Updates are noted.                                                      *)

LEMMA UpdateStep == TypeOK /\ UpdateNoted /\ Next => UpdateNoted'
<1> SUFFICES ASSUME TypeOK, UpdateNoted, Next PROVE UpdateNoted'
  OBVIOUS
<1> USE DEF UpdateNoted, From
<1>1. CASE BeginPoll \/ Clone \/ Fetch \/ PrevHash
  <2>1. CASE BeginPoll
    BY <2>1 DEF BeginPoll, loop, clone
  <2>2. CASE Clone
    BY <2>2 DEF Clone, loop, locals
  <2>3. CASE Fetch
    BY <2>3 DEF Fetch, loop, locals
  <2>4. CASE PrevHash
    BY <2>4 DEF PrevHash, loop, clone
  <2> QED
    BY <1>1, <2>1, <2>2, <2>3, <2>4
<1>2. CASE Reset
  BY <1>2 DEF Reset, locals, loop
<1>3. CASE NothingToDo
  BY <1>3 DEF NothingToDo, Changed, clone, locals
<1>4. CASE Redeploy \/ UnknownPackage \/ PollFails \/ CommandKilled
  BY <1>4 DEF Redeploy, UnknownPackage, PollFails, CommandKilled
<1>5. CASE StopOld \/ JoinOld \/ OnContextDone \/ Exit
  BY <1>5 DEF StopOld, JoinOld, OnContextDone, Exit
<1>6. CASE Spawn
  BY <1>6, PollerAssumption DEF Spawn, Fresh, TypeOK
<1>7. CASE OnTick
  BY <1>7 DEF OnTick, clone
<1>8. CASE OnPackageStopped
  BY <1>8 DEF OnPackageStopped
<1>9. ASSUME NEW s \in Slot, TaskStep(s) PROVE UpdateNoted'
  <2>1. /\ UNCHANGED <<clone, locals, loop, pc, current>>
        /\ \A t \in Slot : t # s => task'[t] = task[t]
        /\ task'[s].config = task[s].config \/ task'[s].config = head
        /\ task'[s].image = task[s].image \/ task'[s].image = head
    BY <1>9, TaskStepEffect
  <2>2. current \in Slot \cup {None}
    BY DEF TypeOK
  <2> QED
    BY <2>1, <2>2 DEF clone, locals, loop
<1>10. CASE Push \/ Tick \/ Crash
  BY <1>10 DEF Push, Tick, Crash, clone, locals, loop
<1>11. CASE Interrupt
  <2>1. UNCHANGED <<clone, locals, force, pc, current>>
    BY <1>11 DEF Interrupt
  <2>2. current \in Slot \cup {None}
    BY DEF TypeOK
  <2> QED
    BY <1>11, <2>1, <2>2, CancelEffect DEF clone, locals
<1>12. CASE Start
  BY <1>12 DEF Start
<1> QED
  BY <1>1, <1>2, <1>3, <1>4, <1>5, <1>6, <1>7, <1>8, <1>9, <1>10, <1>11, <1>12
  DEF Next, PollStep, RunStep, Environment

-----------------------------------------------------------------------------
(* The theorems.                                                           *)

LEMMA StutterInv == IInv /\ UNCHANGED vars => IInv'
<1> SUFFICES ASSUME IInv, UNCHANGED vars PROVE IInv'
  OBVIOUS
<1> USE DEF IInv, vars, remote, clone, locals, loop
<1>1. TypeOK'
  BY DEF TypeOK
<1>2. OnlyCurrentLive'
  BY DEF OnlyCurrentLive, Live
<1>3. UpdateNoted'
  BY DEF UpdateNoted, From
<1> QED
  BY <1>1, <1>2, <1>3

\* The strengthening of the safety invariants is an invariant.
THEOREM Invariance == Spec => []IInv
<1>1. IInv /\ [Next]_vars => IInv'
  BY TypeStep, OnlyCurrentStep, UpdateStep, StutterInv DEF IInv
<1> QED
  BY InitInv, <1>1, PTL DEF Spec

\* The variables of the poller, its clone and its tasks keep their types.
THEOREM TypeCorrect == Spec => []TypeOK
<1>1. IInv => TypeOK
  BY DEF IInv
<1> QED
  BY <1>1, Invariance, PTL

\* At no time are two packages of one pipeline alive: Task.Stop waits.
THEOREM OnePackage == Spec => []SinglePackage
<1>1. IInv => SinglePackage
  BY DEF IInv, OnlyCurrentLive, SinglePackage
<1> QED
  BY <1>1, Invariance, PTL

\* pipe.Run leaves no package behind.
THEOREM NothingLeftBehind == Spec => []NoOrphan
<1>1. IInv => NoOrphan
  BY DEF IInv, OnlyCurrentLive, NoOrphan
<1> QED
  BY <1>1, Invariance, PTL

\* Whatever fails between git reset and the spawn of the package, a poller
\* that sleeps with force unset has a package of the commit in its tree.
THEOREM UpdatesAreNotLost == Spec => []NoLostUpdate
<1>1. IInv => NoLostUpdate
  BY DEF IInv, UpdateNoted, From, NoLostUpdate
<1> QED
  BY <1>1, Invariance, PTL

-----------------------------------------------------------------------------
(* The task that the poller has is a PackageTask.                          *)

\* What the packages see of a step that leaves the poller and its task alone.
LEMMA SameTask ==
  ASSUME UNCHANGED current, Up' <=> Up,
         Watched => /\ task'[current].state = task[current].state
                    /\ task'[current].cancelled = task[current].cancelled
                    /\ task'[current].err = task[current].err
  PROVE  UNCHANGED Package!vars
BY DEF Package!vars, Watched

\* Cancelling the context is Cancel, or nothing where it is cancelled already
\* or there is no task.
LEMMA CancelIsCancel ==
  ASSUME TypeOK, StopOld \/ OnContextDone \/ Interrupt
  PROVE  Package!Cancel \/ UNCHANGED Package!vars
<1>1. UNCHANGED current /\ (Up' <=> Up)
  BY DEF StopOld, OnContextDone, Interrupt, Up
<1>2. CASE ~ Watched
  BY <1>1, <1>2, SameTask
<1>3. CASE Watched
  <2>1. current \in Slot /\ task[current] \in Task
    BY <1>3 DEF Watched, TypeOK
  <2>2. \/ task'[current] = task[current]
        \/ task'[current] = [task[current] EXCEPT !.cancelled = TRUE]
    BY <2>1 DEF StopOld, OnContextDone, Interrupt
  <2>3. CASE task'[current] = task[current]
    BY <1>1, <2>3, SameTask
  <2>4. CASE task'[current] = [task[current] EXCEPT !.cancelled = TRUE]
    <3>1. /\ task'[current].state = task[current].state /\ task[current].state # "none"
          /\ task'[current].cancelled = TRUE
          /\ task'[current].err = task[current].err
      BY <2>1, <2>4 DEF Task
    <3> QED
      BY <1>1, <1>3, <3>1 DEF Package!Cancel, Watched
  <2> QED
    BY <2>2, <2>3, <2>4
<1> QED
  BY <1>2, <1>3

\* The next package is spawned where the last one has finished.
LEMMA SpawnIsSpawn ==
  ASSUME TypeOK, OnlyCurrentLive, Spawn
  PROVE  Package!Spawn
<1>1. PICK s \in Slot :
         /\ task' = [task EXCEPT ![s] =
              Fresh("deploying", IF head \in Compose THEN "compose" ELSE "docker", stopped)]
         /\ current' = s
  BY DEF Spawn
<1>2. Up /\ Up' /\ current' # None
  BY <1>1, PollerAssumption DEF Spawn, Up
<1>3. Watched => ~ Live(current)
  BY DEF Spawn, OnlyCurrentLive, Watched, TypeOK
<1>4. ~ Package!Live
  BY <1>3 DEF Package!Live, Live
<1>5. task'[current'].state = "deploying" /\ task'[current'].cancelled = stopped
      /\ task'[current'].err = FALSE /\ stopped \in BOOLEAN
  BY <1>1 DEF TypeOK, Fresh
<1> QED
  BY <1>2, <1>4, <1>5 DEF Package!Spawn, Watched

\* A package that moves is the one the poller has.
LEMMA TaskMoves ==
  ASSUME TypeOK, OnlyCurrentLive, NEW s \in Slot, TaskStep(s)
  PROVE  Package!Step \/ UNCHANGED Package!vars
<1>1. s = current /\ current # None /\ Watched /\ Watched' /\ UNCHANGED current /\ (Up' <=> Up)
  BY TaskStepEffect, PollerAssumption DEF OnlyCurrentLive, TaskStep, Watched, Up
<1>2. task[s] \in Task /\ task \in [Slot -> Task]
  BY DEF TypeOK
<1>3. CASE Load(s) \/ Build(s)
  <2>1. /\ task'[s].state = task[s].state
        /\ task'[s].cancelled = task[s].cancelled /\ task'[s].err = task[s].err
    BY <1>2, <1>3 DEF Load, Build, Task
  <2> QED
    BY <1>1, <2>1, SameTask
<1>4. CASE Ready(s)
  <2>1. /\ task[s].state = "deploying" /\ task'[s].state = "ready"
        /\ task'[s].cancelled = task[s].cancelled /\ task'[s].err = task[s].err
    BY <1>2, <1>4 DEF Ready, Task
  <2> QED
    BY <1>1, <2>1 DEF Package!Step, Package!Ready
<1>5. CASE DeployFails(s)
  <2>1. /\ task[s].state = "deploying" /\ task'[s].state = "done"
        /\ task'[s].cancelled = task[s].cancelled /\ task'[s].err = TRUE
    BY <1>2, <1>5 DEF DeployFails, Task
  <2> QED
    BY <1>1, <2>1 DEF Package!Step, Package!DeployFails
<1>6. CASE TornDown(s)
  <2>1. /\ task[s].state = "ready" /\ task[s].cancelled /\ task'[s].state = "done"
        /\ task'[s].cancelled = task[s].cancelled /\ task'[s].err = task[s].err
    BY <1>2, <1>6 DEF TornDown, Task
  <2> QED
    BY <1>1, <2>1 DEF Package!Step, Package!TornDown
<1> QED
  BY <1>3, <1>4, <1>5, <1>6 DEF TaskStep

\* The poller forgets a package that has ended, and has one that has ended or
\* none when it returns.
LEMMA LetGoIsDrop ==
  ASSUME TypeOK, OnPackageStopped \/ Exit
  PROVE  Package!Drop \/ UNCHANGED Package!vars
<1>1. Up /\ ~ Watched'
  BY DEF OnPackageStopped, Exit, Up, Watched
<1>2. Watched => task[current].state = "done"
  BY DEF OnPackageStopped, Exit, Done, Watched
<1>3. CASE Watched
  BY <1>1, <1>2, <1>3 DEF Package!Drop
<1>4. CASE ~ Watched
  BY <1>1, <1>4 DEF Package!vars
<1> QED
  BY <1>3, <1>4

LEMMA StepUsesTask ==
  ASSUME IInv, Next
  PROVE  Package!Step \/ (pc' = "crashed" /\ Package!Crash) \/ UNCHANGED Package!vars
<1> USE DEF IInv
<1>1. CASE \/ BeginPoll \/ Clone \/ Fetch \/ PrevHash \/ Reset \/ NothingToDo \/ Redeploy
           \/ JoinOld \/ UnknownPackage \/ PollFails \/ CommandKilled \/ OnTick \/ Push \/ Tick
  <2>1. UNCHANGED <<current, task>>
    BY <1>1 DEF BeginPoll, Clone, Fetch, PrevHash, Reset, NothingToDo, Redeploy, JoinOld,
       UnknownPackage, PollFails, CommandKilled, OnTick, Push, Tick
  <2>2. Up' <=> Up
    BY <1>1 DEF BeginPoll, Clone, Fetch, PrevHash, Reset, NothingToDo, Redeploy, JoinOld,
       UnknownPackage, PollFails, CommandKilled, OnTick, Push, Tick, Up
  <2> QED
    BY <2>1, <2>2, SameTask
<1>2. CASE StopOld \/ OnContextDone \/ Interrupt
  BY <1>2, CancelIsCancel DEF Package!Step
<1>3. CASE Spawn
  BY <1>3, SpawnIsSpawn DEF Package!Step
<1>4. CASE OnPackageStopped \/ Exit
  BY <1>4, LetGoIsDrop DEF Package!Step
<1>5. ASSUME NEW s \in Slot, TaskStep(s)
      PROVE  Package!Step \/ UNCHANGED Package!vars
  BY <1>5, TaskMoves
<1>6. CASE Crash
  BY <1>6 DEF Crash, Package!Crash, Watched, Up
<1>7. CASE Start
  BY <1>7 DEF Start, Package!vars, Watched, Up
<1> QED
  BY <1>1, <1>2, <1>3, <1>4, <1>5, <1>6, <1>7 DEF Next, PollStep, RunStep, Environment

\* The poller keeps to what dckr.Run and compose.Run rely on, of which it is
\* proved that they are such tasks: it spawns beside no live package, lets go
\* of none and takes back no cancellation.
THEOREM PackagesAreTasks == Spec => UsesTask
<1>1. Init => Package!Init
  BY DEF Init, Package!Init, Watched
<1>2. IInv /\ [Next]_vars =>
        [Package!Step \/ (pc' = "crashed" /\ Package!Crash)]_(Package!vars)
  <2>1. UNCHANGED vars => UNCHANGED Package!vars
    BY DEF vars, Package!vars, Watched, Up
  <2> QED
    BY <2>1, StepUsesTask
<1> QED
  BY <1>1, <1>2, Invariance, PTL DEF Spec, UsesTask

\* So the pipeline implements the task that DockerPackage and ComposePackage
\* implement from the other side.
THEOREM PollerImplementsTask == Spec => Package!Spec
<1>1. [Package!Step \/ (pc' = "crashed" /\ Package!Crash)]_(Package!vars) =>
        [Package!Next]_(Package!vars)
  BY DEF Package!Next
<1> QED
  BY <1>1, PackagesAreTasks, PTL DEF UsesTask, Package!Spec
=============================================================================
