------------------------------- MODULE Poller -------------------------------
(***************************************************************************)
(* One pipeline: the poller of pipe/simple.go, the git source of           *)
(* remote/git/git.go it polls, and the background tasks of                 *)
(* internal/routing.go that it spawns packages in.  A package is seen from *)
(* here as a task: it loads its configuration and builds its image from    *)
(* the working tree, gets ready or fails, and ends once it is cancelled    *)
(* (packs/dckr, packs/compose).                                            *)
(*                                                                         *)
(* The process may be interrupted (the context is cancelled and running    *)
(* git commands are killed), may crash, and is started again over the same *)
(* directory.  The git commands are external: they are modelled by what    *)
(* they do to the repository, and each may fail at any time.               *)
(***************************************************************************)
EXTENDS Naturals

CONSTANTS Commit,     \* commits the branch may point to
          Compose,    \* those with a compose file
          Dockerfile, \* those with a Dockerfile
          Value,      \* values of one environment variable
          EnvFile,    \* what .env of each commit gives it
          CoreValue,  \* what git-pipe was started with for it
          Slot,       \* room for tasks
          None,       \* no commit, no task, no value
          MaxPushes,  \* bound on pushes to the branch
          MaxStarts   \* bound on starts of the process

ASSUME PollerAssumption == /\ Compose \subseteq Commit /\ Dockerfile \subseteq Commit
                           /\ EnvFile \in [Commit -> Value \cup {None}]
                           /\ CoreValue \in Value \cup {None}
                           /\ None \notin Commit /\ None \notin Slot
                           /\ MaxPushes \in Nat /\ MaxStarts \in Nat

VARIABLES
    origin,   \* the commit of the branch in the remote repository
    pushes,   \* how often it has moved
    dir,      \* the clone: absent, cloned, or what a killed git leaves behind
    tracked,  \* origin/<branch> in the clone
    head,     \* HEAD and the working tree
    pc,       \* where the goroutine of the poller is
    fresh,    \* Git.Poll: the directory had no clone
    prev,     \* Git.Poll: prevHash
    force,    \* poller.run: the next poll deploys even if nothing changed
    tick,     \* updater.C has a tick (its buffer holds one)
    stopped,  \* ctx is done
    current,  \* poller.current
    env,      \* poller.env.Vars, the variable's value in it
    task,     \* the tasks: goroutine, context, error, what they run
    starts    \* how often the process has been started

remote == <<origin, pushes>>
clone == <<dir, tracked, head>>
locals == <<fresh, prev>>
loop == <<force, tick, stopped>>
vars == <<remote, clone, locals, loop, pc, current, env, task, starts>>

Places == {"poll", "clone", "fetch", "prevHash", "reset", "newHash", "stopOld",
           "joinOld", "detect", "select", "join", "exited", "crashed"}

\* config is the commit whose compose file and .env were read, image the one
\* whose tree was built, value what the containers see of the variable.
Task == [state : {"unused", "deploying", "ready", "done"},
         kind : {"compose", "docker"},
         cancelled : BOOLEAN, err : BOOLEAN,
         config : Commit \cup {None}, image : Commit \cup {None},
         value : Value \cup {None}]

\* A goroutine of that kind that has just been spawned, or none.
Fresh(state, kind, cancelled) ==
    [state |-> state, kind |-> kind, cancelled |-> cancelled, err |-> FALSE,
     config |-> None, image |-> None, value |-> None]

Unused == Fresh("unused", "docker", FALSE)

\* The goroutine of the task has not finished.
Live(s) == task[s].state \in {"deploying", "ready"}

\* current.Wait() is closed; a nil task never is.
Done(s) == s # None /\ task[s].state = "done"

Init ==
    /\ origin \in Commit
    /\ pushes = 0
    /\ dir = "absent" /\ tracked = None /\ head = None
    /\ fresh = FALSE /\ prev = None
    /\ force = TRUE /\ tick = FALSE /\ stopped = FALSE
    /\ pc = "poll"
    /\ current = None
    /\ env = CoreValue
    /\ task = [s \in Slot |-> Unused]
    /\ starts = 1

-----------------------------------------------------------------------------
(* poller.poll and Git.Poll, one step per command.                         *)

\* os.MkdirAll, and fresh = !cloned(targetDir): any .git directory counts.
BeginPoll ==
    /\ pc = "poll"
    /\ fresh' = (dir = "absent")
    /\ pc' = IF dir = "absent" THEN "clone" ELSE "fetch"
    /\ UNCHANGED <<remote, clone, prev, loop, current, env, task, starts>>

\* git clone --depth 1 -b branch.
Clone ==
    /\ pc = "clone"
    /\ dir' = "cloned" /\ tracked' = origin /\ head' = origin
    /\ pc' = "prevHash"
    /\ UNCHANGED <<remote, locals, loop, current, env, task, starts>>

\* git fetch origin branch: only the remote-tracking branch moves.
Fetch ==
    /\ pc = "fetch"
    /\ tracked' = origin
    /\ pc' = "prevHash"
    /\ UNCHANGED <<remote, dir, head, locals, loop, current, env, task, starts>>

\* git rev-parse HEAD: there is no HEAD in a clone that was killed.
PrevHash ==
    /\ pc = "prevHash"
    /\ dir # "partial"
    /\ prev' = head
    /\ pc' = "reset"
    /\ UNCHANGED <<remote, clone, fresh, loop, current, env, task, starts>>

\* git reset --hard origin/branch: refused while index.lock is there.
Reset ==
    /\ pc = "reset"
    /\ dir # "locked"
    /\ head' = tracked
    /\ pc' = "newHash"
    /\ UNCHANGED <<remote, dir, tracked, locals, loop, current, env, task, starts>>

\* changed = fresh || prevHash != newHash
Changed == fresh \/ prev # head

\* !changed && !force: the package stays; run clears force.
NothingToDo ==
    /\ pc = "newHash"
    /\ ~Changed /\ ~force
    /\ pc' = "select"
    /\ force' = FALSE
    /\ UNCHANGED <<remote, clone, locals, tick, stopped, current, env, task, starts>>

Redeploy ==
    /\ pc = "newHash"
    /\ Changed \/ force
    /\ pc' = "stopOld"
    /\ UNCHANGED <<remote, clone, locals, loop, current, env, task, starts>>

\* Mutant: the poller lets go of the package when it cancels it.
StopOldForgets ==
    /\ pc = "stopOld"
    /\ task' = [s \in Slot |->
                  IF s = current THEN [task[s] EXCEPT !.cancelled = TRUE] ELSE task[s]]
    /\ current' = None
    /\ pc' = "joinOld"
    /\ UNCHANGED <<remote, clone, locals, loop, env, starts>>

\* Task.Stop, first half: cancel the context of the package.
StopOld ==
    /\ pc = "stopOld"
    /\ task' = [s \in Slot |->
                  IF s = current THEN [task[s] EXCEPT !.cancelled = TRUE] ELSE task[s]]
    /\ pc' = "joinOld"
    /\ UNCHANGED <<remote, clone, locals, loop, current, env, starts>>

\* Mutant: Stop does not wait for the goroutine.
JoinOldAtOnce ==
    /\ pc = "joinOld"
    /\ pc' = "detect"
    /\ UNCHANGED <<remote, clone, locals, loop, current, env, task, starts>>

\* Task.Stop, second half: wait till the goroutine has finished.  Its error
\* fails the poll.
JoinOld ==
    /\ pc = "joinOld"
    /\ current = None \/ Done(current)
    /\ IF current # None /\ task[current].err
       THEN pc' = "select" /\ force' = TRUE
       ELSE pc' = "detect" /\ UNCHANGED force
    /\ UNCHANGED <<remote, clone, locals, tick, stopped, current, env, task, starts>>

Packaged == Compose \cup Dockerfile

\* A compose file, or else a Dockerfile: internal.Spawn under ctx.
Spawn ==
    /\ pc = "detect"
    /\ head \in Packaged
    /\ \E s \in Slot :
         /\ ~Live(s)
         /\ task' = [task EXCEPT ![s] =
                       Fresh("deploying", IF head \in Compose THEN "compose" ELSE "docker", stopped)]
         /\ current' = s
    /\ pc' = "select"
    /\ force' = FALSE
    /\ UNCHANGED <<remote, clone, locals, tick, stopped, env, starts>>

\* errUnknownPackage: poller.current keeps the stopped task.
UnknownPackage ==
    /\ pc = "detect"
    /\ head \notin Packaged
    /\ pc' = "select"
    /\ force' = TRUE
    /\ UNCHANGED <<remote, clone, locals, tick, stopped, current, env, task, starts>>

\* Mutant: a failed poll does not ask for a deployment.
PollFailsQuietly ==
    /\ pc \in {"poll", "clone", "fetch", "prevHash", "reset", "newHash"}
    /\ pc' = "select"
    /\ UNCHANGED <<remote, clone, locals, loop, current, env, task, starts>>

\* A command fails and leaves the clone as it was, or MkdirAll does.
PollFails ==
    /\ pc \in {"poll", "clone", "fetch", "prevHash", "reset", "newHash"}
    /\ pc' = "select"
    /\ force' = TRUE
    /\ UNCHANGED <<remote, clone, locals, tick, stopped, current, env, task, starts>>

\* The context is cancelled under a running command: exec.CommandContext
\* kills it.  A killed clone leaves .git without HEAD, a killed reset leaves
\* index.lock.
CommandKilled ==
    /\ stopped
    /\ \/ pc = "clone" /\ dir' = "partial"
       \/ pc = "reset" /\ dir' = "locked"
    /\ pc' = "select"
    /\ force' = TRUE
    /\ UNCHANGED <<remote, tracked, head, locals, tick, stopped, current, env, task, starts>>

-----------------------------------------------------------------------------
(* poller.run: the select between two polls.                               *)

OnTick ==
    /\ pc = "select"
    /\ tick
    /\ tick' = FALSE
    /\ pc' = "poll"
    /\ UNCHANGED <<remote, clone, locals, force, stopped, current, env, task, starts>>

\* Mutant: the package that has ended is not deployed again.
OnPackageStoppedQuietly ==
    /\ pc = "select"
    /\ Done(current)
    /\ current' = None
    /\ UNCHANGED <<remote, clone, locals, loop, pc, env, task, starts>>

\* The package has ended by itself.
OnPackageStopped ==
    /\ pc = "select"
    /\ Done(current)
    /\ current' = None
    /\ force' = TRUE
    /\ UNCHANGED <<remote, clone, locals, tick, stopped, pc, env, task, starts>>

\* ctx.Done(): leave the loop and Stop the package.
OnContextDone ==
    /\ pc = "select"
    /\ stopped
    /\ task' = [s \in Slot |->
                  IF s = current THEN [task[s] EXCEPT !.cancelled = TRUE] ELSE task[s]]
    /\ pc' = "join"
    /\ UNCHANGED <<remote, clone, locals, loop, current, env, starts>>

\* Mutants: Stop does not wait for the goroutine; Stop waits for a task that
\* is nil, which has no channel to close.
ExitAtOnce ==
    /\ pc = "join"
    /\ pc' = "exited"
    /\ UNCHANGED <<remote, clone, locals, loop, current, env, task, starts>>

ExitOfNil ==
    /\ pc = "join"
    /\ Done(current)
    /\ pc' = "exited"
    /\ UNCHANGED <<remote, clone, locals, loop, current, env, task, starts>>

\* The end of Stop, and of pipe.Run.
Exit ==
    /\ pc = "join"
    /\ current = None \/ Done(current)
    /\ pc' = "exited"
    /\ UNCHANGED <<remote, clone, locals, loop, current, env, task, starts>>

-----------------------------------------------------------------------------
(* The goroutine of a package (dckr.Run, compose.Run), and of Spawn.       *)

\* compose.Run reads .env and the compose file of the tree as it is now and
\* merges the variables of the environment over .env, into the environment.
Load(s) ==
    /\ task[s].state = "deploying" /\ task[s].kind = "compose"
    /\ task[s].config = None
    /\ head \in Compose
    /\ env' = IF env # None THEN env ELSE EnvFile[head]
    /\ task' = [task EXCEPT ![s].config = head, ![s].value = env']
    /\ UNCHANGED <<remote, clone, locals, loop, pc, current, starts>>

\* The image is built from the tree as it is now; dckr.Run hands the
\* environment to the container.
Build(s) ==
    /\ task[s].state = "deploying" /\ task[s].image = None
    /\ \/ /\ task[s].kind = "compose" /\ task[s].config # None
          /\ task' = [task EXCEPT ![s].image = head]
       \/ /\ task[s].kind = "docker" /\ head \in Dockerfile
          /\ task' = [task EXCEPT ![s].image = head, ![s].value = env]
    /\ UNCHANGED <<remote, clone, locals, loop, pc, current, env, starts>>

\* Everything is up: the package now waits for its context.
Ready(s) ==
    /\ task[s].state = "deploying" /\ task[s].image # None
    /\ task' = [task EXCEPT ![s].state = "ready"]
    /\ UNCHANGED <<remote, clone, locals, loop, pc, current, env, starts>>

\* A deployment step fails, of itself or because of the cancelled context.
DeployFails(s) ==
    /\ task[s].state = "deploying"
    /\ task' = [task EXCEPT ![s].state = "done", ![s].err = TRUE]
    /\ UNCHANGED <<remote, clone, locals, loop, pc, current, env, starts>>

\* <-ctx.Done() of a package that is up: it is torn down and returns nil.
TornDown(s) ==
    /\ task[s].state = "ready" /\ task[s].cancelled
    /\ task' = [task EXCEPT ![s].state = "done"]
    /\ UNCHANGED <<remote, clone, locals, loop, pc, current, env, starts>>

-----------------------------------------------------------------------------
(* The environment.                                                        *)

\* Somebody pushes, or force-pushes, the branch.
Push ==
    /\ pushes < MaxPushes
    /\ pushes' = pushes + 1
    /\ origin' \in Commit \ {origin}
    /\ UNCHANGED <<clone, locals, loop, pc, current, env, task, starts>>

Up == pc \notin {"exited", "crashed"}

\* time.Ticker: a tick is dropped when one is waiting.
Tick ==
    /\ Up /\ ~tick
    /\ tick' = TRUE
    /\ UNCHANGED <<remote, clone, locals, force, stopped, pc, current, env, task, starts>>

\* Ctrl+C, or another goroutine of the process has ended: ctx and every
\* context derived from it are cancelled.
Interrupt ==
    /\ Up /\ ~stopped
    /\ starts < MaxStarts
    /\ stopped' = TRUE
    /\ task' = [s \in Slot |-> IF Live(s) THEN [task[s] EXCEPT !.cancelled = TRUE]
                               ELSE task[s]]
    /\ UNCHANGED <<remote, clone, locals, force, tick, pc, current, env, starts>>

\* SIGTERM or SIGKILL: no handler runs.  The kernel sends SIGTERM to a git
\* that is running, which removes what it has cloned so far.
Crash ==
    /\ Up
    /\ starts < MaxStarts
    /\ pc' = "crashed"
    /\ UNCHANGED <<remote, clone, locals, loop, current, env, task, starts>>

\* The process starts again over the directory it left.
Start ==
    /\ ~Up
    /\ starts < MaxStarts
    /\ starts' = starts + 1
    /\ fresh' = FALSE /\ prev' = None
    /\ force' = TRUE /\ tick' = FALSE /\ stopped' = FALSE
    /\ pc' = "poll"
    /\ current' = None
    /\ env' = CoreValue
    /\ task' = [s \in Slot |-> Unused]
    /\ UNCHANGED <<remote, clone>>

-----------------------------------------------------------------------------
PollStep == \/ BeginPoll \/ Clone \/ Fetch \/ PrevHash \/ Reset \/ NothingToDo
            \/ Redeploy \/ StopOld \/ JoinOld \/ Spawn \/ UnknownPackage
RunStep == OnTick \/ OnPackageStopped \/ OnContextDone \/ Exit
TaskStep(s) == Up /\ (Load(s) \/ Build(s) \/ Ready(s) \/ DeployFails(s) \/ TornDown(s))
Environment == Push \/ Tick \/ Interrupt \/ Crash \/ Start

Next == \/ PollStep \/ PollFails \/ CommandKilled \/ RunStep
        \/ \E s \in Slot : TaskStep(s)
        \/ Environment

Spec == Init /\ [][Next]_vars

\* The goroutines are scheduled; the ticker ticks; a select with several
\* ready cases picks at random, so it picks each of them at some time; docker
\* answers, and a command or a deployment that is retried for ever succeeds
\* at some time.  Nobody needs to push, interrupt, crash or start anything.
Fairness ==
    /\ WF_vars(PollStep \/ PollFails)
    /\ SF_vars(BeginPoll) /\ SF_vars(Clone \/ Fetch) /\ SF_vars(PrevHash)
    /\ SF_vars(Reset) /\ SF_vars(NothingToDo \/ Redeploy)
    /\ WF_vars(Tick) /\ WF_vars(OnTick) /\ WF_vars(Exit)
    /\ SF_vars(OnContextDone) /\ SF_vars(OnPackageStopped)
    /\ \A s \in Slot : /\ WF_vars(TaskStep(s))
                       /\ SF_vars(Up /\ Load(s)) /\ SF_vars(Up /\ Build(s))
                       /\ SF_vars(Up /\ Ready(s))

FairSpec == Spec /\ Fairness

-----------------------------------------------------------------------------
TypeOK ==
    /\ origin \in Commit /\ pushes \in 0..MaxPushes
    /\ dir \in {"absent", "partial", "locked", "cloned"}
    /\ tracked \in Commit \cup {None} /\ head \in Commit \cup {None}
    /\ fresh \in BOOLEAN /\ prev \in Commit \cup {None}
    /\ force \in BOOLEAN /\ tick \in BOOLEAN /\ stopped \in BOOLEAN
    /\ pc \in Places
    /\ current \in Slot \cup {None}
    /\ env \in Value \cup {None}
    /\ task \in [Slot -> Task]
    /\ starts \in Nat

\* The old package has finished before the next one is spawned: at no time
\* are two packages of one pipeline alive, which would fight for the volume,
\* the containers' label and the domains.
SinglePackage == \A s, t \in Slot : Live(s) /\ Live(t) => s = t

\* A new commit is never forgotten: when the poller goes to sleep without
\* having noted that it must deploy, the package it has spawned was loaded and
\* built, or will be, from the commit in the working tree, even if an earlier
\* poll moved the tree and failed before it compared the hashes.
NoLostUpdate ==
    pc = "select" /\ ~force =>
        /\ current # None
        /\ task[current].config \in {None, head}
        /\ task[current].image \in {None, head}

\* pipe.Run returns only after its package has been torn down, so the
\* process does not leave while containers are being removed.
NoOrphan == pc = "exited" => \A s \in Slot : ~Live(s)

\* The task that the poller has, as the packages see it.
Watched == Up /\ current # None
Package == INSTANCE PackageTask
             WITH state <- IF Watched THEN task[current].state ELSE "none",
                  cancelled <- Watched /\ task[current].cancelled,
                  err <- Watched /\ task[current].err

\* The poller treats its package as dckr.Run and compose.Run rely on: whatever
\* it is doing when the process is interrupted, a poll fails or a package
\* ends, it neither spawns a package beside a live one nor lets go of it nor
\* takes back that it has cancelled it.  Only a process that dies does.
UsesTask ==
    Package!Init /\ [][Package!Step \/ (pc' = "crashed" /\ Package!Crash)]_(Package!vars)

\* SinglePackage and NoOrphan hold because only poller.current is alive, and
\* not even that where the next package is spawned and where Run has returned.
OnlyCurrentLive ==
    \A s \in Slot : Live(s) => s = current /\ pc \notin {"detect", "exited"}

\* The current package comes from one of these commits.
From(commits) ==
    /\ current # None
    /\ task[current].config \in commits \cup {None}
    /\ task[current].image \in commits \cup {None}

\* NoLostUpdate through the steps of a poll: as long as force is not set, a
\* package that falls behind the tree has prevHash or fresh to betray it.
UpdateNoted ==
    /\ pc = "clone" => fresh
    /\ pc = "reset" => prev = head
    /\ ~force =>
         /\ pc \in {"select", "poll", "clone", "fetch"} => From({head})
         /\ pc \in {"prevHash", "reset"} => fresh \/ From({head})
         /\ pc = "newHash" => fresh \/ From({prev, head})

\* The inductive invariant.
IInv == TypeOK /\ OnlyCurrentLive /\ UpdateNoted

\* What the branch points to is up.
Deployed == current # None /\ task[current].state = "ready" /\ task[current].image = origin

\* Whatever fails on the way, the pipeline comes to run the commit of the
\* branch, unless it is being shut down, the commit has no packaging, or a
\* command was killed halfway in the clone.
Converges ==
    []<>(~Up \/ stopped \/ origin \notin Packaged \/ dir \in {"partial", "locked"} \/ Deployed)

\* Cancelling the context ends the pipeline.
ShutdownEnds == stopped ~> ~Up

\* compose.go: "Merge environment, where env from core has higher priority":
\* a composition sees what git-pipe was started with and, for the rest, the
\* .env of the commit it was loaded from.
EnvironmentOfCommit ==
    \A s \in Slot : task[s].kind = "compose" /\ task[s].config # None =>
        task[s].value = IF CoreValue # None THEN CoreValue
                        ELSE EnvFile[task[s].config]
=============================================================================
