---------------------------- MODULE PackageTask ----------------------------
(***************************************************************************)
(* What the poller of a pipeline relies on when it spawns a package        *)
(* (internal.Task, packs.Run): the goroutine deploys and then either fails *)
(* or gets ready; a package that is ready goes on until its context is     *)
(* cancelled and then ends without an error.  The next one is spawned when *)
(* the goroutine of the last one has finished, and a task is dropped only  *)
(* then.  The process may die.                                             *)
(***************************************************************************)
VARIABLES state,     \* none, deploying, ready or done
          cancelled, \* the context of the task is done
          err        \* the task has ended with an error

vars == <<state, cancelled, err>>

Init == state = "none" /\ cancelled = FALSE /\ err = FALSE

Live == state \in {"deploying", "ready"}

Spawn ==
    /\ ~Live
    /\ state' = "deploying" /\ cancelled' \in BOOLEAN /\ err' = FALSE

\* A task that has finished may be stopped once more.
Cancel ==
    /\ state # "none"
    /\ cancelled' = TRUE
    /\ UNCHANGED <<state, err>>

Ready ==
    /\ state = "deploying"
    /\ state' = "ready"
    /\ UNCHANGED <<cancelled, err>>

DeployFails ==
    /\ state = "deploying"
    /\ state' = "done" /\ err' = TRUE
    /\ UNCHANGED cancelled

TornDown ==
    /\ state = "ready" /\ cancelled
    /\ state' = "done"
    /\ UNCHANGED <<cancelled, err>>

Drop ==
    /\ state = "done"
    /\ state' = "none" /\ cancelled' = FALSE /\ err' = FALSE

Crash == state' = "none" /\ cancelled' = FALSE /\ err' = FALSE

Step == Spawn \/ Cancel \/ Ready \/ DeployFails \/ TornDown \/ Drop

Next == Step \/ Crash

Spec == Init /\ [][Next]_vars
=============================================================================
