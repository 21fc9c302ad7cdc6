------------------------------ MODULE Network ------------------------------
(***************************************************************************)
(* The docker network that packages join and requests are resolved with    *)
(* (core/network/network.go).  Resolve answers from a cache of the last    *)
(* network inspection; Join and Leave invalidate it.  One goroutine per    *)
(* container is the package that joins it: dckr.Run joins a container it   *)
(* has created and then starts it, compose.Run joins what docker-compose   *)
(* up has started.  Requests resolve containers at any time.               *)
(*                                                                         *)
(* Docker is external: an address is given to a container when it starts   *)
(* in the network or is connected while it runs, and is free again when it *)
(* stops.  A container that fails may be restarted by docker, with any     *)
(* address.  One that dckr.Run removes never comes back; those of a        *)
(* composition are stopped and started again.                              *)
(***************************************************************************)
CONSTANTS Plain,      \* containers of dckr.Run
          Composed,   \* containers of compose.Run
          Request,    \* goroutines that serve requests
          IP,         \* addresses of the network
          None

Container == Plain \cup Composed

ASSUME NetworkAssumption == /\ None \notin IP /\ None \notin Request
                            /\ Plain \cap Composed = {}

VARIABLES
    at,        \* where the package of each container is
    linked,    \* docker: containers connected to the network
    ip,        \* docker: address of each running container in the network
    published, \* containers that the ingress has had a record of
    moved,     \* those whose address changed under the cache (history)
    valid,     \* cache.valid
    cached,    \* cache.network: container -> address
    writer,    \* cache.lock: the request that holds it exclusively, or None
    pc,        \* where each request is inside Resolve
    target,    \* the container it resolves, or None
    seen,      \* what its inspection of the network returned
    forgotten, \* requests whose container had left before they began (history)
    answer     \* what Resolve returned, None for ErrNotAssigned or an error

docker == <<linked, ip, moved>>
cache == <<valid, cached, writer>>
request == <<pc, target, seen, forgotten, answer>>
vars == <<at, published, docker, cache, request>>

Nowhere == [c \in Container |-> None]

Free == IP \ {ip[c] : c \in Container}

Init ==
    /\ at = [c \in Container |-> "absent"]
    /\ published = {}
    /\ linked = {} /\ ip = Nowhere /\ moved = {}
    /\ valid = FALSE /\ cached = Nowhere /\ writer = None
    /\ pc = [r \in Request |-> "idle"]
    /\ target = [r \in Request |-> None]
    /\ seen = [r \in Request |-> Nowhere]
    /\ forgotten = {}
    /\ answer = [r \in Request |-> None]

-----------------------------------------------------------------------------
(* The packages.                                                           *)

\* createContainer of dckr.Run.
Create(c) ==
    /\ c \in Plain /\ at[c] = "absent"
    /\ at' = [at EXCEPT ![c] = "joining"]
    /\ UNCHANGED <<published, docker, cache, request>>

\* docker-compose up: the container starts, in the networks it is linked to.
Up(c) ==
    /\ c \in Composed /\ at[c] \in {"absent", "stopped", "left"}
    /\ at' = [at EXCEPT ![c] = "joining"]
    /\ \/ c \notin linked /\ UNCHANGED ip
       \/ c \in linked /\ \E a \in Free : ip' = [ip EXCEPT ![c] = a]
    /\ forgotten' = {r \in forgotten : target[r] # c}
    /\ UNCHANGED <<published, linked, moved, cache, pc, target, seen, answer>>

\* Join, the container already has an alias in the network: nothing to do.
JoinLinked(c) ==
    /\ at[c] = "joining"
    /\ c \in linked
    /\ at' = [at EXCEPT ![c] = "rejoined"]
    /\ UNCHANGED <<published, docker, cache, request>>

\* Join, NetworkConnect: a container is given an address at once if it runs,
\* which one of dckr.Run does not yet, and one of a composition may no more.
Connect(c) ==
    /\ at[c] = "joining"
    /\ c \notin linked
    /\ linked' = linked \cup {c}
    /\ \/ UNCHANGED ip
       \/ c \in Composed /\ \E a \in Free : ip' = [ip EXCEPT ![c] = a]
    /\ at' = [at EXCEPT ![c] = "connected"]
    /\ UNCHANGED <<published, moved, cache, request>>

\* Mutants: the cache is invalidated without the lock; only Join invalidates
\* it.
InvalidateUnlocked(c) ==
    /\ at[c] \in {"connected", "disconnected"}
    /\ valid' = FALSE
    /\ moved' = {}
    /\ at' = [at EXCEPT ![c] = IF at[c] = "connected" THEN "joined" ELSE "left"]
    /\ UNCHANGED <<published, linked, ip, cached, writer, request>>

InvalidateJoin(c) ==
    /\ at[c] \in {"connected", "disconnected"}
    /\ writer = None
    /\ valid' = IF at[c] = "connected" THEN FALSE ELSE valid
    /\ moved' = IF valid' THEN moved ELSE {}
    /\ at' = [at EXCEPT ![c] = IF at[c] = "connected" THEN "joined" ELSE "left"]
    /\ UNCHANGED <<published, linked, ip, cached, writer, request>>

\* invalidateNetwork: waits for the lock.
Invalidate(c) ==
    /\ at[c] \in {"connected", "disconnected"}
    /\ writer = None
    /\ valid' = FALSE
    /\ moved' = {}
    /\ at' = [at EXCEPT ![c] = IF at[c] = "connected" THEN "joined" ELSE "left"]
    /\ UNCHANGED <<published, linked, ip, cached, writer, request>>

\* startContainer of dckr.Run, after Join.
Start(c) ==
    /\ c \in Plain /\ at[c] = "joined"
    /\ \E a \in Free : ip' = [ip EXCEPT ![c] = a]
    /\ at' = [at EXCEPT ![c] = "started"]
    /\ UNCHANGED <<published, linked, moved, cache, request>>

\* Its package has come to where it publishes, and has not left that yet.
Serves(c) == at[c] = "started" \/ (c \in Composed /\ at[c] \in {"joined", "rejoined"})

\* The container has been started in the network by its package.
Placed(c) ==
    Serves(c) \/ (c \in Composed /\ c \in linked /\ at[c] \in {"joining", "connected"})

\* Ingress.Set: from here on requests may hold a record that leads to c, also
\* when it is withdrawn.
Announce(c) ==
    /\ Serves(c)
    /\ published' = published \cup {c}
    /\ UNCHANGED <<at, docker, cache, request>>

\* A container fails, which frees its address, and docker restarts it (the
\* policy is on-failure in dckr.Run, the file's own in a composition) with any
\* address by then.  Neither is a step of the package, nor seen by the cache.
Exits(c) ==
    /\ Placed(c) /\ ip[c] # None
    /\ ip' = [ip EXCEPT ![c] = None]
    /\ moved' = moved \cup {c}
    /\ UNCHANGED <<at, published, linked, cache, request>>

Restart(c) ==
    /\ Placed(c) /\ ip[c] = None
    /\ \E a \in Free : ip' = [ip EXCEPT ![c] = a]
    /\ moved' = moved \cup {c}
    /\ UNCHANGED <<at, published, linked, cache, request>>

\* NetworkDisconnect of Leave.  The deferred Leave of dckr.Run follows the
\* stop of the container and has a context of its own; that of compose.Run
\* has the context of the package, so it runs only if the package failed.
Disconnect(c) ==
    /\ at[c] \in {"started", "joined", "rejoined"}
    /\ linked' = linked \ {c}
    /\ ip' = [ip EXCEPT ![c] = None]
    /\ at' = [at EXCEPT ![c] = "disconnected"]
    /\ UNCHANGED <<published, moved, cache, request>>

\* Join or Leave fails, or Leave has a cancelled context: dckr.Run removes
\* the container, docker-compose stops it and leaves it linked.
EndLinked(c) ==
    /\ at[c] \in {"joining", "started", "joined", "rejoined"}
    /\ ip' = [ip EXCEPT ![c] = None]
    /\ linked' = IF c \in Plain THEN linked \ {c} ELSE linked
    /\ at' = [at EXCEPT ![c] = IF c \in Plain THEN "removed" ELSE "stopped"]
    /\ moved' = moved \cup {c}
    /\ UNCHANGED <<published, cache, request>>

PackageStep(c) ==
    \/ Create(c) \/ Up(c) \/ JoinLinked(c) \/ Connect(c) \/ Invalidate(c)
    \/ Start(c) \/ Announce(c) \/ Exits(c) \/ Restart(c) \/ Disconnect(c) \/ EndLinked(c)

-----------------------------------------------------------------------------
(* Resolve and getNetwork.                                                 *)

\* A request for a service of some container arrives: it has looked the record
\* up in the ingress, now or before the package withdrew.
Begin(r) ==
    /\ pc[r] = "idle"
    /\ \E c \in published :
         /\ target' = [target EXCEPT ![r] = c]
         /\ forgotten' = forgotten \cup {q \in {r} : at[c] = "left"}
    /\ pc' = [pc EXCEPT ![r] = "check"]
    /\ UNCHANGED <<at, published, docker, cache, seen, answer>>

\* RLock, look at cache.valid, RUnlock.
Check(r) ==
    /\ pc[r] = "check"
    /\ writer = None
    /\ pc' = [pc EXCEPT ![r] = IF valid THEN "hit" ELSE "miss"]
    /\ UNCHANGED <<at, published, docker, cache, target, seen, forgotten, answer>>

\* The cached network is read after RUnlock, as it is by then.
Hit(r) ==
    /\ pc[r] = "hit"
    /\ answer' = [answer EXCEPT ![r] = cached[target[r]]]
    /\ pc' = [pc EXCEPT ![r] = "done"]
    /\ UNCHANGED <<at, published, docker, cache, target, seen, forgotten>>

\* Lock.
LockCache(r) ==
    /\ pc[r] = "miss"
    /\ writer = None
    /\ writer' = r
    /\ pc' = [pc EXCEPT ![r] = "locked"]
    /\ UNCHANGED <<at, published, docker, valid, cached, target, seen, forgotten, answer>>

\* Mutant: the path that finds the cache filled returns without Unlock.
LateHitLocked(r) ==
    /\ pc[r] = "locked"
    /\ valid
    /\ answer' = [answer EXCEPT ![r] = cached[target[r]]]
    /\ pc' = [pc EXCEPT ![r] = "done"]
    /\ UNCHANGED <<at, published, docker, cache, target, seen, forgotten>>

\* Somebody has filled the cache meanwhile.
LateHit(r) ==
    /\ pc[r] = "locked"
    /\ valid
    /\ answer' = [answer EXCEPT ![r] = cached[target[r]]]
    /\ writer' = None
    /\ pc' = [pc EXCEPT ![r] = "done"]
    /\ UNCHANGED <<at, published, docker, valid, cached, target, seen, forgotten>>

\* NetworkInspect: docker lists the running containers.
Inspect(r) ==
    /\ pc[r] = "locked"
    /\ ~valid
    /\ seen' = [seen EXCEPT ![r] = ip]
    /\ pc' = [pc EXCEPT ![r] = "inspected"]
    /\ UNCHANGED <<at, published, docker, cache, target, forgotten, answer>>

\* Mutant: the answer is the name of the container and not its address.
FillAlias(r) ==
    /\ pc[r] = "inspected"
    /\ valid' = TRUE
    /\ cached' = seen[r]
    /\ answer' = [answer EXCEPT ![r] = target[r]]
    /\ writer' = None
    /\ pc' = [pc EXCEPT ![r] = "done"]
    /\ seen' = [seen EXCEPT ![r] = Nowhere]
    /\ UNCHANGED <<at, published, docker, target, forgotten>>

\* The inspection is kept, then the deferred Unlock.
Fill(r) ==
    /\ pc[r] = "inspected"
    /\ valid' = TRUE
    /\ cached' = seen[r]
    /\ answer' = [answer EXCEPT ![r] = seen[r][target[r]]]
    /\ writer' = None
    /\ pc' = [pc EXCEPT ![r] = "done"]
    /\ seen' = [seen EXCEPT ![r] = Nowhere]
    /\ UNCHANGED <<at, published, docker, target, forgotten>>

\* NetworkInspect fails: the cache stays invalid.
InspectFails(r) ==
    /\ pc[r] = "locked"
    /\ ~valid
    /\ answer' = [answer EXCEPT ![r] = None]
    /\ writer' = None
    /\ pc' = [pc EXCEPT ![r] = "done"]
    /\ UNCHANGED <<at, published, docker, valid, cached, target, seen, forgotten>>

\* The request is over.
Finish(r) ==
    /\ pc[r] = "done"
    /\ pc' = [pc EXCEPT ![r] = "idle"]
    /\ answer' = [answer EXCEPT ![r] = None]
    /\ target' = [target EXCEPT ![r] = None]
    /\ forgotten' = forgotten \ {r}
    /\ UNCHANGED <<at, published, docker, cache, seen>>

ResolveStep(r) == \/ Check(r) \/ Hit(r) \/ LateHit(r) \/ Inspect(r)
                  \/ Fill(r) \/ InspectFails(r) \/ Finish(r)

Next == \/ \E c \in Container : PackageStep(c)
        \/ \E r \in Request : Begin(r) \/ LockCache(r) \/ ResolveStep(r)

Spec == Init /\ [][Next]_vars

\* Goroutines run and docker answers; the mutex starves nobody.  Requests
\* need not arrive, and packages need not come or go, but one that has
\* changed the network goes on to invalidate the cache.
Fairness == /\ \A r \in Request : WF_vars(ResolveStep(r)) /\ SF_vars(LockCache(r) \/ Check(r))
            /\ \A c \in Container : SF_vars(Invalidate(c))

FairSpec == Spec /\ Fairness

-----------------------------------------------------------------------------
Table == [Container -> IP \cup {None}]

TypeOK ==
    /\ at \in [Container -> {"absent", "joining", "connected", "joined", "rejoined", "started",
                             "disconnected", "left", "stopped", "removed"}]
    /\ published \subseteq Container /\ linked \subseteq Container /\ moved \subseteq Container
    /\ ip \in Table
    /\ valid \in BOOLEAN /\ cached \in Table /\ writer \in Request \cup {None}
    /\ pc \in [Request -> {"idle", "check", "hit", "miss", "locked", "inspected", "done"}]
    /\ target \in [Request -> Container \cup {None}]
    /\ \A r \in Request : pc[r] # "idle" => target[r] \in Container
    /\ seen \in [Request -> Table]
    /\ forgotten \subseteq Request /\ \A r \in forgotten : pc[r] # "idle"
    /\ answer \in [Request -> IP \cup {None}]

\* Once Leave has returned, no request that begins after it is sent to the
\* address the container had, which may belong to another container by then,
\* even if the request takes the path that reads the cache without the lock.
LeftIsForgotten ==
    \A r \in forgotten : pc[r] = "done" => answer[r] = None

\* Once Join has connected a container of a composition, the cache knows the
\* address it has or is inspected anew: an inspection that was under way when
\* the container was connected cannot hide it.  Not so if the container fails
\* or is restarted after the last invalidation (see RestartedIsResolved).
ConnectedIsKnown ==
    \A c \in Composed \ moved : at[c] = "joined" /\ valid => cached[c] = ip[c]

\* The request that holds the lock is where the lock is held.
LockHeld == \A r \in Request : writer = r <=> pc[r] \in {"locked", "inspected"}

\* A view of the network that lacks the containers that have left and has the
\* running ones that have joined.
Current(view) ==
    \A c \in Container :
        /\ at[c] = "left" => view[c] = None
        /\ c \in Composed \ moved /\ at[c] = "joined" => view[c] = ip[c]

\* Docker's view is current, a valid cache is, and so is an inspection that
\* is about to fill it: an invalidation cannot come between the two.
ViewsAreCurrent ==
    /\ Current(ip)
    /\ \A c \in Container : at[c] = "disconnected" => ip[c] = None
    /\ valid => Current(cached)
    /\ \A r \in Request : pc[r] = "inspected" => Current(seen[r])

\* A container that had left before the request began has not come back, and
\* a request that has seen a valid cache will not find the container in it,
\* whatever happens to the cache before it looks.
ForgottenStay ==
    \A r \in forgotten :
        at[target[r]] = "left" /\ (pc[r] = "hit" => cached[target[r]] = None)

\* The inductive invariant.
IInv == TypeOK /\ LockHeld /\ ViewsAreCurrent /\ ForgottenStay /\ LeftIsForgotten

\* Every Resolve returns and every Join and Leave gets its invalidation.
ResolveReturns == \A r \in Request : pc[r] = "check" ~> pc[r] = "idle"
InvalidationDone ==
    \A c \in Container : at[c] \in {"connected", "disconnected"} ~> at[c] \in {"joined", "left"}

\* What a request for c would be answered with now.
Answer(c) == IF valid THEN cached[c] ELSE ip[c]

Resolved(c) == Answer(c) = ip[c]

\* core/interfaces.go of Resolve: "Resolve address or address with port to
\* routable (from application) endpoint" and "It may work not properly in
\* case container not running".  So a container that runs and serves is
\* resolved to where it runs: when its package has started it,
StartedIsResolved ==
    \A c \in Plain \ moved : at[c] = "started" /\ ip[c] # None => Resolved(c)

\* when docker has restarted it,
RestartedIsResolved ==
    \A c \in moved : at[c] \in {"started", "joined"} /\ ip[c] # None => Resolved(c)

\* and when the composition has been stopped and brought up again.
RejoinedIsResolved ==
    \A c \in Composed : at[c] = "rejoined" /\ ip[c] # None => Resolved(c)
=============================================================================
