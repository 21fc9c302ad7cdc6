------------------------------ MODULE Ingress ------------------------------
(***************************************************************************)
(* The cached ingress (core/ingress/cached.go) over the embedded router    *)
(* (core/ingress/embedded/router.go).  Clients are the running packages:   *)
(* each calls Set once it is healthy and Clear when it is torn down, all   *)
(* of them from goroutines of their own.  cachedIngress serialises the     *)
(* calls with a mutex, keeps domain -> lease and group -> domains, and     *)
(* hands a complete table to the backend, which swaps it atomically under  *)
(* the HTTP requests.  The table is compared by short domain: FQDN only    *)
(* appends the same suffix to all of them.                                 *)
(***************************************************************************)
CONSTANTS Client,     \* packages (pipelines) that use the ingress
          Group,      \* their names, environment.Name
          Domain, Addresses, None,
          GroupOf     \* the name each package was given

ASSUME ClientAssumption == /\ GroupOf \in [Client -> Group]
                           /\ None \notin Client
                           /\ None \notin Addresses
                           /\ None \notin Group
                           /\ None \notin [group : Group, list : Addresses]

VARIABLES
    addressesByDomain,  \* cachedIngress: domain -> lease, None when absent
    domainsByGroup,     \* cachedIngress: group -> domains
    lock,               \* cachedIngress.lock: the client that holds it, or None
    routes,             \* Router.routes: the table requests are served from
    pc,                 \* where each client is inside its call
    op,                 \* the call a client is in, or the last one it completed
    asks,               \* the argument domainAddresses of that call
    todo,               \* domains the range loop of Set has yet to visit
    leaser              \* ErrDomainUsed.LeaserGroup of the last refusal

cache == <<addressesByDomain, domainsByGroup>>
vars == <<addressesByDomain, domainsByGroup, lock, routes, pc, op, asks, todo, leaser>>

\* The promise of the interface; routes is the table it speaks about.
Promise == INSTANCE RoutingTable WITH table <- routes

Lease == [group : Group, list : Addresses]
Ask == [Domain -> Addresses \cup {None}]
Nothing == [d \in Domain |-> None]
Asked(c) == {d \in Domain : asks[c][d] # None}

Places == {"out", "waiting", "checking", "clearing", "adding", "returning", "refused"}

\* The places between Lock and Unlock.
Inside(c) == pc[c] \in {"checking", "clearing", "adding", "returning", "refused"}

\* The package has registered and has not withdrawn yet.
Holding(c) == pc[c] = "out" /\ op[c] = "set"

Init ==
    /\ addressesByDomain = [d \in Domain |-> None]
    /\ domainsByGroup = [g \in Group |-> {}]
    /\ lock = None
    /\ routes = [d \in Domain |-> None]
    /\ pc = [c \in Client |-> "out"]
    /\ op = [c \in Client |-> "none"]
    /\ asks = [c \in Client |-> Nothing]
    /\ todo = [c \in Client |-> {}]
    /\ leaser = [c \in Client |-> None]

-----------------------------------------------------------------------------
(* The callers, packs/dckr/daemon.go and packs/compose/compose.go.         *)

\* A package that holds nothing registers its domains.
CallSet(c) ==
    /\ pc[c] = "out"
    /\ op[c] # "set"
    /\ \E m \in Ask : asks' = [asks EXCEPT ![c] = m]
    /\ pc' = [pc EXCEPT ![c] = "waiting"]
    /\ op' = [op EXCEPT ![c] = "set"]
    /\ UNCHANGED <<cache, lock, routes, todo, leaser>>

\* Deferred once Set has succeeded: the package withdraws at its end.
CallClear(c) ==
    /\ Holding(c)
    /\ asks' = [asks EXCEPT ![c] = Nothing]
    /\ pc' = [pc EXCEPT ![c] = "waiting"]
    /\ op' = [op EXCEPT ![c] = "clear"]
    /\ UNCHANGED <<cache, lock, routes, todo, leaser>>

-----------------------------------------------------------------------------
(* cachedIngress.Set and cachedIngress.Clear.                              *)

\* Mutant of Lock: the mutex is not taken into account.
LockUnguarded(c) ==
    /\ pc[c] = "waiting"
    /\ lock' = c
    /\ pc' = [pc EXCEPT ![c] = IF op[c] = "set" THEN "checking" ELSE "clearing"]
    /\ UNCHANGED <<cache, routes, op, asks, todo, leaser>>

\* ci.lock.Lock()
Lock(c) ==
    /\ pc[c] = "waiting"
    /\ lock = None
    /\ lock' = c
    /\ pc' = [pc EXCEPT ![c] = IF op[c] = "set" THEN "checking" ELSE "clearing"]
    /\ UNCHANGED <<cache, routes, op, asks, todo, leaser>>

\* Mutant of Conflict: the domains of others are not looked at.
ConflictNever(c, d) == FALSE

\* The domain is leased to another group.
Conflict(c, d) ==
    /\ addressesByDomain[d] # None
    /\ addressesByDomain[d].group # GroupOf[c]

\* Some domain is taken: return &ErrDomainUsed{LeaserGroup: group}.
Refuse(c) ==
    /\ pc[c] = "checking"
    /\ \E d \in Asked(c) : Conflict(c, d)
    /\ leaser' = [leaser EXCEPT ![c] = GroupOf[c]]
    /\ pc' = [pc EXCEPT ![c] = "refused"]
    /\ UNCHANGED <<cache, lock, routes, op, asks, todo>>

\* No domain is taken.
Accept(c) ==
    /\ pc[c] = "checking"
    /\ \A d \in Asked(c) : ~Conflict(c, d)
    /\ pc' = [pc EXCEPT ![c] = "clearing"]
    /\ UNCHANGED <<cache, lock, routes, op, asks, todo, leaser>>

\* Mutant of ClearGroup: only the index is dropped.
ClearIndexOnly(c) ==
    /\ pc[c] = "clearing"
    /\ domainsByGroup' = [domainsByGroup EXCEPT ![GroupOf[c]] = {}]
    /\ todo' = [todo EXCEPT ![c] = Asked(c)]
    /\ pc' = [pc EXCEPT ![c] = "adding"]
    /\ UNCHANGED <<addressesByDomain, lock, routes, op, asks, leaser>>

\* Mutant of ClearGroup: the index keeps the dropped domains.
ClearLeasesOnly(c) ==
    LET g == GroupOf[c] IN
    /\ pc[c] = "clearing"
    /\ addressesByDomain' =
         [d \in Domain |-> IF d \in domainsByGroup[g] THEN None ELSE addressesByDomain[d]]
    /\ todo' = [todo EXCEPT ![c] = Asked(c)]
    /\ pc' = [pc EXCEPT ![c] = "adding"]
    /\ UNCHANGED <<domainsByGroup, lock, routes, op, asks, leaser>>

\* Mutant of ClearGroup: it publishes, as Clear does, before Set adds.
ClearAndPublish(c) ==
    LET g == GroupOf[c] IN
    /\ pc[c] = "clearing"
    /\ addressesByDomain' =
         [d \in Domain |-> IF d \in domainsByGroup[g] THEN None ELSE addressesByDomain[d]]
    /\ routes' = addressesByDomain'
    /\ domainsByGroup' = [domainsByGroup EXCEPT ![g] = {}]
    /\ todo' = [todo EXCEPT ![c] = Asked(c)]
    /\ pc' = [pc EXCEPT ![c] = "adding"]
    /\ UNCHANGED <<lock, op, asks, leaser>>

\* clearGroup: drop every lease the index lists for the group.
ClearGroup(c) ==
    LET g == GroupOf[c] IN
    /\ pc[c] = "clearing"
    /\ addressesByDomain' =
         [d \in Domain |-> IF d \in domainsByGroup[g] THEN None ELSE addressesByDomain[d]]
    /\ domainsByGroup' = [domainsByGroup EXCEPT ![g] = {}]
    /\ todo' = [todo EXCEPT ![c] = Asked(c)]
    /\ pc' = [pc EXCEPT ![c] = "adding"]
    /\ UNCHANGED <<lock, routes, op, asks, leaser>>

\* Mutant of AddDomain: the loop runs over all domains.
AddEveryDomain(c) ==
    /\ pc[c] = "adding"
    /\ \E d \in Domain :
         /\ domainsByGroup' = [domainsByGroup EXCEPT ![GroupOf[c]] = @ \cup {d}]
         /\ addressesByDomain' =
              [addressesByDomain EXCEPT ![d] = [group |-> GroupOf[c], list |-> asks[c][d]]]
         /\ todo' = [todo EXCEPT ![c] = @ \ {d}]
    /\ UNCHANGED <<lock, routes, pc, op, asks, leaser>>

\* One iteration of Set's range loop, in the map's arbitrary order.
AddDomain(c) ==
    LET g == GroupOf[c] IN
    /\ pc[c] = "adding"
    /\ \E d \in todo[c] :
         /\ domainsByGroup' = [domainsByGroup EXCEPT ![g] = @ \cup {d}]
         /\ addressesByDomain' =
              [addressesByDomain EXCEPT ![d] = [group |-> g, list |-> asks[c][d]]]
         /\ todo' = [todo EXCEPT ![c] = @ \ {d}]
    /\ UNCHANGED <<lock, routes, pc, op, asks, leaser>>

\* Mutant of Publish: Clear leaves the backend as it was.
PublishSetOnly(c) ==
    /\ pc[c] = "adding"
    /\ todo[c] = {}
    /\ routes' = IF op[c] = "clear" THEN routes ELSE addressesByDomain
    /\ pc' = [pc EXCEPT ![c] = "returning"]
    /\ UNCHANGED <<cache, lock, op, asks, todo, leaser>>

\* updateState and Router.Set: the whole map becomes the table of the router.
Publish(c) ==
    /\ pc[c] = "adding"
    /\ todo[c] = {}
    /\ routes' = addressesByDomain
    /\ pc' = [pc EXCEPT ![c] = "returning"]
    /\ UNCHANGED <<cache, lock, op, asks, todo, leaser>>

\* Mutant of Return: the error path forgets the mutex.
ReturnLocked(c) ==
    /\ pc[c] \in {"returning", "refused"}
    /\ lock' = IF pc[c] = "refused" THEN lock ELSE None
    /\ pc' = [pc EXCEPT ![c] = "out"]
    /\ op' = [op EXCEPT ![c] = IF pc[c] = "refused" THEN "none" ELSE @]
    /\ UNCHANGED <<cache, routes, asks, todo, leaser>>

\* The deferred ci.lock.Unlock().  A refused package gives up its run.
Return(c) ==
    /\ pc[c] \in {"returning", "refused"}
    /\ lock' = None
    /\ pc' = [pc EXCEPT ![c] = "out"]
    /\ op' = [op EXCEPT ![c] = IF pc[c] = "refused" THEN "none" ELSE @]
    /\ UNCHANGED <<cache, routes, asks, todo, leaser>>

Progress(c) == \/ Refuse(c) \/ Accept(c) \/ ClearGroup(c)
               \/ AddDomain(c) \/ Publish(c) \/ Return(c)

Next == \E c \in Client : CallSet(c) \/ CallClear(c) \/ Lock(c) \/ Progress(c)

Spec == Init /\ [][Next]_vars

\* A goroutine inside the mutex keeps running; a goroutine waiting for a Go
\* mutex is not starved (a waiter is handed the mutex after 1ms).  Packages
\* need not call anything.
Fairness == \A c \in Client : WF_vars(Progress(c)) /\ SF_vars(Lock(c))

FairSpec == Spec /\ Fairness

-----------------------------------------------------------------------------
TypeOK ==
    /\ addressesByDomain \in [Domain -> Lease \cup {None}]
    /\ domainsByGroup \in [Group -> SUBSET Domain]
    /\ lock \in Client \cup {None}
    /\ routes \in [Domain -> Lease \cup {None}]
    /\ pc \in [Client -> Places]
    /\ op \in [Client -> {"none", "set", "clear"}]
    /\ asks \in [Client -> Ask]
    /\ todo \in [Client -> SUBSET Domain]
    /\ leaser \in [Client -> Group \cup {None}]

\* The two maps of the cache stay each other's inverse through every partial
\* update of clearGroup and of the loop in Set, so that clearing a group
\* drops its leases and nobody else's.
LeaseIndex ==
    \A g \in Group, d \in Domain :
        d \in domainsByGroup[g]
            <=> addressesByDomain[d] # None /\ addressesByDomain[d].group = g

\* Requests are routed with the cache's table whenever no client is between
\* clearGroup and updateState: every return path publishes what it changed.
PublishedIsCached ==
    (\A c \in Client : pc[c] # "adding") => routes = addressesByDomain

\* No other package was given c's name.
OwnName(c) == \A b \in Client : GroupOf[b] = GroupOf[c] => b = c

\* A package with a name of its own whose Set returned nil is reachable on
\* exactly the domains and addresses it asked for until it calls Clear,
\* whatever calls of others are in progress or were refused.
HolderIsRouted ==
    \A c \in Client : OwnName(c) /\ Holding(c) =>
        \A d \in Domain :
            IF asks[c][d] # None
            THEN routes[d] = [group |-> GroupOf[c], list |-> asks[c][d]]
            ELSE routes[d] # None => routes[d].group # GroupOf[c]

\* No route outlives its package: behind every published route there is a
\* package of that name which registered and has not finished its Clear.
NoDanglingRoute ==
    \A d \in Domain : routes[d] # None =>
        \E c \in Client : /\ GroupOf[c] = routes[d].group
                          /\ \/ Holding(c)
                             \/ op[c] = "set" /\ pc[c] = "returning"
                             \/ op[c] = "clear" /\ pc[c] # "out" /\ pc[c] # "returning"

\* The mutex is held exactly by the client that is inside.
MutexHeld == \A c \in Client : Inside(c) <=> lock = c

\* What a client relies on at each place of its call: the check of Set still
\* stands when clearGroup runs, and the loop has turned the cache into the
\* published table with the group's leases replaced, but for the domains it
\* has yet to visit.
Phase(c) ==
    /\ op[c] = "clear" => asks[c] = Nothing
    /\ pc[c] \in {"checking", "refused"} => op[c] = "set"
    /\ pc[c] # "out" => op[c] \in {"set", "clear"}
    /\ pc[c] = "clearing" => \A d \in Asked(c) : ~Conflict(c, d)
    /\ pc[c] = "adding" =>
         /\ todo[c] \subseteq Asked(c)
         /\ \A d \in Asked(c) : Promise!Free(routes, GroupOf[c], d)
         /\ \A d \in Domain : addressesByDomain[d] =
              IF d \in todo[c] THEN None
              ELSE Promise!Replace(routes, GroupOf[c], asks[c])[d]

Phases == \A c \in Client : Phase(c)

\* HolderIsRouted from the moment the table is published.
RegisteredIsRouted ==
    \A c \in Client :
        OwnName(c) /\ op[c] = "set" /\ pc[c] \in {"out", "returning"} =>
            \A d \in Domain :
                IF asks[c][d] # None
                THEN routes[d] = [group |-> GroupOf[c], list |-> asks[c][d]]
                ELSE routes[d] # None => routes[d].group # GroupOf[c]

\* The inductive invariant.
IInv ==
    /\ TypeOK
    /\ MutexHeld
    /\ LeaseIndex
    /\ PublishedIsCached
    /\ Phases
    /\ RegisteredIsRouted
    /\ NoDanglingRoute

\* A route is withdrawn or re-addressed only while the package that owns the
\* name publishes, and then only if that call asks for something else: the
\* gap between clearGroup and the end of the loop is never visible.
OnlyOwnerChanges ==
    [][\A d \in Domain : routes[d] # None /\ routes'[d] # routes[d] =>
          \E c \in Client : /\ GroupOf[c] = routes[d].group
                            /\ lock = c
                            /\ asks[c][d] # routes[d].list]_vars

\* Requests never see a domain pass from one group to another directly.
NoHandover ==
    [][\A d \in Domain :
          routes[d] # None /\ routes'[d] # None => routes'[d].group = routes[d].group]_routes

\* The fine-grained calls are atomic replacements of the table.
ImplementsRoutingTable == Promise!TableSpec

\* Every call returns: no package hangs in its registration or teardown.
CallsReturn == \A c \in Client : pc[c] = "waiting" ~> pc[c] = "out"

\* ErrDomainUsed's text is "domain already used by group " + LeaserGroup: the
\* group it names is one that leases an asked domain.
LeaserNamed ==
    \A c \in Client : pc[c] = "refused" =>
        \E d \in Asked(c) : Conflict(c, d) /\ addressesByDomain[d].group = leaser[c]
=============================================================================
