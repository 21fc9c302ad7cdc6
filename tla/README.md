# git-pipe in TLA+

git-pipe watches git repositories and keeps the `Dockerfile` or
`docker-compose.yaml` at the head of a branch deployed: it polls, builds,
restores volumes from a backup, starts containers, publishes their ports in a
built-in reverse proxy and registers DNS names. One process runs many of these
pipelines as goroutines over one docker daemon, one docker network, one proxy
and one backup provider.

The modules in this directory model the parts of it that keep state and run
side by side. They are translated from the Go sources; `PROJECT.json` says
which lines each definition stands for, which configuration checks which
property, and for each property one plausible bug (a "mutant" in the modules)
that it detects.

    tlc -workers 2 -config Gateway_safety.cfg MCGateway.tla
    tlapm GatewayProofs.tla

## 1. The system

| component | state | operations | talks to | what is hard |
|---|---|---|---|---|
| pipeline poller (`pipe/simple.go`) | `force`, `current` task, ticker, `env` | `run`, `poll` | git source; spawns and stops packages | tick, end of the package, and shutdown race in one select; every poll may fail at any command; restart over the same directory |
| git source (`remote/git/git.go`) | the clone | `Poll` | `git` | a command fails or is killed between two others |
| tasks (`internal/routing.go`) | context, `done` channel, error | `Spawn`, `Timer`, `Stop`, `Wait` | goroutines of packages and of backups | `Stop` must wait for the goroutine |
| Dockerfile package (`packs/dckr`) | one container, deferred calls | `Run` | docker, storage, network, ingress, DNS | 11 steps that fail or are cancelled, 5 deferred calls in reverse order, containers that outlive the process |
| compose package (`packs/compose`) | containers of a project | `Run` | `docker-compose`, the same | no cleanup at the start, an `up` that fails halfway |
| storage and backup (`core/storage`, `backup/`, `cryptor/`) | volumes, one archive per package | `Restore`, `Backup`, `Schedule` | busybox containers, `openssl`, S3 or a directory | a backup beside the teardown, busybox containers nobody waits for |
| network (`core/network`) | cached inspection, RW lock | `Join`, `Leave`, `Resolve` | docker; called by packages and by HTTP requests | cache filled while it is invalidated; lock held over a docker call |
| ingress cache (`core/ingress/cached.go`) | leases by domain, domains by group, mutex | `Set`, `Clear` | the router | partial updates of two maps and one published table |
| router (`core/ingress/embedded`) | atomic table | `Set`, `ServeHTTP` | network, JWT | table, network and packages change under a request |
| DNS (`core/dns`) | `registered`, records at the provider | `Register` | Cloudflare | unlocked read, partial registration |
| process (`cmd/git-pipe`) | contexts, wait group | `Execute` | everything above | early returns, names that collide |

What makes them correct, in short: at most one package per pipeline, and the
last commit is the one that comes to run; whatever a package has created it
takes back, in an order that never sends a request to a container that is gone;
nobody's domain is taken or dropped by somebody else; a cache does not
outlive what it describes; an archive is not overwritten by older data or by
half of it; whoever is stopped ends.

`PROJECT.json` lists the hazards, each at its line, with the properties that
look at them. A hazard without a property says why.

## 2. The modules

| module | models | promise |
|---|---|---|
| `RoutingTable` | abstract: one table, all-or-nothing replacement by group | |
| `Ingress` | `cachedIngress` over `Router.Set`, any number of packages | implements `RoutingTable` |
| `Poller` | `poller.run`, `poller.poll`, `Git.Poll`, `Task`; packages as tasks | treats them as `PackageTask` has it |
| `Network` | `Join`, `Leave`, `Resolve`, the cache and its RWMutex, docker's addresses and restarts | |
| `Gateway` | a request through router, JWT handler and proxy, composed with `Network` and `RoutingTable` | implements both |
| `PackageTask` | abstract: what the poller and a package rely on of each other | |
| `Storage` | `Restore`, `Backup`, `Schedule`, a provider that shows an archive late; state and steps only | |
| `DockerPackage` | `dckr.Run` with `Storage` | implements `PackageTask` |
| `ComposePackage` | `compose.Run` with `Storage` | implements `PackageTask` |
| `Domains` | the tables that `compose.Run` and `dckr.Run` publish, as functions; beside them what the documentation says of all ports and services | |
| `Process` | `Execute` with router, pipelines, shutdown; `singlehost` DNS; publishes tables of `Domains` | |
| `MC...` | values of the constants for TLC | |
| `...Proofs` | theorems for TLAPS | |

How they fit together: `Poller` spawns and stops tasks and does not look into
them; `DockerPackage` and `ComposePackage` have one task from the inside.
`PackageTask` is what lies between: spawned, ready or failed, cancelled, ended,
and dropped. Both sides implement it. A package never ends in another way than
the poller knows, whatever it loads, builds and undoes; and the poller spawns
beside no live package, lets go of none, and takes back no cancellation,
whatever git and the ticker do. The packages see the ingress and the network of
their own group only (`routed`, `linked`); `Ingress` and `Network` have all
groups at once and the packages as clients. `Gateway` puts requests on top of
both: it takes the abstract table, which `Ingress` is shown to implement, and
the network as it is, and is shown to use the one and to be the other. `Process` has all
pipelines at once, each with the stages of a package that others can notice.

### Ingress

A client is a running package. `pc[c]` is where its goroutine is in `Set` or
`Clear`: `CallSet`/`CallClear` (the call), `Lock`, then for `Set` `Refuse` or
`Accept` (the loop over the domains that returns `ErrDomainUsed`), `ClearGroup`
(`clearGroup`), `AddDomain` (one iteration of the second loop), `Publish`
(`updateState` and the atomic `Store` of `Router.Set`) and `Return` (the
deferred `Unlock`). `addressesByDomain` and `domainsByGroup` are the two maps
of the cache, `routes` the table of the router. `GroupOf` gives each package a
name; two of them may be given the same (`generateSimpleName` can do that), and
then only the properties that do not mention `OwnName` speak of them.

### Poller

`pc` follows `poller.run` and, inside a poll, `Git.Poll` command by command.
`dir`, `tracked` and `head` are the clone: `.git`, `origin/<branch>` and
`HEAD` with its tree. `PollFails` is a command (or `MkdirAll`) that fails and
leaves the clone; `CommandKilled` one that is killed with the context and
leaves a clone without `HEAD`, or a lock file. `StopOld`/`JoinOld` and
`OnContextDone`/`Exit` are the halves of `Task.Stop`. A task carries the
commit that its configuration and its image came from, and the value it was
given for one environment variable. `Interrupt` cancels the contexts, `Crash`
kills the process, `Start` starts it again over the same directory.

### Network

`at[c]` is where the package of container `c` is between creation and removal,
`linked` and `ip` are docker's, `valid`, `cached` and `writer` the cache and
its lock. The two kinds of package differ as in the code: `dckr.Run` joins a
container that does not run yet and starts it then; `compose.Run` joins
containers that run, or did, and its deferred `Leave` fails whenever the context
is already cancelled, so that they stay in the network and the next `Join` finds
them there (`JoinLinked`). `Exits` and `Restart` are a container of either kind
that fails, and docker's restart of it at any free address: the cache is told of
neither. The history variable `moved` has the containers to which that happened
since the last invalidation.

`Announce` is the point at which the ingress has a record of the container,
which comes after `Join` and, in `dckr.Run`, after the start. `published` has
the containers that ever had one, and only these are asked for: the proxy
resolves what it has found in a record, which may be withdrawn by then.
`Resolve` is `Begin`, `Check` (under `RLock`), `Hit` (the read after
`RUnlock`) or `LockCache`, `LateHit`, `Inspect`, `Fill`, `InspectFails`.

### Gateway

`table` is `Router.routes`. A package publishes when its container runs in the
network (`Publish`, `Ingress.Set`), withdraws before it leaves (`Withdraw`, then
`Leave`), and takes the steps of `Network` in between. `DomainsOf` has the
domains that each package may ask for, and packages may ask for the same one:
`a.b` is the root of a package `a.b`, and service `a` of a package `b`. So a
domain passes to another package once it is withdrawn, while requests that
looked it up before are under way. A request is at `stage`: `Route`
(`ServeHTTP`, the one lookup), `Refuse` or `Admit` (the JWT handler; a token is
a record of the claims it is checked by), the steps of `Resolve`, `Forward` (the
proxy dials, and whoever has the address by then answers) or `Fail`, and
`Reply`. `excused` is history: the container of the request has lost or changed
its address while the request was under way (`Leave`, `Move`), or had done so
without the cache when the request was routed. A package that only withdraws
excuses nobody, since its container runs on. No step depends on it. A chain
without the JWT handler is the instance whose one token restricts nothing.

### Domains and Process

`Domains` has no state. A domain is a label and a port before the name of the
package (labels have no dots, so that the two parts can be told apart, and
`domainname: ""` is none); a table is a function from domains to a service and
its port. `TcpPart` is what the code keeps of a service, each TCP port at its
place, `Allocate` one round of the loop over services in `compose.Run`,
`WithRoot` the `selectRootDomain` after it, `DockerTables` what `dckr.Run`
publishes for its one image. `Documented` is written from
`_docs/03_docker-compose.md`: all ports of all the services it is given.

`Process` has `main` for where `Execute` is, `router` and `pipe` for the
goroutines of its group, and `cancelled` for the context that each of them
cancels when it ends. `GiveUp` is the return on a repository that cannot be
parsed. A pipeline deploys one of the `Project`s, and `up` has the services
whose containers run when `mapContainers` lists them (`Listed`): any of a
composition may have ended by then. For a composition `todo` has those
the services the loop has still to come to, and `Visit` takes any one of them,
as the range over a Go map may; `links` is the table as far as it is built, and
from `Publish` on the one that is published. Then the pipeline registers:
without path routing at the provider (`Register`), with
path routing through `singlehost`, whose read outside of the lock may see
`registered` or may not (`SeesRegistered`, `SeesUnregistered`), followed by
`LockHost`, the second look (`AlreadyRegistered`) or `Call` and its two ends.
The provider is external: `noregister` is the one that always answers.

### Storage, DockerPackage, ComposePackage

`pc` is the step of `Run`, or the deferred call that is running; `Fail(place)`
is the return of an error, and `place` the first of the deferred calls that
exist by then. The data is abstracted to a version number, so that older and
newer can be told apart, and to `Partial` for half of an archive, which is
possible in both directions because nobody looks at the exit status of the `tar`
in the busybox container. `archive` is what the provider was given last and
`visible` what can be downloaded: `_docs/04_backup.md:48` warns that B2 takes
minutes to show an upload (`Appear`), and a `Restore` in between gets the one
before, or none. `Late` says whether the provider is of that kind; a directory is
not. A `Restore` that is cancelled leaves its busybox
behind (`orphans`), and it may write when it likes. `torn` and `spoiled` are
history variables, read by properties and by nothing else: that containers
were left behind because docker refused or the process died, and that the
volume of this deployment may lack what the archive has, because `tar` failed,
an abandoned busybox has written, or the archive was not visible yet. The next
`Restore` that brings the last archive clears `spoiled`.

A composition's containers are abstracted to sets: those with ports that run
when they are listed are the ones that `mapContainers` returns (`found`). Its
services have no health wait:
`compose.Run` leaves that to `docker-compose`.

## 3. The runs

| run | question | instance | states |
|---|---|---|---|
| `ingress_safety` | do the cache, the router and the packages agree through every interleaving of `Set` and `Clear`, and does every call return | three packages, two under one name; two domains, one address list | 155 867 |
| `ingress_leaser` | violation: who does the refusal name | two packages | |
| `poller_safety` | one package at a time, no lost update, nothing left behind; are packages treated as the tasks they are | three commits (compose, Dockerfile, neither), two pushes, three starts, two task slots | 1.8 M |
| `poller_live` | does the head of the branch come to run; does shutdown end | two commits, one push, two starts | 15 748 |
| `poller_env` | violation: whose `.env` does a composition see | two compositions | |
| `gateway_safety` | what answers a request, and with which token, while packages come and go, containers fail and restart, addresses are reused and a domain changes hands; what the cache says meanwhile | one container of each kind, both asking for one domain, two requests, two addresses, a token for each group and one for another method | 2 231 583 |
| `network_live` | do `Resolve`, `Join` and `Leave` return | one container of each kind, two requests, one address | 123 331 |
| `network_stale` | violation: is a container resolved that its package has started | one container of each kind, one request, two addresses | |
| `docker_safety` | do containers, routes, volume and archive keep their order through failures, cancellations, backups and crashes; does a stopped package return; is `Run` the task the poller expects | two containers, four kinds of host, one write | 590 660 |
| `docker_dataloss` | violation: is a restore done only before the first run | one container, two writes | |
| `compose_safety` | the same for a composition | a service with a port and one without, a new host, one write, a provider that shows an archive at once | 480 384 |
| `process` | does what ends one end all, with nothing left; is a ready package registered; are its domains the documented ones, in any order of the services and with any of them ended | two repositories, a composition of three services and an image, all flags | 209 632 |

Why the bounds are enough. *Ingress*: a conflict needs two groups, a
collision two packages of one, and a call of somebody else beside it a third
package; two domains let a request hold one and be refused the other. *Poller*:
a stale tree needs two commits after the first, a package that overlaps its
successor two slots, and a crash during the recovery of a crash three starts.
*Network*, *Gateway*: two containers and two addresses let each have the address that the
other had when it was cached or resolved; the second request is the one that
finds the cache filled, or that fills it, under the first; two packages that ask
for one domain hand it over in both directions; a token of each of them and one
for a method that nobody uses make the handler decide by subject and by method. *Packages*:
a second container is needed to overlap; archive, volume and one write give two
versions, hence an older and a newer one; two writes (`docker_dataloss`) reach
the loss of a write that was backed up before. The storage of a composition is
that of a Dockerfile, whose run has the provider that is late and the host that
is not new. *Process*: one pipeline that asks the
provider and one that looks or waits; a composition in which a marked service
has the root as long as it runs, and one with a name of the list when it does
not, two services want one domain, and a first port is UDP.
No bound is on the number of deployments, cancellations, failures or, for the
packages, crashes. `MaxPushes`, `MaxStarts` and `MaxWrites` are the only
counters.

Symmetry is used only in runs without liveness, over sets whose members no
definition tells apart: the task slots of `Poller`, and requests and addresses
of `Gateway`. `network_live` leaves the history variables (`published` is none)
out of the states, by a `VIEW`: no step, no fairness and neither of its two
properties depends on them, so states that differ in nothing else go on alike.

Deadlock is checked in every run but `process`, where the process ends. The shutdown of a pipeline is no deadlock
because it may be started again as long as `MaxStarts` allows, and an interrupt
or a crash needs a start that is left.

### What the properties say

*Ingress.* `LeaseIndex`: the two maps are inverse at every partial update.
`HolderIsRouted`: who was told that its domains are set is reachable on exactly
these until it withdraws. `NoDanglingRoute`: no route outlives the last
package of its name. `OnlyOwnerChanges`: what requests may see change, and by
whom. `ImplementsRoutingTable`: refinement. `CallsReturn`: the mutex is given
back on every path, refusals included.

*Poller.* `SinglePackage`, `NoOrphan`: packages do not overlap, nor outlive
`pipe.Run`. `UsesTask`: the poller's side of `PackageTask`, for the task in
`current` through all of its lives, also when `Stop` returns the error of a
package that ended long ago. `NoLostUpdate`: a poller that sleeps without `force` has spawned
its package from the commit in the tree, even when an earlier poll moved the
tree and failed afterwards. `Converges`, `ShutdownEnds`: liveness. `Converges`
excludes a clone that was killed halfway: `cloned` takes any `.git` for a
clone, every later poll fails on it, and only a person can remove it.

*Network.* `LeftIsForgotten`: no request that begins after a `Leave` is sent to
the address that was given up, although the cache is read outside of the lock.
`ConnectedIsKnown`: a valid cache has the address at which a composition was
connected, although somebody may have inspected the network meanwhile; not so
for a container that has failed or restarted since the last invalidation, which
the cache does not hear of (section 5). `ResolveReturns`,
`InvalidationDone`: nobody keeps the lock.

*Gateway.* `ServedByOwner`: table, cache, docker and the proxy's dial are four
looks at a world that changes in between, and the address of a container that
has left is given to another one; still the container that answers is the one
of the record, also after its package has withdrawn and another one has taken
the domain. It rests on the order of the deferred calls (`Clear` before
`Leave`) and on the invalidation in both `Join` and `Leave`. Exempt are
requests whose own container gives up or changes its address while they are
under way (`Leave`, a failure, a restart), or had been moved before and not
been joined since: the address they hold may be anybody's by then.
`OnlyAdmitted`: with the same exemption, the token that was checked is good for
the container that answers, although the domain may have passed to another group
meanwhile. That is so because the request keeps the record that it was checked
for; a second lookup after the check is the bug that it detects.

*Process.* `ReadyIsRegistered`, `AskedOnce`: the unlocked read in `singlehost`
does no harm, nor does a provider that fails. `NoneAbandoned`: when `wg.Wait`
has returned, no package is published and nobody deploys; the early return of
`Execute` (`GiveUp`) is not held to it. `LinksAsDocumented`: a composition whose
services ask for different domains publishes what the documentation says of the
TCP ports of the services that run, no more and no less, whatever the order of
the map; services of one domain are left to that order, but never lead to a port
that no running service has. The documentation makes neither restriction, and
what it says does not hold without them (section 5). A service that has ended may
also move the root to another name. `AllForOne`: liveness of the shutdown.

*Packages.* `OneRunning`, `RestoreAlone` (Dockerfile): the volume is not shared
by two containers, nor unpacked under one, whatever a crash has left. A
composition has no cleanup at its start and no such property.
`RouteIsUp`: a domain leads to the container of this deployment, in the network,
checked healthy, or nowhere. `NoResidue`: nothing is left when `Run` has
returned; exempt are the cases in which the code does leave containers, a stop
that docker refuses, an `up` that failed halfway, and a crash.
`NoBackupDuringRestore`: the backup task of one deployment is over before the
next one restores. `BackupsAdvance`: an upload does not replace an archive by
older data, unless the `Restore` of this very deployment has left something else
than the last archive in the volumes, because `tar` failed or because the
provider did not show that archive yet, or an abandoned busybox has written
since. So it does not say that an archive is safe: a package that is redeployed
before B2 shows its last backup restores an older one, or none, and uploads that
over the newer. `TearDownEnds`: liveness. `ImplementsTask`: refinement.

### Fairness

- `Ingress`: weak fairness of every step inside the mutex; strong fairness of
  `Lock`, because a Go mutex hands itself to a waiter that has waited 1 ms.
  Packages need not call anything.
- `Poller`: the goroutines are scheduled and the ticker ticks (weak). A
  `select` with several ready cases picks at random, hence strong fairness of
  `OnContextDone` and `OnPackageStopped`. Commands and deployments are retried
  for ever and succeed at some time (strong): without this nothing can
  converge. Pushes, interrupts, crashes and starts are not fair.
- `Network`: weak for the steps of `Resolve` (docker answers), strong for those
  that wait for the RWMutex, which does not starve readers or writers.
- `Process`: weak for `Execute`, for the start of the pipelines and for what a
  pipeline has under way (the provider answers, with a result or an error; a
  package ends when it is cancelled), strong for the mutex of `singlehost`.
  Deployments, failures and interrupts are not fair.
- packages: weak for the steps of `Run`, of `Restore` and of the backup task
  taken together (docker and the provider answer, with a result or an error, and
  the goroutines do not all stop for ever). A container need not ever become
  healthy: only the cancellation of the context is assumed to end that wait, and
  `TearDownEnds` rests on it.

## 4. Proofs

TLAPS checks these for every value of the constants, from the assumptions
that the modules name (`ClientAssumption`, `PollerAssumption`,
`NetworkAssumption`, `GatewayAssumption`, `StorageAssumption`,
`PackageAssumption`, `DomainsAssumption`, `ProcessAssumption`: types of the
constants, and that `None` is none of the values it stands in for;
`ProcessAssumption` also has it that the services of a composition have
different names and no empty one, being the keys of a map, and that an image is
one service).

**`IngressProofs`.** `Invariance`: `Spec => []IInv`, where `IInv` is `TypeOK`,
`MutexHeld`, `LeaseIndex`, `PublishedIsCached`, `Phases`, `RegisteredIsRouted`
and `NoDanglingRoute`. `PublishedIsCached` is not inductive by itself: while a
call is between `clearGroup` and `updateState` cache and router differ.
`Phases` says by how much: the cache is the published table with the group's
leases replaced, but for the domains still to be visited, and the check of
`Set` still stands when the group is cleared, since `MutexHeld` puts everybody
else outside. So the step that publishes is `Replace` of the abstract table
(`PublishReplaces`) and all others leave the table alone (`OnlyPublish`).
From there: `TypeCorrect`, `IndexesAgree`, `HoldersAreRouted`, `RoutesAreOwned`,
the action property `OwnersChange`, and `Refinement`, that `Ingress` implements
`RoutingTable`. Two are proved and not run: `RouterIsCurrent` (every way out of
a call has published what it changed) and `NoDirectHandover` (a domain never
passes from one group to another in one step).

**`PollerProofs`.** `Invariance` for `TypeOK`, `OnlyCurrentLive` and
`UpdateNoted`; from it `TypeCorrect`, `OnePackage`, `NothingLeftBehind` and
`UpdatesAreNotLost`. `SinglePackage` is not inductive: two tasks overlap if one
is spawned while another is alive, so what is carried along is that only
`current` may be alive, and not even that where the next one is spawned.
`NoLostUpdate` speaks of the poller at rest; `UpdateNoted` carries it through
a poll: as long as `force` is not set, a package that fell behind the tree is
betrayed by `prevHash` or by `fresh`, and every failure sets `force`.
`PackagesAreTasks` and `PollerImplementsTask` go through the steps of the poller
once more, with `current` as the task: `OnlyCurrentLive` makes `Spawn` find no
live task and `Drop` let go of none, and no step but the end of the package
ends it. The type invariant is proved and not in the run, whose states TLC
checked against all of `IInv` once.

**`NetworkProofs`.** `Invariance` for `TypeOK`, `LockHeld`, `ViewsAreCurrent`,
`ForgottenStay` and `LeftIsForgotten`; from it `TypeCorrect`,
`LeftAreForgotten`, `ConnectedAreKnown`. The argument is `ViewsAreCurrent`, for
all containers that are not in `moved`: an
inspection that is about to fill the cache is current, because `Invalidate`
waits for the lock that is held from before the inspection until the cache is
filled. `ForgottenStay` is for the path that reads the cache after `RUnlock`:
whatever replaces the cache in between lacks the container too.

**`GatewayProofs`.** `ImplementsNetwork`: every step of `Gateway` is one of
`Network` or leaves it alone, so `GatewayForgetsLeft` and
`GatewayKnowsConnected` follow from `NetworkProofs`. `UsesRoutingTable`: its
table is the abstract one, changed by `Register` and `Withdraw` only, so that
what requests meet here is what `Ingress` was proved to implement. `GatewayInvariance` is for
`GatewayInv`, above the invariant of the network: `ServedByOwner` is not
inductive, since a request may hold an address long after it was looked up.
What is carried along is that a request that is not excused has a record whose
container still serves where it was, withdrawn or not (`Pending`); that what it
has read, the cache, and every inspection that may still fill the cache have for
such a container its own address or none (`ViewsAreFresh`, which leaves out the
containers in `moved`); that a record leads to a container of the package that
has it, which serves (`Records`); and that no two containers have one address
(`Addresses`). A container that leaves falls out of `ViewsAreFresh` and comes
back only after the invalidation, which has to wait for the inspections under
way. From there `RequestsServedByOwner`,
`RequestsAdmitted` (with `Stages`: the record and the token of a request do not
change after they were checked) and `GatewayTypeCorrect`.

**`StorageProofs`, `DockerPackageProofs`, `ComposePackageProofs`.** The
invariant of the storage (`StorageInv`) is kept by each of its steps, proved
once in lemmas for both kinds of package. Its part `BackupInv` carries
`BackupsAdvance`: unless something was spoiled, the volume covers the archive
(the last one given to the provider, visible or not) from the end of `Restore`
on, and a snapshot covers the archive it is about to replace. The invariants of the packages (`DockerInv`, `ComposeInv`) say what
each place of `Run` means for the rest: which of the two goroutines of the
storage may be active (`StorageInPlace`), how far the containers are, whether
they are in the network and routed (`ContainerInPlace`, `ContainersInPlace`),
and how `Run` will end (`OutcomeInPlace`). So a failed step finds exactly the
deferred calls it needs. From there `DockerTypeCorrect`, `OneContainerRuns`,
`RoutesAreUp`, `RestoresAlone`, `BackupsAwaitRestore`, `NothingIsLeft`,
`BackupsNeverGoBack`, the same for compositions but for `OneContainerRuns` and
`RestoresAlone`, and `RunIsTask`: each `Run` implements `PackageTask`. For
compositions `BackupsNeverGoBack` is proved and not in a run; TLC has checked it
and `ComposeInv` once, with two versions and two containers.

**`ProcessProofs`.** `ProcessInvariance` is for `PInv`. `HostKnown` (the flag of
`singlehost` is what the provider knows) with `LockHeld` makes the unlocked read
sound; `Unpublished` carries `NoneAbandoned`. From there `ReadyAreRegistered`,
`HostAskedOnce`, `NoneLeftBehind` and `ProcessTypeCorrect`.
`LinksAreDocumented` rests on a second invariant, `LInv`, that says of each
pipeline what its table is while the loop is under way (`LoopSoFar`): no domain
leads to a port that is not exposed; every exposed port has its domain; and if
the services ask for different domains, the table is the links of the services
visited so far, marked roots included, no more and no less (`OfServices`),
whatever their order. It speaks of the services in `up`, any subset of the
composition, each with its TCP ports. A round keeps it because a service that asks for other
domains than the rest overwrites none (`AllocateEffect`,
`AllocateAsDocumented`, `VisitLinks`). After the loop the table is that of all
services, and only the root by name is left: it leads to the first port of the
best name among those that expose one, which exists by the well-foundedness of
the numbers (`MinOfNaturals`, `RootByName`).

Each inductive invariant was also checked by TLC, on the instance of a safety
run of its module unless said otherwise.

Only model-checked: the liveness properties (`CallsReturn`, `Converges`,
`ShutdownEnds`, `ResolveReturns`, `InvalidationDone`, `TearDownEnds`,
`AllForOne`), since fairness and ENABLED are out of the prover's reach. Every
invariant and every action property of a passing run is stated by a theorem.

## 5. What was found

- `ingress_leaser`: `ErrDomainUsed` says "domain already used by group X"
  (`core/ingress/cached.go:110`) and is given the group that asks (`:62`).
- `poller_env`: `compose.Run` writes the merged environment back into the one
  of the pipeline (`packs/compose/compose.go:45`). In the next deployment the
  values of the old `.env` count as values "from core" and win over the new
  `.env`, against the comment at `:37`.
- `network_stale`: `dckr.Run` joins the network, which invalidates the cache,
  and then starts the container, which gives it its address. A request for the
  published container of another package that comes between the two fills the
  cache without it, and it is not resolved until somebody joins or leaves,
  against `core/interfaces.go:26-28`.
- `docker_dataloss`: every deployment restores the archive, also over a volume
  that is newer; `_docs/04_backup.md:17` says that it is done before the first
  run.

Four more formulas state what the documentation or a comment says and do not
hold. No configuration has them; put in the place of an invariant of
`Network_stale.cfg` or `Process_run.cfg`, TLC finds each violated.

- `RestartedIsResolved` (`Network`): docker restarts a failed container, as
  `dckr.Run` asks it to (`packs/dckr/daemon.go:181-183`), at whatever address is
  free, and the cache keeps the old one until somebody joins or leaves, against
  `core/interfaces.go:26-28` again.
- `RejoinedIsResolved` (`Network`): the deferred `Leave` of `compose.Run` has the
  context that `Stop` has cancelled (`packs/compose/compose.go:179`), so the
  containers stay in the network, against the comment at `:178`; the `Join` of
  the next deployment finds them there and does not invalidate the cache, which
  has their old addresses, or none.
- `PortsLinked` (`Process`): `_docs/03_docker-compose.md:6` says that all ports
  in the `ports` directive are linked; `compose.Run` skips those that are not TCP
  (`packs/compose/compose.go:158`).
- `ServicesLinked` (`Process`): it also skips the services that are not running
  when their containers are listed (`:268`), and is ready all the same.

Seen by reading, outside of what is modelled: `environment` merges no variable
of the system (`len(kv) != 0` at `cmd/git-pipe/command_run.go:270` holds for
all), which `_docs/07_environment.md:8` gives the highest priority;
`hijackedWrapper` copies the `writeWrapper`, so that a second status is written
and the first one not logged (`core/ingress/embedded/router.go:143`, `:171`).

## 6. Not modelled

- *Cloudflare.* `cf.Config.Domain` has no flag and nothing sets it, so `New` asks
  for the zone of the empty name and the loop of `Register` is not reached. In
  the models it is the provider that answers or fails.
- *Names and environments* (`generateSimpleName`, `generateFullName`, `ToDomain`,
  `environment`, `filterEnvironment`) are pure functions on the characters of
  paths and variables, and a model would be their transcription. That two
  repositories may get one name is an input of `Ingress`; that an
  environment outlives its deployment is in `Poller`.
- *HTTP*: the index page, status codes and headers, the rewriting of paths, the
  body of a request, TLS and certificates (`GracefulShutdown` is never read). A
  server serves, fails or closes in `Process`.
- *The JWT command, logging, the command runner, events* are I/O without state of
  their own. `dummy` ingress, `nobackup` and `noregister` keep nothing.
- *Providers of backups*: one archive that is replaced in one step and may be
  seen later. The calls of S3, the encryption and the temporary files belong to
  the steps that use them.
- *The docker network itself* is created once before anything else; `Network`
  begins after that.

In the modelled parts, names, URLs, credentials, labels, build contexts and
archive formats are abstracted away.
