------------------------------ MODULE Process ------------------------------
(***************************************************************************)
(* The process: CommandRun.Execute (cmd/git-pipe/command_run.go) starts    *)
(* the router and one pipeline per repository in goroutines of one group,  *)
(* each of which cancels the context of all when it ends, and waits for    *)
(* the group.  Pipelines deploy packages (Poller and the package modules   *)
(* have the details), allocate the domains of Domains, publish them and    *)
(* register them in DNS; with path routing the DNS provider is asked for   *)
(* the one root domain, by whoever comes first                             *)
(* (core/dns/singlehost/singlehost.go).                                    *)
(*                                                                         *)
(* The provider is external: it answers or fails.                          *)
(***************************************************************************)
EXTENDS Domains

CONSTANTS Repo,         \* repositories on the command line
          Project       \* what a commit may hold: [kind, services]

\* The names of services are the keys of a map, and none is empty.
WellNamed(services) ==
    /\ \A s \in services : s.name # ""
    /\ \A s, t \in services : s.name = t.name => s = t

\* An image is one service.
ASSUME ProcessAssumption ==
    /\ None \notin Repo \cup Project
    /\ \A p \in Project :
         /\ p.kind \in {"compose", "docker"} /\ p.services \subseteq Service
         /\ p.kind = "compose" => WellNamed(p.services)
         /\ p.kind = "docker" => \E s \in p.services : p.services = {s}

VARIABLES
    flags,      \* the command line: [dummy, pathRouting]
    main,       \* where Execute is
    router,     \* the goroutine of the HTTP server
    pipe,       \* where the pipeline of each repository is
    cancelled,  \* the context of all
    project,    \* what each pipeline deploys, or None
    up,         \* its services that have containers, with their TCP ports
    todo,       \* those of them it has yet to give domains to
    links,      \* the table it builds and publishes, NoLinks if there is none
    lock,       \* singleHost.lock: the pipeline that holds it, or None
    registered, \* singleHost.registered
    host,       \* provider: the host is registered
    dns         \* provider: the domains each deployment has registered

dnsVars == <<lock, registered, host, dns>>
package == <<project, up>>
vars == <<flags, main, router, pipe, cancelled, package, todo, links, dnsVars>>

Init ==
    /\ flags \in [dummy : BOOLEAN, pathRouting : BOOLEAN]
    /\ main = "starting"
    /\ router = "absent"
    /\ pipe = [r \in Repo |-> "absent"]
    /\ cancelled = FALSE
    /\ project = [r \in Repo |-> None]
    /\ up = [r \in Repo |-> {}]
    /\ todo = [r \in Repo |-> {}] /\ links = [r \in Repo |-> NoLinks]
    /\ lock = None /\ registered = FALSE
    /\ host = FALSE /\ dns = [r \in Repo |-> {}]

Go(r, from, to) == pipe[r] = from /\ pipe' = [pipe EXCEPT ![r] = to]

\* Nothing happens in a process that has exited.
Running == main \in {"starting", "waiting"}

-----------------------------------------------------------------------------
(* Execute.                                                                *)

StartRouter ==
    /\ main = "starting" /\ ~flags.dummy /\ router = "absent"
    /\ router' = "serving"
    /\ UNCHANGED <<flags, main, pipe, cancelled, package, todo, links, dnsVars>>

RouterFirst == ~flags.dummy => router # "absent"

\* The loop over the repositories.
StartPipeline(r) ==
    /\ main = "starting" /\ RouterFirst
    /\ Go(r, "absent", "idle")
    /\ UNCHANGED <<flags, main, router, cancelled, package, todo, links, dnsVars>>

\* A malformed repository, or an environment file that cannot be read:
\* Execute returns, without waiting for those it has started.
GiveUp ==
    /\ main = "starting" /\ RouterFirst
    /\ \E r \in Repo : pipe[r] = "absent"
    /\ main' = "failed"
    /\ UNCHANGED <<flags, router, pipe, cancelled, package, todo, links, dnsVars>>

Wait ==
    /\ main = "starting" /\ RouterFirst
    /\ \A r \in Repo : pipe[r] # "absent"
    /\ main' = "waiting"
    /\ UNCHANGED <<flags, router, pipe, cancelled, package, todo, links, dnsVars>>

\* Mutant: the end of the context is enough.
ExitWhenCancelled ==
    /\ main = "waiting"
    /\ cancelled
    /\ main' = "exited"
    /\ UNCHANGED <<flags, router, pipe, cancelled, package, todo, links, dnsVars>>

\* wg.Wait returns.
Exit ==
    /\ main = "waiting"
    /\ router \in {"absent", "ended"}
    /\ \A r \in Repo : pipe[r] = "ended"
    /\ main' = "exited"
    /\ UNCHANGED <<flags, router, pipe, cancelled, package, todo, links, dnsVars>>

\* The signal context of main.go.
Interrupt ==
    /\ Running /\ ~cancelled
    /\ cancelled' = TRUE
    /\ UNCHANGED <<flags, main, router, pipe, package, todo, links, dnsVars>>

\* Mutant: the goroutine of the router does not cancel.
RouterFailsAlone ==
    /\ Running /\ router = "serving"
    /\ router' = "ended"
    /\ UNCHANGED <<flags, main, pipe, cancelled, package, todo, links, dnsVars>>

\* The server cannot listen, or fails later; the goroutine cancels all.
RouterFails ==
    /\ Running /\ router = "serving"
    /\ router' = "ended"
    /\ cancelled' = TRUE
    /\ UNCHANGED <<flags, main, pipe, package, todo, links, dnsVars>>

\* The server is closed with the context.
RouterCloses ==
    /\ Running /\ router = "serving" /\ cancelled
    /\ router' = "ended"
    /\ UNCHANGED <<flags, main, pipe, cancelled, package, todo, links, dnsVars>>

ExecuteNext == StartRouter \/ Wait \/ Exit \/ RouterCloses

-----------------------------------------------------------------------------
(* A pipeline.                                                             *)

\* mapContainers lists the services whose containers run at that moment: one
\* that has ended is left out, and nobody is told.  An image is one service.
Listed(p) ==
    IF p.kind = "compose" THEN {{TcpPart(s) : s \in running} : running \in SUBSET p.services}
    ELSE {{TcpPart(s) : s \in p.services}}

\* A poll finds something to deploy: the first commit, a new one, or the same
\* after a failure.  It is built and brought up, and some of it goes on running.
Deploy(r) ==
    /\ Running /\ ~cancelled
    /\ Go(r, "idle", "deploying")
    /\ \E p \in Project : \E services \in Listed(p) :
         /\ project' = [project EXCEPT ![r] = p]
         /\ up' = [up EXCEPT ![r] = services]
         /\ todo' = [todo EXCEPT ![r] = IF p.kind = "compose" THEN services ELSE {}]
    /\ UNCHANGED <<flags, main, router, cancelled, links, dnsVars>>

\* The package fails before it is published, or is cancelled.
DeployFails(r) ==
    /\ Running
    /\ Go(r, "deploying", "idle")
    /\ project' = [project EXCEPT ![r] = None] /\ up' = [up EXCEPT ![r] = {}]
    /\ todo' = [todo EXCEPT ![r] = {}]
    /\ links' = [links EXCEPT ![r] = NoLinks]
    /\ UNCHANGED <<flags, main, router, cancelled, dnsVars>>

\* compose.Run: one round of the loop over a map, whatever comes next in it.
Visit(r) ==
    /\ Running /\ pipe[r] = "deploying"
    /\ \E s \in todo[r] :
         /\ todo' = [todo EXCEPT ![r] = @ \ {s}]
         /\ links' = [links EXCEPT ![r] = Allocate(@, s)]
    /\ UNCHANGED <<flags, main, router, pipe, cancelled, package, dnsVars>>

\* What the package may hand to the ingress.
Tables(r) ==
    IF project[r].kind = "compose" THEN {WithRoot(links[r], up[r])}
    ELSE UNION {DockerTables(s) : s \in up[r]}

\* Ingress.Set; it does not look at the context.
Publish(r) ==
    /\ Running /\ todo[r] = {}
    /\ Go(r, "deploying", "published")
    /\ \E t \in Tables(r) : links' = [links EXCEPT ![r] = t]
    /\ UNCHANGED <<flags, main, router, cancelled, package, todo, dnsVars>>

\* Register without path routing: the provider is asked at once.
Register(r) ==
    /\ Running /\ ~flags.pathRouting
    /\ Go(r, "published", "ready")
    /\ dns' = [dns EXCEPT ![r] = DOMAIN links[r]]
    /\ UNCHANGED <<flags, main, router, cancelled, package, todo, links, lock, registered, host>>

RegisterFails(r) ==
    /\ Running /\ ~flags.pathRouting
    /\ Go(r, "published", "clearing")
    /\ UNCHANGED <<flags, main, router, cancelled, package, todo, links, dnsVars>>

\* Register with path routing reads registered without the lock: what another
\* goroutine has written there may or may not be seen.
SeesRegistered(r) ==
    /\ Running /\ flags.pathRouting /\ registered
    /\ Go(r, "published", "ready")
    /\ UNCHANGED <<flags, main, router, cancelled, package, todo, links, dnsVars>>

SeesUnregistered(r) ==
    /\ Running /\ flags.pathRouting
    /\ Go(r, "published", "locking")
    /\ UNCHANGED <<flags, main, router, cancelled, package, todo, links, dnsVars>>

LockHost(r) ==
    /\ Running
    /\ Go(r, "locking", "locked")
    /\ lock = None
    /\ lock' = r
    /\ UNCHANGED <<flags, main, router, cancelled, package, todo, links, registered, host, dns>>

\* Somebody has registered the host meanwhile.
AlreadyRegistered(r) ==
    /\ Running /\ registered
    /\ Go(r, "locked", "ready")
    /\ lock' = None
    /\ UNCHANGED <<flags, main, router, cancelled, package, todo, links, registered, host, dns>>

\* Mutants: the second look is left out; the flag is set before the answer.
CallUnchecked(r) ==
    /\ Running
    /\ Go(r, "locked", "calling")
    /\ UNCHANGED <<flags, main, router, cancelled, package, todo, links, dnsVars>>

CallEarly(r) ==
    /\ Running /\ ~registered
    /\ Go(r, "locked", "calling")
    /\ registered' = TRUE
    /\ UNCHANGED <<flags, main, router, cancelled, package, todo, links, lock, host, dns>>

\* The provider is asked with the lock held.
Call(r) ==
    /\ Running /\ ~registered
    /\ Go(r, "locked", "calling")
    /\ UNCHANGED <<flags, main, router, cancelled, package, todo, links, dnsVars>>

CallReturns(r) ==
    /\ Running
    /\ Go(r, "calling", "ready")
    /\ host' = TRUE
    /\ registered' = TRUE
    /\ lock' = None
    /\ UNCHANGED <<flags, main, router, cancelled, package, todo, links, dns>>

CallFails(r) ==
    /\ Running
    /\ Go(r, "calling", "clearing")
    /\ lock' = None
    /\ UNCHANGED <<flags, main, router, cancelled, package, todo, links, registered, host, dns>>

\* The package is stopped: its commit is replaced, or all are cancelled.
Stop(r) ==
    /\ Running
    /\ Go(r, "ready", "clearing")
    /\ UNCHANGED <<flags, main, router, cancelled, package, todo, links, dnsVars>>

\* Ingress.Clear, and the rest of what the package has deferred; its records
\* stay in DNS, and nobody relies on them any more.
Clear(r) ==
    /\ Running
    /\ Go(r, "clearing", "idle")
    /\ links' = [links EXCEPT ![r] = NoLinks]
    /\ project' = [project EXCEPT ![r] = None] /\ up' = [up EXCEPT ![r] = {}]
    /\ dns' = [dns EXCEPT ![r] = {}]
    /\ UNCHANGED <<flags, main, router, cancelled, todo, lock, registered, host>>

\* The poller leaves its loop.
End(r) ==
    /\ Running /\ cancelled
    /\ Go(r, "idle", "ended")
    /\ UNCHANGED <<flags, main, router, cancelled, package, todo, links, dnsVars>>

\* What is under way comes to an end, whatever the end is.
Proceed(r) ==
    \/ Visit(r) \/ Publish(r) \/ DeployFails(r) \/ Register(r) \/ RegisterFails(r)
    \/ SeesRegistered(r) \/ SeesUnregistered(r) \/ AlreadyRegistered(r)
    \/ Call(r) \/ CallReturns(r) \/ CallFails(r) \/ Clear(r) \/ End(r)

Next == \/ ExecuteNext \/ GiveUp \/ Interrupt \/ RouterFails
        \/ \E r \in Repo : \/ StartPipeline(r) \/ Deploy(r) \/ LockHost(r)
                           \/ Stop(r) \/ Proceed(r)

Spec == Init /\ [][Next]_vars

\* Goroutines run, the provider answers, packages end when they are cancelled
\* and the mutex starves nobody.  Nothing need be deployed or fail, nobody
\* need interrupt.
Fairness ==
    /\ WF_vars(ExecuteNext)
    /\ \A r \in Repo : /\ WF_vars(StartPipeline(r)) /\ WF_vars(Proceed(r))
                       /\ WF_vars(cancelled /\ Stop(r)) /\ SF_vars(LockHost(r))

FairSpec == Spec /\ Fairness

-----------------------------------------------------------------------------
Services == {TcpPart(s) : s \in UNION {p.services : p \in Project}}

TypeOK ==
    /\ flags \in [dummy : BOOLEAN, pathRouting : BOOLEAN]
    /\ main \in {"starting", "waiting", "exited", "failed"}
    /\ router \in {"absent", "serving", "ended"}
    /\ pipe \in [Repo -> {"absent", "idle", "deploying", "published", "locking", "locked",
                          "calling", "ready", "clearing", "ended"}]
    /\ cancelled \in BOOLEAN
    /\ project \in [Repo -> Project \cup {None}]
    /\ up \in [Repo -> SUBSET Services] /\ todo \in [Repo -> SUBSET Services]
    /\ lock \in Repo \cup {None} /\ registered \in BOOLEAN /\ host \in BOOLEAN

\* The lock is held by whoever asks the provider, and by nobody else: every
\* way out of Register gives it back.
LockHeld == \A r \in Repo : lock = r <=> pipe[r] \in {"locked", "calling"}

\* A package is ready only when its domains are registered, or the host is:
\* one that finds the flag set relies on what another pipeline has done.
ReadyIsRegistered ==
    \A r \in Repo :
        pipe[r] = "ready" => IF flags.pathRouting THEN host ELSE dns[r] = DOMAIN links[r]

\* With path routing the provider is asked no more once it has registered the
\* host, though pipelines look at the flag without the lock.
AskedOnce == \A r \in Repo : pipe[r] = "calling" => ~host

\* When the process has waited for its goroutines, no package is left behind:
\* nothing is published and nobody deploys.
NoneAbandoned ==
    main = "exited" =>
        /\ router # "serving"
        /\ \A r \in Repo : pipe[r] \in {"absent", "ended"} /\ links[r] = NoLinks

\* Where a package has a table in the ingress that it relies on.
Placed == {"published", "locking", "locked", "calling", "ready"}

\* Whatever order a map gives them in: a composition whose services ask for
\* different domains publishes the documented links of the TCP ports of the
\* services that run, and no others (the documentation speaks of all ports of
\* all services: see PortsLinked and ServicesLinked); an image has its root at a
\* priority port; and no domain, not even one that several services ask for,
\* leads to a port that no running service has.
AsDocumented(r) ==
    /\ LeadsToPorts(links[r], up[r])
    /\ project[r].kind = "compose" /\ Distinct(up[r]) => Table(links[r]) = Documented(up[r])
    /\ project[r].kind = "docker" =>
         \A s \in Exposed(up[r]) :
             RootPort(s) \in ToSet(PortsPriority) => links[r][Root] = Links(s, RootPort(s))

LinksAsDocumented == \A r \in Repo : pipe[r] \in Placed => AsDocumented(r)

\* _docs/03_docker-compose.md: "All ports in `ports` directive will be linked
\* as sub-domains", in any composition whose services all run.
PortsLinked ==
    \A r \in Repo :
        /\ pipe[r] = "ready" /\ project[r].kind = "compose"
        /\ up[r] = {TcpPart(s) : s \in project[r].services}
        => \A s \in project[r].services : PortDomains(s) \subseteq DOMAIN links[r]

\* The same of all services, and of their TCP ports only: a composition that is
\* ready has linked each of them, also a service whose container had ended when
\* the containers were listed.
ServicesLinked ==
    \A r \in Repo :
        pipe[r] = "ready" /\ project[r].kind = "compose" =>
            \A s \in project[r].services : PortDomains(TcpPart(s)) \subseteq DOMAIN links[r]

\* An interrupt, a router that fails and a pipeline that ends each end the
\* whole process, though the others may be waiting for a lock, for DNS or for
\* nothing at all.
AllForOne ==
    cancelled \/ router = "ended" \/ (\E r \in Repo : pipe[r] = "ended")
        ~> main \in {"exited", "failed"}

\* What makes ReadyIsRegistered and NoneAbandoned inductive.

\* The flag tells the truth about the provider.
HostKnown == registered = host

\* Only with path routing is there a lock to take.
OnPath == \A r \in Repo : pipe[r] \in {"locking", "locked", "calling"} => flags.pathRouting

\* A pipeline that deploys nothing has published nothing.
Unpublished == \A r \in Repo : pipe[r] \in {"absent", "idle", "ended"} => links[r] = NoLinks

Entries == links = [r \in Repo |-> links[r]] /\ dns = [r \in Repo |-> dns[r]]

\* The inductive invariant.
PInv == /\ TypeOK /\ Entries /\ LockHeld /\ HostKnown /\ OnPath /\ Unpublished
        /\ ReadyIsRegistered /\ AskedOnce /\ NoneAbandoned

\* What makes LinksAsDocumented inductive.

\* The documented links of some services, where only a marked one is the root.
OfServices(services) ==
    (UNION {OfService(s) : s \in Exposed(services)}) \cup RootLinks(Marked(services))

Visited(r) == up[r] \ todo[r]

\* There is a project to deploy, of which some services may be left.
Deploying(r) ==
    /\ project[r] \in Project /\ up[r] \in Listed(project[r]) /\ todo[r] \subseteq up[r]
    /\ project[r].kind = "docker" => todo[r] = {}

\* The loop so far: no domain leads to a port that no service has, no port of
\* a service it has been at has lost its domain, and, if nothing overwrites
\* anything, the table is the documented one of those services.
LoopSoFar(r) ==
    /\ LeadsToPorts(links[r], up[r])
    /\ project[r].kind = "compose" =>
         \A s \in Visited(r) : \A p \in Ports(s) : PortDomain(s, p) \in DOMAIN links[r]
    /\ project[r].kind = "compose" /\ Distinct(up[r]) =>
         Table(links[r]) = OfServices(Visited(r))

LInv ==
    /\ \A r \in Repo : pipe[r] \in Placed \cup {"deploying"} => Deploying(r)
    /\ \A r \in Repo : pipe[r] = "deploying" => LoopSoFar(r)
    /\ LinksAsDocumented
=============================================================================
