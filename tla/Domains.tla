------------------------------ MODULE Domains ------------------------------
(***************************************************************************)
(* The domains of a package: how compose.Run and dckr.Run turn services    *)
(* and ports into the table they hand to the ingress.  A domain is the     *)
(* label and the port before the name of the package, "" and None if there *)
(* is none: the root is the package itself, At("web", None) a service of   *)
(* it.  Labels have no dots: "80.web" is the port of a service, never its  *)
(* name.                                                                   *)
(*                                                                         *)
(* compose.Run goes through its services in the order of a Go map, which   *)
(* is any order, and a later service overwrites what an earlier one has.   *)
(***************************************************************************)
EXTENDS Naturals, SequencesExt

CONSTANT None

ASSUME DomainsAssumption == None \notin Nat

\* A service of the file: its domainname attribute, "" if it has none, its
\* ports in the order of the file, and whether it is marked x-root.
Service == [name : STRING, domainname : STRING,
            ports : Seq([target : Nat, tcp : BOOLEAN]), root : BOOLEAN]

\* What the code makes of it: only its TCP ports are left, each at its place.
TcpPart(s) ==
    [s EXCEPT !.ports = [i \in {j \in DOMAIN s.ports : s.ports[j].tcp} |-> s.ports[i]]]

At(label, port) == [label |-> label, port |-> port]
Root == At("", None)
PortsPriority == <<80, 8080>>
NamePriority == <<"www", "web", "gateway">>

NoLinks == [d \in {} |-> Root]

\* An assignment to a map, and one that keeps what is there.
Put(links, domain, target) ==
    [d \in DOMAIN links \cup {domain} |-> IF d = domain THEN target ELSE links[d]]
PutNew(links, domain, target) ==
    IF domain \in DOMAIN links THEN links ELSE Put(links, domain, target)

\* The ports of a service, and the first of them.
Ports(s) == {s.ports[i].target : i \in DOMAIN s.ports}
FirstPort(s) == s.ports[Min(DOMAIN s.ports)].target

Exposes(s) == Ports(s) # {}
Exposed(services) == {s \in services : Exposes(s)}

Label(s) == IF s.domainname # "" THEN s.domainname ELSE s.name
ServiceDomain(s) == At(Label(s), None)
PortDomain(s, port) == At(Label(s), port)
PortDomains(s) == {PortDomain(s, p) : p \in Ports(s)}

\* The containers of a service, at a port: what a domain leads to.
Links(s, port) == [service |-> s.name, port |-> port]

\* The best of a priority list that is in set S, if one is.
AnyOf(priority, S) == ToSet(priority) \cap S # {}
Best(priority, S) == priority[Min({i \in DOMAIN priority : priority[i] \in S})]

\* The root domain of a service: a priority port, whose link replaces an
\* older one, or else the first port, which does not.
WithServiceDomain(links, s) ==
    IF AnyOf(PortsPriority, Ports(s))
      THEN Put(links, ServiceDomain(s), links[PortDomain(s, Best(PortsPriority, Ports(s)))])
      ELSE PutNew(links, ServiceDomain(s), links[PortDomain(s, FirstPort(s))])

\* The ports of a service, each under its own domain.
WithPorts(links, s) ==
    [d \in DOMAIN links \cup PortDomains(s) |->
        IF d \in PortDomains(s) THEN Links(s, d.port) ELSE links[d]]

\* One round of the loop over the services.
Allocate(links, s) ==
    LET named == WithServiceDomain(WithPorts(links, s), s)
    IN  IF ~Exposes(s) THEN links
        ELSE IF s.root THEN Put(named, Root, Links(s, FirstPort(s)))
        ELSE named

\* selectRootDomain: the service with the best name.
ExposedNames(services) == {s.name : s \in Exposed(services)}
Suggested(services) ==
    CHOOSE s \in Exposed(services) : s.name = Best(NamePriority, ExposedNames(services))

\* Its first port.
SuggestedLink(links, services) ==
    links[PortDomain(Suggested(services), FirstPort(Suggested(services)))]

\* Mutant: the name decides though a service is marked x-root.
WithRootByName(links, services) ==
    IF ~AnyOf(NamePriority, ExposedNames(services)) THEN links
    ELSE Put(links, Root, SuggestedLink(links, services))

\* The root domain of the package, unless a service is marked.
WithRoot(links, services) ==
    IF ~AnyOf(NamePriority, ExposedNames(services)) THEN links
    ELSE PutNew(links, Root, SuggestedLink(links, services))

\* exposedServices of dckr.Run: one container, whose root is a priority port
\* or, in the order of a map again, any port.
DockerTables(s) ==
    LET ports == [d \in {At("", p) : p \in Ports(s)} |-> Links(s, d.port)]
        roots == IF AnyOf(PortsPriority, Ports(s)) THEN {Best(PortsPriority, Ports(s))}
                 ELSE Ports(s)
    IN  IF ~Exposes(s) THEN {NoLinks}
        ELSE {Put(ports, Root, Links(s, root)) : root \in roots}

-----------------------------------------------------------------------------
(* The same as the documentation tells it (_docs/03_docker-compose.md): all *)
(* ports of all services.                                                  *)

\* No two services of the package want one domain.
Distinct(services) ==
    /\ \A s, t \in services : Label(s) = Label(t) => s = t
    /\ \A s, t \in services : s.root /\ t.root => s = t

\* "First services with attribute x-root: yes or with name www, web, gateway".
Marked(services) == {s \in Exposed(services) : s.root}
Rank(s) == CHOOSE i \in DOMAIN NamePriority : NamePriority[i] = s.name
RootServices(services) ==
    LET named == {s \in Exposed(services) : s.name \in ToSet(NamePriority)}
    IN  IF Marked(services) # {} THEN Marked(services)
        ELSE {s \in named : \A t \in named : Rank(s) <= Rank(t)}

\* "Root port for service picked by the same rules as for docker", or "the first
\* port in array".
RootPort(s) ==
    IF 80 \in Ports(s) THEN 80
    ELSE IF 8080 \in Ports(s) THEN 8080
    ELSE FirstPort(s)

\* Sets of links, each a domain and where it leads to.
Table(links) == {<<d, links[d]>> : d \in DOMAIN links}

\* "All ports in `ports` directive will be linked", and the service by itself.
OfService(s) == {<<PortDomain(s, p), Links(s, p)>> : p \in Ports(s)}
                  \cup {<<ServiceDomain(s), Links(s, RootPort(s))>>}

\* "Root domain: ... points to `web` service ..., first port in array".
RootLinks(roots) == {<<Root, Links(s, FirstPort(s))>> : s \in roots}

Documented(services) ==
    (UNION {OfService(s) : s \in Exposed(services)}) \cup RootLinks(RootServices(services))

\* No domain leads to a port that no service has.
LeadsToPorts(links, services) ==
    \A d \in DOMAIN links : \E s \in services : \E p \in Ports(s) : links[d] = Links(s, p)
=============================================================================
