--------------------------- MODULE ProcessProofs ---------------------------
(***************************************************************************)
(* Proofs about Process for any repositories, projects and orders of the   *)
(* services in them: which domains a package is published under, what a    *)
(* pipeline that is ready relies on in DNS, how often the provider is      *)
(* asked, and what the process leaves behind.                              *)
(***************************************************************************)
EXTENDS Process, WellFoundedInduction, TLAPS

-----------------------------------------------------------------------------
(* Domains: ports and names.                                               *)

\* A set of numbers has a least one: the naturals are well-founded.
LEMMA MinOfNaturals ==
  ASSUME NEW S, S \subseteq Nat, S # {}
  PROVE  Min(S) \in S /\ \A y \in S : Min(S) <= y
<1>1. PICK x \in S : \A y \in S : ~ (<<y, x>> \in OpToRel(<, Nat))
  BY WFMin, NatLessThanWellFounded
<1>2. ASSUME NEW y \in S PROVE x <= y
  <2>1. <<y, x>> \in OpToRel(<, Nat) <=> y < x
    <3>1. <<y, x>> \in Nat \X Nat /\ <<y, x>>[1] = y /\ <<y, x>>[2] = x
      OBVIOUS
    <3> QED
      BY <3>1, Zenon DEF OpToRel
  <2>2. ~ (y < x)
    BY <1>1, <2>1, Zenon
  <2>3. x \in Nat /\ y \in Nat
    OBVIOUS
  <2> QED
    BY <2>2, <2>3
<1> QED
  BY <1>2 DEF Min

\* Best finds the first of a priority list that is in the set.
LEMMA BestIsBest ==
  ASSUME NEW priority, DOMAIN priority \subseteq Nat, NEW S, AnyOf(priority, S)
  PROVE  \E i \in DOMAIN priority :
           /\ Best(priority, S) = priority[i] /\ priority[i] \in S
           /\ \A j \in DOMAIN priority : priority[j] \in S => i <= j
<1> DEFINE I == {i \in DOMAIN priority : priority[i] \in S}
<1>1. I \subseteq Nat /\ I # {}
  BY DEF AnyOf, ToSet
<1>2. Min(I) \in I /\ \A y \in I : Min(I) <= y
  BY <1>1, MinOfNaturals
<1> QED
  BY <1>2 DEF Best

\* The elements of a sequence.
LEMMA ElementOf ==
  ASSUME NEW R, NEW q \in Seq(R)
  PROVE  DOMAIN q \subseteq Nat /\ \A i \in DOMAIN q : q[i] \in R
OBVIOUS

\* A service with some of its ports, each at its place.
Seen == [name : STRING, domainname : STRING,
         ports : UNION {[places -> [target : Nat, tcp : BOOLEAN]] : places \in SUBSET Nat},
         root : BOOLEAN]

\* What the filter does to a service.
LEMMA TcpPartIsSeen ==
  ASSUME NEW s \in Service
  PROVE  /\ TcpPart(s) \in Seen
         /\ TcpPart(s).name = s.name /\ Label(TcpPart(s)) = Label(s)
<1> DEFINE places == {j \in DOMAIN s.ports : s.ports[j].tcp}
           ports == [i \in places |-> s.ports[i]]
<1>1. s.ports \in Seq([target : Nat, tcp : BOOLEAN])
  BY DEF Service
<1>2. places \subseteq Nat /\ \A i \in places : s.ports[i] \in [target : Nat, tcp : BOOLEAN]
  BY <1>1, ElementOf
<1>3. ports \in [places -> [target : Nat, tcp : BOOLEAN]]
  BY <1>2
<1> HIDE DEF places, ports
<1>4. TcpPart(s) = [s EXCEPT !.ports = ports]
  BY DEF TcpPart, ports, places
<1>5. /\ TcpPart(s).name = s.name /\ TcpPart(s).domainname = s.domainname
      /\ TcpPart(s) = [name |-> s.name, domainname |-> s.domainname, ports |-> ports, root |-> s.root]
  BY <1>4 DEF Service
<1>6. s.name \in STRING /\ s.domainname \in STRING /\ s.root \in BOOLEAN
  BY DEF Service
<1>7. ports \in UNION {[some -> [target : Nat, tcp : BOOLEAN]] : some \in SUBSET Nat}
  BY <1>2, <1>3
<1>8. TcpPart(s) \in Seen
  BY <1>5, <1>6, <1>7 DEF Seen
<1>9. Label(TcpPart(s)) = Label(s)
  BY <1>5 DEF Label
<1> QED
  BY <1>5, <1>8, <1>9

\* The ports of a service, by their places.
LEMMA PortsOfSeen ==
  ASSUME NEW s \in Seen
  PROVE  DOMAIN s.ports \subseteq Nat /\ \A i \in DOMAIN s.ports : s.ports[i].target \in Nat
<1>1. PICK places \in SUBSET Nat : s.ports \in [places -> [target : Nat, tcp : BOOLEAN]]
  BY DEF Seen
<1>2. DOMAIN s.ports = places /\ \A i \in places : s.ports[i] \in [target : Nat, tcp : BOOLEAN]
  BY <1>1
<1> QED
  BY <1>2

\* A service that exposes ports has a first one.
LEMMA FirstPortIsPort ==
  ASSUME NEW s \in Seen, Exposes(s)
  PROVE  FirstPort(s) \in Ports(s)
<1>1. DOMAIN s.ports \subseteq Nat /\ DOMAIN s.ports # {}
  BY PortsOfSeen DEF Exposes, Ports
<1>2. Min(DOMAIN s.ports) \in DOMAIN s.ports
  BY <1>1, MinOfNaturals
<1> QED
  BY <1>2 DEF Ports, FirstPort

\* A port is a number, so its domain is not that of the service.
LEMMA PortsAreNumbers ==
  ASSUME NEW s \in Seen, NEW p \in Ports(s)
  PROVE  p \in Nat /\ p # None
BY PortsOfSeen, DomainsAssumption DEF Ports

\* The documented root port is what the priority list finds, or the first port.
LEMMA RootPortIsBest ==
  ASSUME NEW s \in Seen
  PROVE  RootPort(s) = IF AnyOf(PortsPriority, Ports(s))
                         THEN Best(PortsPriority, Ports(s)) ELSE FirstPort(s)
<1>1. DOMAIN PortsPriority = 1..2 /\ PortsPriority[1] = 80 /\ PortsPriority[2] = 8080
  BY DEF PortsPriority
<1>2. AnyOf(PortsPriority, Ports(s)) <=> 80 \in Ports(s) \/ 8080 \in Ports(s)
  BY DEF AnyOf, ToSet, PortsPriority
<1>3. ASSUME AnyOf(PortsPriority, Ports(s)) PROVE RootPort(s) = Best(PortsPriority, Ports(s))
  <2>1. PICK i \in DOMAIN PortsPriority :
           /\ Best(PortsPriority, Ports(s)) = PortsPriority[i]
           /\ PortsPriority[i] \in Ports(s)
           /\ \A j \in DOMAIN PortsPriority : PortsPriority[j] \in Ports(s) => i <= j
    <3>1. DOMAIN PortsPriority \subseteq Nat
      BY <1>1
    <3> QED
      BY <3>1, <1>3, BestIsBest
  <2>2. (i = 1 \/ i = 2) /\ 1 \in DOMAIN PortsPriority /\ 2 \in DOMAIN PortsPriority
    BY <1>1
  <2> QED
    BY <1>1, <1>2, <1>3, <2>1, <2>2 DEF RootPort
<1> QED
  BY <1>2, <1>3 DEF RootPort

\* The root port is exposed.
LEMMA RootPortIsPort ==
  ASSUME NEW s \in Seen, Exposes(s)
  PROVE  RootPort(s) \in Ports(s)
BY FirstPortIsPort DEF RootPort

\* selectRootDomain finds an exposed service with the best name.
LEMMA SuggestedIsNamed ==
  ASSUME NEW services, AnyOf(NamePriority, ExposedNames(services))
  PROVE  /\ Suggested(services) \in Exposed(services)
         /\ Suggested(services).name = Best(NamePriority, ExposedNames(services))
<1>1. DOMAIN NamePriority \subseteq Nat
  BY DEF NamePriority
<1>2. Best(NamePriority, ExposedNames(services)) \in ExposedNames(services)
  BY <1>1, BestIsBest
<1> QED
  BY <1>2 DEF ExposedNames, Suggested

\* A name is in the priority list once.
LEMMA RankIsIndex ==
  ASSUME NEW s, s.name \in ToSet(NamePriority)
  PROVE  /\ Rank(s) \in 1..3 /\ NamePriority[Rank(s)] = s.name
         /\ \A i \in 1..3 : NamePriority[i] = s.name => i = Rank(s)
<1>1. DOMAIN NamePriority = 1..3
  BY DEF NamePriority
<1>2. \A i, j \in 1..3 : NamePriority[i] = NamePriority[j] => i = j
  <2>1. \A i \in 1..3 : i = 1 \/ i = 2 \/ i = 3
    OBVIOUS
  <2> QED
    BY <2>1 DEF NamePriority
<1>3. \E i \in 1..3 : NamePriority[i] = s.name
  BY <1>1 DEF ToSet
<1> QED
  BY <1>1, <1>2, <1>3 DEF Rank

\* Without a marked service the documented root is what selectRootDomain finds.
LEMMA RootByName ==
  ASSUME NEW services, WellNamed(services), Marked(services) = {}
  PROVE  RootServices(services) =
           IF AnyOf(NamePriority, ExposedNames(services)) THEN {Suggested(services)} ELSE {}
<1> DEFINE named == {s \in Exposed(services) : s.name \in ToSet(NamePriority)}
<1>1. RootServices(services) = {s \in named : \A t \in named : Rank(s) <= Rank(t)}
  BY DEF RootServices
<1>2. CASE ~ AnyOf(NamePriority, ExposedNames(services))
  <2>1. named = {}
    BY <1>2 DEF AnyOf, ExposedNames
  <2> QED
    BY <1>1, <1>2, <2>1
<1>3. CASE AnyOf(NamePriority, ExposedNames(services))
  <2> DEFINE best == Suggested(services)
  <2>1. DOMAIN NamePriority = 1..3
    BY DEF NamePriority
  <2>2. DOMAIN NamePriority \subseteq Nat
    BY <2>1
  <2>3. PICK i \in DOMAIN NamePriority :
           /\ Best(NamePriority, ExposedNames(services)) = NamePriority[i]
           /\ \A j \in DOMAIN NamePriority :
                NamePriority[j] \in ExposedNames(services) => i <= j
    BY <1>3, <2>2, BestIsBest
  <2>4. best \in named /\ best.name = NamePriority[i]
    BY <1>3, <2>3, SuggestedIsNamed DEF ToSet
  <2>5. Rank(best) = i
    BY <2>1, <2>4, RankIsIndex
  <2>6. ASSUME NEW t \in named
        PROVE  /\ i <= Rank(t)
               /\ Rank(t) = i => t = best
    <3>1. Rank(t) \in 1..3 /\ NamePriority[Rank(t)] = t.name
      BY RankIsIndex
    <3>2. t.name \in ExposedNames(services)
      BY DEF ExposedNames
    <3>3. t \in services /\ best \in services
      BY <2>4 DEF Exposed
    <3> QED
      BY <2>1, <2>3, <2>4, <3>1, <3>2, <3>3 DEF WellNamed
  <2>7. ASSUME NEW t \in named
        PROVE  (\A u \in named : Rank(t) <= Rank(u)) <=> t = best
    <3>1. Rank(t) \in 1..3
      BY RankIsIndex
    <3> HIDE DEF named, best
    <3> QED
      BY <2>1, <2>4, <2>5, <2>6, <3>1
  <2> HIDE DEF named, best
  <2>8. RootServices(services) = {best}
    BY <1>1, <2>4, <2>7
  <2> QED
    BY <1>3, <2>8 DEF best
<1> QED
  BY <1>2, <1>3

-----------------------------------------------------------------------------
\* Domains of services, of their ports and of the root fall together only if
\* the labels of the services do.
LEMMA DomainsDiffer ==
  ASSUME NEW s \in Seen, NEW t \in Seen
  PROVE  /\ ServiceDomain(t) \notin PortDomains(s) /\ Root \notin PortDomains(s)
         /\ \A d \in PortDomains(s) \cap PortDomains(t) : Label(s) = Label(t)
         /\ ServiceDomain(s) = ServiceDomain(t) => Label(s) = Label(t)
         /\ Label(s) # "" => ServiceDomain(s) # Root
<1>1. (\A p \in Ports(s) : p # None) /\ (\A q \in Ports(t) : q # None)
  BY PortsAreNumbers
<1>2. \A l, m, p, q : At(l, p) = At(m, q) => l = m /\ p = q
  <2> SUFFICES ASSUME NEW l, NEW m, NEW p, NEW q, At(l, p) = At(m, q) PROVE l = m /\ p = q
    OBVIOUS
  <2>1. At(l, p).label = l /\ At(l, p).port = p /\ At(m, q).label = m /\ At(m, q).port = q
    BY DEF At
  <2> QED
    BY <2>1
<1> QED
  BY <1>1, <1>2 DEF PortDomains, PortDomain, ServiceDomain, Root

\* What the domains of the ports do to the table.
LEMMA WithPortsEffect ==
  ASSUME NEW map, NEW s \in Seen
  PROVE  /\ DOMAIN WithPorts(map, s) = DOMAIN map \cup PortDomains(s)
         /\ \A p \in Ports(s) : WithPorts(map, s)[PortDomain(s, p)] = Links(s, p)
         /\ \A d \in DOMAIN map \ PortDomains(s) : WithPorts(map, s)[d] = map[d]
<1>1. \A p \in Ports(s) : PortDomain(s, p).port = p /\ PortDomain(s, p) \in PortDomains(s)
  BY DEF PortDomains, PortDomain, At
<1> QED
  BY <1>1 DEF WithPorts

\* What the domain of the service does to the table.
LEMMA WithServiceDomainEffect ==
  ASSUME NEW map, NEW s \in Seen, Exposes(s),
         \A p \in Ports(s) : map[PortDomain(s, p)] = Links(s, p)
  PROVE  /\ DOMAIN WithServiceDomain(map, s) = DOMAIN map \cup {ServiceDomain(s)}
         /\ \A d \in DOMAIN map \ {ServiceDomain(s)} :
              WithServiceDomain(map, s)[d] = map[d]
         /\ \/ WithServiceDomain(map, s)[ServiceDomain(s)] = Links(s, RootPort(s))
            \/ /\ ServiceDomain(s) \in DOMAIN map
               /\ WithServiceDomain(map, s)[ServiceDomain(s)] = map[ServiceDomain(s)]
<1> DEFINE table == Put(map, ServiceDomain(s), Links(s, RootPort(s)))
<1>1. \/ WithServiceDomain(map, s) = table
      \/ WithServiceDomain(map, s) = map /\ ServiceDomain(s) \in DOMAIN map
  <2>1. map[PortDomain(s, RootPort(s))] = Links(s, RootPort(s))
    BY RootPortIsPort
  <2> QED
    BY <2>1, RootPortIsBest DEF WithServiceDomain, PutNew
<1>2. /\ DOMAIN table = DOMAIN map \cup {ServiceDomain(s)}
      /\ table[ServiceDomain(s)] = Links(s, RootPort(s))
      /\ \A d \in DOMAIN map \ {ServiceDomain(s)} : table[d] = map[d]
  BY DEF Put
<1> HIDE DEF table
<1> QED
  BY <1>1, <1>2

\* What a round of the loop does to the table.
LEMMA AllocateEffect ==
  ASSUME NEW map, NEW s \in Seen, Exposes(s), Label(s) # ""
  PROVE  /\ \A d : d \in DOMAIN Allocate(map, s) <=>
                    \/ d \in DOMAIN map \cup PortDomains(s) \cup {ServiceDomain(s)}
                    \/ s.root /\ d = Root
         /\ \A p \in Ports(s) : Allocate(map, s)[PortDomain(s, p)] = Links(s, p)
         /\ \/ Allocate(map, s)[ServiceDomain(s)] = Links(s, RootPort(s))
            \/ /\ ServiceDomain(s) \in DOMAIN map
               /\ Allocate(map, s)[ServiceDomain(s)] = map[ServiceDomain(s)]
         /\ s.root => Allocate(map, s)[Root] = Links(s, FirstPort(s))
         /\ \A d \in DOMAIN map \ (PortDomains(s) \cup {ServiceDomain(s)}) :
              (s.root /\ d = Root) \/ Allocate(map, s)[d] = map[d]
<1> DEFINE ports == WithPorts(map, s)
           named == WithServiceDomain(ports, s)
           table == Allocate(map, s)
<1>2. ServiceDomain(s) \notin PortDomains(s) /\ Root \notin PortDomains(s) \cup {ServiceDomain(s)}
  BY DomainsDiffer
<1>3. \A q \in Ports(s) : PortDomain(s, q) \in PortDomains(s)
  BY DEF PortDomains
<1>4. /\ DOMAIN ports = DOMAIN map \cup PortDomains(s)
      /\ \A q \in Ports(s) : ports[PortDomain(s, q)] = Links(s, q)
      /\ \A d \in DOMAIN map \ PortDomains(s) : ports[d] = map[d]
  BY WithPortsEffect
<1>5. /\ DOMAIN named = DOMAIN ports \cup {ServiceDomain(s)}
      /\ \A d \in DOMAIN ports \ {ServiceDomain(s)} : named[d] = ports[d]
      /\ \/ named[ServiceDomain(s)] = Links(s, RootPort(s))
         \/ ServiceDomain(s) \in DOMAIN ports /\ named[ServiceDomain(s)] = ports[ServiceDomain(s)]
  <2> HIDE DEF ports
  <2> QED
    BY <1>4, WithServiceDomainEffect
<1>6. table = IF s.root THEN Put(named, Root, Links(s, FirstPort(s))) ELSE named
  BY DEF Allocate
<1> HIDE DEF ports, named, table
<1>7. CASE s.root
  <2>1. /\ DOMAIN table = DOMAIN named \cup {Root}
        /\ table[Root] = Links(s, FirstPort(s))
        /\ \A d \in DOMAIN named \ {Root} : table[d] = named[d]
    <3>1. table = Put(named, Root, Links(s, FirstPort(s)))
      BY <1>6, <1>7
    <3> QED
      BY <3>1 DEF Put
  <2> QED
    BY <1>2, <1>3, <1>4, <1>5, <1>7, <2>1 DEF table
<1>8. CASE ~ s.root
  BY <1>2, <1>3, <1>4, <1>5, <1>6, <1>8 DEF table
<1> QED
  BY <1>7, <1>8

-----------------------------------------------------------------------------
(* The loop.                                                               *)

\* A round adds no link to a port that is not exposed.
LEMMA AllocateLeadsToPorts ==
  ASSUME NEW map, NEW services, services \subseteq Seen, LeadsToPorts(map, services),
         NEW s \in services, Label(s) # ""
  PROVE  LeadsToPorts(Allocate(map, s), services)
<1> DEFINE new == Allocate(map, s)
<1>1. CASE ~ Exposes(s)
  BY <1>1 DEF Allocate
<1>2. CASE Exposes(s)
  <2>1. RootPort(s) \in Ports(s) /\ FirstPort(s) \in Ports(s)
    BY <1>2, RootPortIsPort, FirstPortIsPort
  <2>2. /\ \A d : d \in DOMAIN new <=>
                    \/ d \in DOMAIN map \cup PortDomains(s) \cup {ServiceDomain(s)}
                    \/ s.root /\ d = Root
        /\ \A p \in Ports(s) : new[PortDomain(s, p)] = Links(s, p)
        /\ \/ new[ServiceDomain(s)] = Links(s, RootPort(s))
           \/ /\ ServiceDomain(s) \in DOMAIN map
              /\ new[ServiceDomain(s)] = map[ServiceDomain(s)]
        /\ s.root => new[Root] = Links(s, FirstPort(s))
        /\ \A d \in DOMAIN map \ (PortDomains(s) \cup {ServiceDomain(s)}) :
             (s.root /\ d = Root) \/ new[d] = map[d]
    BY <1>2, AllocateEffect
  <2> HIDE DEF new
  <2>3. ASSUME NEW d \in DOMAIN new
        PROVE  (\E p \in Ports(s) : new[d] = Links(s, p)) \/ (d \in DOMAIN map /\ new[d] = map[d])
    <3>1. CASE d \in PortDomains(s)
      BY <2>2, <3>1 DEF PortDomains
    <3>2. CASE d = ServiceDomain(s)
      BY <2>1, <2>2, <3>2
    <3>3. CASE s.root /\ d = Root
      BY <2>1, <2>2, <3>3
    <3> QED
      BY <2>2, <3>1, <3>2, <3>3
  <2>4. LeadsToPorts(new, services)
    BY <2>3 DEF LeadsToPorts
  <2> QED
    BY <2>4 DEF new
<1> QED
  BY <1>1, <1>2

\* OfServices, link by link.
Leads(services, d, target) ==
    \E s \in Exposed(services) :
       \/ \E p \in Ports(s) : d = PortDomain(s, p) /\ target = Links(s, p)
       \/ d = ServiceDomain(s) /\ target = Links(s, RootPort(s))
       \/ s.root /\ d = Root /\ target = Links(s, FirstPort(s))

\* A table is OfServices if each of its links is.
LEMMA TableByLinks ==
  ASSUME NEW map, NEW services
  PROVE  Table(map) = OfServices(services) <=>
           \A d, target : d \in DOMAIN map /\ map[d] = target <=> Leads(services, d, target)
<1>1. \A l : l \in OfServices(services) <=>
              \E d, target : l = <<d, target>> /\ Leads(services, d, target)
  <2>1. \A s, l : l \in OfService(s) <=>
                \/ \E p \in Ports(s) : l = <<PortDomain(s, p), Links(s, p)>>
                \/ l = <<ServiceDomain(s), Links(s, RootPort(s))>>
    BY DEF OfService
  <2>2. \A l : l \in RootLinks(Marked(services)) <=>
                \E s \in Exposed(services) : s.root /\ l = <<Root, Links(s, FirstPort(s))>>
    BY DEF RootLinks, Marked
  <2>3. \A l : l \in OfServices(services) <=>
                \E s \in Exposed(services) :
                   l \in OfService(s) \/ (s.root /\ l = <<Root, Links(s, FirstPort(s))>>)
    BY <2>2 DEF OfServices
  <2> QED
    BY <2>1, <2>3 DEF Leads
<1>2. \A l : l \in Table(map) <=> \E d \in DOMAIN map : l = <<d, map[d]>>
  BY DEF Table
<1>3. \A d, e, target, goal : <<d, target>> = <<e, goal>> => d = e /\ target = goal
  OBVIOUS
<1>4. ASSUME Table(map) = OfServices(services), NEW d, NEW target
      PROVE  d \in DOMAIN map /\ map[d] = target <=> Leads(services, d, target)
  <2>1. d \in DOMAIN map /\ map[d] = target <=> <<d, target>> \in Table(map)
    BY <1>2, <1>3
  <2>2. Leads(services, d, target) <=> <<d, target>> \in OfServices(services)
    BY <1>1, <1>3
  <2> QED
    BY <1>4, <2>1, <2>2
<1>5. ASSUME \A d, target : d \in DOMAIN map /\ map[d] = target <=> Leads(services, d, target)
      PROVE  Table(map) = OfServices(services)
  BY <1>1, <1>2, <1>5
<1> QED
  BY <1>4, <1>5

\* A round for a service that shares no domain with the others adds the
\* documented links of that service, and overwrites none.
LEMMA AllocateAsDocumented ==
  ASSUME NEW services, services \subseteq Seen, Distinct(services),
         \A t \in services : Label(t) # "",
         NEW visited, visited \subseteq services, NEW s \in services \ visited,
         NEW map, Table(map) = OfServices(visited)
  PROVE  Table(Allocate(map, s)) = OfServices(visited \cup {s})
<1> DEFINE new == Allocate(map, s)
<1>1. \A d, target : d \in DOMAIN map /\ map[d] = target <=> Leads(visited, d, target)
  BY TableByLinks
<1>2. CASE ~ Exposes(s)
  <2>1. new = map /\ Exposed(visited \cup {s}) = Exposed(visited)
    BY <1>2 DEF Allocate, Exposed
  <2> QED
    BY <2>1 DEF OfServices, Marked
<1>3. CASE Exposes(s)
  <2>1. Exposed(visited \cup {s}) = Exposed(visited) \cup {s}
    BY <1>3 DEF Exposed
  <2>2. ASSUME NEW t \in Exposed(visited)
        PROVE  /\ t \in Seen /\ Exposes(t) /\ Label(t) # Label(s) /\ Label(t) # ""
               /\ ~ (t.root /\ s.root)
    BY DEF Exposed, Distinct
  \* What the new service wants, nobody had.
  <2>3. \A d \in DOMAIN map :
          d \notin PortDomains(s) /\ d # ServiceDomain(s) /\ ~ (s.root /\ d = Root)
    <3> SUFFICES ASSUME NEW d \in DOMAIN map
                 PROVE  d \notin PortDomains(s) /\ d # ServiceDomain(s) /\ ~ (s.root /\ d = Root)
      OBVIOUS
    <3>1. Leads(visited, d, map[d])
      BY <1>1
    <3>2. PICK t \in Exposed(visited) :
             (\E p \in Ports(t) : d = PortDomain(t, p)) \/ d = ServiceDomain(t) \/ (t.root /\ d = Root)
      BY <3>1 DEF Leads
    <3>3. t \in Seen /\ Label(t) # Label(s) /\ Label(t) # "" /\ ~ (t.root /\ s.root)
      BY <2>2
    <3>4. Root \notin PortDomains(s) /\ Root # ServiceDomain(s)
      BY DomainsDiffer
    <3>5. \A e \in PortDomains(t) : e \notin PortDomains(s) /\ e # ServiceDomain(s) /\ e # Root
      BY <3>3, DomainsDiffer
    <3>6. /\ ServiceDomain(t) \notin PortDomains(s)
          /\ ServiceDomain(t) # ServiceDomain(s) /\ ServiceDomain(t) # Root
      BY <3>3, DomainsDiffer
    <3>7. d \in PortDomains(t) \/ d = ServiceDomain(t) \/ (t.root /\ d = Root)
      BY <3>2 DEF PortDomains
    <3> QED
      BY <3>3, <3>4, <3>5, <3>6, <3>7
  <2>4. /\ \A d : d \in DOMAIN new <=>
                    \/ d \in DOMAIN map \cup PortDomains(s) \cup {ServiceDomain(s)}
                    \/ s.root /\ d = Root
        /\ \A p \in Ports(s) : new[PortDomain(s, p)] = Links(s, p)
        /\ new[ServiceDomain(s)] = Links(s, RootPort(s))
        /\ s.root => new[Root] = Links(s, FirstPort(s))
        /\ \A d \in DOMAIN map : new[d] = map[d]
    BY <1>3, <2>3, AllocateEffect
  <2> HIDE DEF new
  <2>5. ASSUME NEW d, NEW target
        PROVE  d \in DOMAIN new /\ new[d] = target <=> Leads(visited \cup {s}, d, target)
    <3>1. Leads(visited \cup {s}, d, target) <=>
             \/ Leads(visited, d, target)
             \/ \E p \in Ports(s) : d = PortDomain(s, p) /\ target = Links(s, p)
             \/ d = ServiceDomain(s) /\ target = Links(s, RootPort(s))
             \/ s.root /\ d = Root /\ target = Links(s, FirstPort(s))
      BY <2>1 DEF Leads
    <3>2. Leads(visited, d, target) <=> d \in DOMAIN map /\ map[d] = target
      BY <1>1
    <3> QED
      BY <2>3, <2>4, <3>1, <3>2 DEF PortDomains
  <2>6. Table(new) = OfServices(visited \cup {s})
    BY <2>5, TableByLinks
  <2> QED
    BY <2>6 DEF new
<1> QED
  BY <1>2, <1>3

\* The ports of a service keep their domains.
LEMMA AllocateListsPorts ==
  ASSUME NEW map, NEW s \in Seen, Label(s) # ""
  PROVE  /\ DOMAIN map \subseteq DOMAIN Allocate(map, s)
         /\ \A p \in Ports(s) : PortDomain(s, p) \in DOMAIN Allocate(map, s)
<1>1. CASE ~ Exposes(s)
  BY <1>1 DEF Allocate, Exposes
<1>2. CASE Exposes(s)
  BY <1>2, AllocateEffect DEF PortDomains
<1> QED
  BY <1>1, <1>2

-----------------------------------------------------------------------------
(* The root, and what is published.                                        *)

\* Nor does the choice of the root add a link to a port that is not exposed.
LEMMA WithRootLeadsToPorts ==
  ASSUME NEW map, NEW services, services \subseteq Seen, LeadsToPorts(map, services),
         \A s \in services : \A p \in Ports(s) : PortDomain(s, p) \in DOMAIN map
  PROVE  LeadsToPorts(WithRoot(map, services), services)
<1>1. CASE ~ AnyOf(NamePriority, ExposedNames(services))
  BY <1>1 DEF WithRoot
<1>2. CASE AnyOf(NamePriority, ExposedNames(services))
  <2> DEFINE best == Suggested(services)
             link == SuggestedLink(map, services)
  <2>1. best \in services /\ Exposes(best)
    BY <1>2, SuggestedIsNamed DEF Exposed
  <2>2. PortDomain(best, FirstPort(best)) \in DOMAIN map
    BY <2>1, FirstPortIsPort
  <2>3. \E s \in services : \E p \in Ports(s) : link = Links(s, p)
    BY <2>2 DEF LeadsToPorts, SuggestedLink
  <2>4. WithRoot(map, services) = map \/ WithRoot(map, services) = Put(map, Root, link)
    BY <1>2 DEF WithRoot, PutNew
  <2> HIDE DEF link
  <2>5. LeadsToPorts(Put(map, Root, link), services)
    BY <2>3 DEF LeadsToPorts, Put
  <2> QED
    BY <2>4, <2>5
<1> QED
  BY <1>1, <1>2

\* After the loop over all services, the root makes the table the documented one.
LEMMA WithRootAsDocumented ==
  ASSUME NEW services, services \subseteq Seen, WellNamed(services),
         \A t \in services : Label(t) # "",
         NEW map, Table(map) = OfServices(services)
  PROVE  Table(WithRoot(map, services)) = Documented(services)
<1>1. \A d, target : d \in DOMAIN map /\ map[d] = target <=> Leads(services, d, target)
  BY TableByLinks
<1>2. CASE Marked(services) # {}
  <2>1. PICK s \in Exposed(services) : s.root
    BY <1>2 DEF Marked
  <2>2. Root \in DOMAIN map
    BY <1>1, <2>1 DEF Leads
  <2>3. WithRoot(map, services) = map
    BY <2>2 DEF WithRoot, PutNew
  <2> QED
    BY <1>2, <2>3 DEF Documented, RootServices, OfServices
<1>3. CASE Marked(services) = {} /\ ~ AnyOf(NamePriority, ExposedNames(services))
  <2>1. WithRoot(map, services) = map /\ RootServices(services) = Marked(services)
    BY <1>3, RootByName DEF WithRoot
  <2> QED
    BY <2>1 DEF Documented, OfServices
<1>4. CASE Marked(services) = {} /\ AnyOf(NamePriority, ExposedNames(services))
  <2> DEFINE best == Suggested(services)
             link == Links(best, FirstPort(best))
  <2>1. best \in Exposed(services) /\ best \in services /\ Exposes(best)
    BY <1>4, SuggestedIsNamed DEF Exposed
  <2>2. map[PortDomain(best, FirstPort(best))] = link
    BY <1>1, <2>1, FirstPortIsPort DEF Leads
  <2>3. Root \notin DOMAIN map
    <3> SUFFICES ASSUME Root \in DOMAIN map PROVE FALSE
      OBVIOUS
    <3>1. Leads(services, Root, map[Root])
      BY <1>1
    <3>2. PICK s \in Exposed(services) :
             (\E p \in Ports(s) : Root = PortDomain(s, p)) \/ Root = ServiceDomain(s) \/ s.root
      BY <3>1 DEF Leads
    <3>3. s \in services /\ ~ s.root
      BY <1>4 DEF Marked, Exposed
    <3> QED
      BY <3>2, <3>3, DomainsDiffer DEF PortDomains
  <2>4. WithRoot(map, services) = Put(map, Root, link)
    BY <1>4, <2>2, <2>3 DEF WithRoot, PutNew, SuggestedLink
  <2>5. RootServices(services) = {best}
    BY <1>4, RootByName
  <2> HIDE DEF best
  <2>6. Table(Put(map, Root, link)) = Table(map) \cup {<<Root, link>>}
    BY <2>3 DEF Table, Put
  <2>7. RootLinks({best}) = {<<Root, link>>} /\ RootLinks(Marked(services)) = {}
    BY <1>4 DEF RootLinks
  <2> QED
    BY <2>4, <2>5, <2>6, <2>7 DEF Documented, OfServices
<1> QED
  BY <1>2, <1>3, <1>4

\* exposedServices: whatever port the map gives for the root, it is exposed, and
\* a priority port is preferred.
LEMMA DockerAsDocumented ==
  ASSUME NEW s \in Seen, NEW table \in DockerTables(s)
  PROVE  /\ LeadsToPorts(table, {s})
         /\ Exposes(s) /\ RootPort(s) \in ToSet(PortsPriority) => table[Root] = Links(s, RootPort(s))
<1>1. CASE ~ Exposes(s)
  BY <1>1 DEF DockerTables, NoLinks, LeadsToPorts
<1>2. CASE Exposes(s)
  <2> DEFINE ports == [d \in {At("", p) : p \in Ports(s)} |-> Links(s, d.port)]
             roots == IF AnyOf(PortsPriority, Ports(s)) THEN {Best(PortsPriority, Ports(s))}
                      ELSE Ports(s)
  <2>1. PICK root \in roots : table = Put(ports, Root, Links(s, root))
    BY <1>2 DEF DockerTables
  <2>2. root \in Ports(s)
    BY <1>2, <2>1, RootPortIsBest, RootPortIsPort
  <2>3. DOMAIN table = {At("", p) : p \in Ports(s)} \cup {Root} /\ table[Root] = Links(s, root)
    BY <2>1 DEF Put
  <2>4. \A p \in Ports(s) : table[At("", p)] \in {Links(s, p), Links(s, root)}
    BY <2>1 DEF Put, At
  <2>5. LeadsToPorts(table, {s})
    BY <2>2, <2>3, <2>4 DEF LeadsToPorts
  <2>6. RootPort(s) \in ToSet(PortsPriority) => AnyOf(PortsPriority, Ports(s))
    BY <1>2, RootPortIsPort DEF AnyOf
  <2> QED
    BY <2>1, <2>3, <2>5, <2>6, RootPortIsBest
<1> QED
  BY <1>1, <1>2

-----------------------------------------------------------------------------
(* The inductive invariant PInv.                                           *)

LEMMA InitInv == Init => PInv
<1> SUFFICES ASSUME Init PROVE PInv
  OBVIOUS
<1>1. TypeOK /\ Entries
  BY DEF Init, TypeOK, Entries
<1>2. LockHeld /\ HostKnown /\ OnPath /\ Unpublished /\ ReadyIsRegistered /\ AskedOnce /\ NoneAbandoned
  BY ProcessAssumption DEF Init, LockHeld, HostKnown, OnPath, Unpublished, ReadyIsRegistered,
     AskedOnce, NoneAbandoned
<1> QED
  BY <1>1, <1>2 DEF PInv

LEMMA StutterInv == PInv /\ UNCHANGED vars => PInv'
BY DEF PInv, vars, dnsVars, package, TypeOK, Entries, LockHeld, HostKnown, OnPath, Unpublished,
       ReadyIsRegistered, AskedOnce, NoneAbandoned

\* The steps of Execute, and the ends that come from outside.
LEMMA ExecuteKeeps ==
  ASSUME PInv, ExecuteNext \/ GiveUp \/ Interrupt \/ RouterFails
  PROVE  PInv'
<1> USE DEF ExecuteNext, StartRouter, Wait, Exit, RouterCloses, GiveUp, Interrupt, RouterFails,
            Running, dnsVars, package
<1>1. UNCHANGED <<flags, pipe, package, todo, links, lock, registered, host, dns>>
  OBVIOUS
<1>2. TypeOK' /\ Entries'
  BY DEF PInv, TypeOK, Entries
<1>3. LockHeld' /\ HostKnown' /\ OnPath' /\ Unpublished' /\ ReadyIsRegistered' /\ AskedOnce'
  BY <1>1 DEF PInv, LockHeld, HostKnown, OnPath, Unpublished, ReadyIsRegistered, AskedOnce
<1>4. NoneAbandoned'
  BY DEF PInv, TypeOK, NoneAbandoned, Unpublished
<1> QED
  BY <1>2, <1>3, <1>4 DEF PInv

-----------------------------------------------------------------------------
(* The steps of a pipeline.                                                *)

\* The services that mapContainers may find, and what they give to the lemmas
\* about domains.
LEMMA ServicesListed ==
  ASSUME NEW p \in Project, NEW services \in Listed(p)
  PROVE  /\ services \subseteq Services /\ services \subseteq Seen
         /\ p.kind \in {"compose", "docker"}
         /\ p.kind = "compose" => WellNamed(services) /\ \A s \in services : Label(s) # ""
         /\ p.kind = "docker" => \E s \in Seen : services = {s}
<1>1. /\ p.services \subseteq Service /\ p.kind \in {"compose", "docker"}
      /\ p.kind = "compose" => WellNamed(p.services)
      /\ p.kind = "docker" => \E s \in Service : p.services = {s}
  BY ProcessAssumption
<1>2. PICK running \in SUBSET p.services :
         /\ services = {TcpPart(s) : s \in running}
         /\ p.kind = "docker" => running = p.services
  BY <1>1 DEF Listed
<1>3. services \subseteq Services
  BY <1>2 DEF Services
<1>4. \A s \in running : /\ TcpPart(s) \in Seen
                         /\ TcpPart(s).name = s.name /\ Label(TcpPart(s)) = Label(s)
  BY <1>1, TcpPartIsSeen
<1>5. services \subseteq Seen
  BY <1>2, <1>4
<1>6. ASSUME p.kind = "compose"
      PROVE  WellNamed(services) /\ \A s \in services : Label(s) # ""
  <2>1. \A s \in running : s.name # "" /\ Label(s) # ""
    BY <1>1, <1>6 DEF WellNamed, Label
  <2>2. \A s, t \in running : s.name = t.name => s = t
    BY <1>1, <1>6 DEF WellNamed
  <2>3. \A s \in services : s.name # "" /\ Label(s) # ""
    BY <1>2, <1>4, <2>1
  <2>4. ASSUME NEW s \in services, NEW t \in services, s.name = t.name PROVE s = t
    <3>1. PICK a \in running : s = TcpPart(a)
      BY <1>2
    <3>2. PICK b \in running : t = TcpPart(b)
      BY <1>2
    <3>3. a.name = b.name
      BY <1>4, <2>4, <3>1, <3>2
    <3> QED
      BY <2>2, <3>1, <3>2, <3>3
  <2> QED
    BY <2>3, <2>4 DEF WellNamed
<1>7. ASSUME p.kind = "docker" PROVE \E s \in Seen : services = {s}
  <2>1. PICK s \in Service : p.services = {s}
    BY <1>1, <1>7
  <2>2. services = {TcpPart(s)} /\ TcpPart(s) \in Seen
    BY <1>2, <1>4, <1>7, <2>1
  <2> QED
    BY <2>2
<1> QED
  BY <1>1, <1>3, <1>5, <1>6, <1>7

\* The types of what a pipeline deploys.
TypesOfPackage ==
    /\ project \in [Repo -> Project \cup {None}]
    /\ up \in [Repo -> SUBSET Services] /\ todo \in [Repo -> SUBSET Services]

\* A step that moves one pipeline and leaves the lock and the provider alone.
LEMMA PipelineStep ==
  ASSUME PInv, NEW r \in Repo, NEW from, NEW to, Running, Go(r, from, to),
         to \in {"idle", "deploying", "published", "locking", "ready", "clearing", "ended"},
         from \notin {"locked", "calling"},
         to = "locking" => flags.pathRouting,
         to = "ready" => IF flags.pathRouting THEN host ELSE dns'[r] = DOMAIN links'[r],
         to \in {"idle", "ended"} => links'[r] = NoLinks,
         \A q \in Repo \ {r} : links'[q] = links[q] /\ dns'[q] = dns[q],
         TypesOfPackage', Entries',
         UNCHANGED <<flags, main, router, cancelled, lock, registered, host>>
  PROVE  PInv'
<1>1. \A q \in Repo : (q # r => pipe'[q] = pipe[q]) /\ pipe'[r] = to
  BY DEF PInv, TypeOK, Go
<1>2. TypeOK'
  <2>1. pipe' \in [Repo -> {"absent", "idle", "deploying", "published", "locking", "locked",
                             "calling", "ready", "clearing", "ended"}]
    BY DEF PInv, TypeOK, Go
  <2>2. TypesOfPackage'
    OBVIOUS
  <2> QED
    BY <2>1, <2>2 DEF PInv, TypeOK, TypesOfPackage
<1>3. LockHeld' /\ HostKnown' /\ OnPath' /\ AskedOnce'
  BY <1>1 DEF PInv, LockHeld, HostKnown, OnPath, AskedOnce, Go
<1>4. Unpublished' /\ ReadyIsRegistered'
  BY <1>1 DEF PInv, Unpublished, ReadyIsRegistered
<1>5. NoneAbandoned'
  BY DEF NoneAbandoned, Running
<1> QED
  BY <1>2, <1>3, <1>4, <1>5 DEF PInv

\* A step of a pipeline with the lock, or one that takes it.
LEMMA LockedStep ==
  ASSUME PInv, NEW r \in Repo,
         \/ LockHost(r) \/ AlreadyRegistered(r) \/ Call(r) \/ CallReturns(r) \/ CallFails(r)
  PROVE  PInv'
<1> USE ProcessAssumption
    DEF LockHost, AlreadyRegistered, Call, CallReturns, CallFails, Go, dnsVars, package
<1>1. /\ \A q \in Repo \ {r} : pipe'[q] = pipe[q]
      /\ UNCHANGED <<flags, main, router, cancelled, package, todo, links, dns>> /\ Running
  BY DEF PInv, TypeOK
<1>2. TypeOK' /\ Entries'
  BY DEF PInv, TypeOK, Entries
<1>3. LockHeld'
  BY DEF PInv, TypeOK, LockHeld
<1>4. HostKnown' /\ OnPath'
  BY DEF PInv, TypeOK, HostKnown, OnPath
<1>5. Unpublished'
  BY DEF PInv, TypeOK, Unpublished
<1>6. ReadyIsRegistered'
  BY DEF PInv, TypeOK, ReadyIsRegistered, OnPath, HostKnown
<1>7. AskedOnce'
  BY DEF PInv, TypeOK, AskedOnce, LockHeld, HostKnown
<1>8. NoneAbandoned'
  BY <1>1 DEF NoneAbandoned, Running
<1> QED
  BY <1>2, <1>3, <1>4, <1>5, <1>6, <1>7, <1>8 DEF PInv

\* A pipeline starts: it has nothing yet.
LEMMA StartStep == ASSUME PInv, NEW r \in Repo, StartPipeline(r) PROVE PInv'
<1> USE DEF StartPipeline, dnsVars, package
<1>1. links[r] = NoLinks /\ Running
  BY DEF PInv, Unpublished, Go, Running
<1> QED
  BY <1>1, PipelineStep DEF PInv, TypeOK, TypesOfPackage, Entries

\* The steps from a poll to the table, and those that fail on the way.
LEMMA DeployStep ==
  ASSUME PInv, NEW r \in Repo, Deploy(r) \/ DeployFails(r) \/ Publish(r) \/ End(r)
  PROVE  PInv'
<1> USE DEF Deploy, DeployFails, Publish, End, dnsVars, package
<1>1. CASE Deploy(r)
  <2>1. PICK p \in Project : \E services \in Listed(p) :
           /\ project' = [project EXCEPT ![r] = p]
           /\ up' = [up EXCEPT ![r] = services]
           /\ todo' = [todo EXCEPT ![r] = IF p.kind = "compose" THEN services ELSE {}]
    BY <1>1
  <2>2. PICK services \in Listed(p) :
           /\ up' = [up EXCEPT ![r] = services]
           /\ todo' = [todo EXCEPT ![r] = IF p.kind = "compose" THEN services ELSE {}]
    BY <2>1
  <2>3. services \in SUBSET Services
    BY ServicesListed
  <2>4. TypesOfPackage'
    BY <2>1, <2>2, <2>3 DEF PInv, TypeOK, TypesOfPackage
  <2> QED
    BY <1>1, <2>4, PipelineStep DEF PInv, Entries
<1>2. CASE DeployFails(r)
  <2>1. TypesOfPackage'
    BY <1>2 DEF PInv, TypeOK, TypesOfPackage
  <2>2. Entries' /\ links'[r] = NoLinks /\ \A q \in Repo \ {r} : links'[q] = links[q]
    BY <1>2 DEF PInv, Entries
  <2> QED
    BY <1>2, <2>1, <2>2, PipelineStep
<1>3. CASE Publish(r)
  <2>1. PICK t \in Tables(r) : links' = [links EXCEPT ![r] = t]
    BY <1>3
  <2>2. Entries' /\ \A q \in Repo \ {r} : links'[q] = links[q]
    BY <1>3, <2>1 DEF PInv, Entries
  <2> QED
    BY <1>3, <2>2, PipelineStep DEF PInv, TypeOK, TypesOfPackage
<1>4. CASE End(r)
  <2>1. links[r] = NoLinks
    BY <1>4 DEF PInv, Unpublished, Go
  <2> QED
    BY <1>4, <2>1, PipelineStep DEF PInv, TypeOK, TypesOfPackage, Entries
<1> QED
  BY <1>1, <1>2, <1>3, <1>4

\* A round of the loop: only the table and what is left of the services change.
LEMMA VisitStep == ASSUME PInv, NEW r \in Repo, Visit(r) PROVE PInv'
<1> USE DEF Visit, dnsVars, package
<1>1. PICK s \in todo[r] : /\ todo' = [todo EXCEPT ![r] = @ \ {s}]
                           /\ links' = [links EXCEPT ![r] = Allocate(@, s)]
  OBVIOUS
<1>2. TypesOfPackage'
  BY <1>1 DEF PInv, TypeOK, TypesOfPackage
<1>3. Entries' /\ \A q \in Repo \ {r} : links'[q] = links[q]
  BY <1>1 DEF PInv, Entries
<1>4. /\ Go(r, "deploying", "deploying")
      /\ Running
      /\ UNCHANGED <<flags, main, router, cancelled, lock, registered, host, dns>>
  BY DEF PInv, TypeOK, Go
<1> QED
  BY <1>2, <1>3, <1>4, PipelineStep

\* The steps of Register that need no lock.
LEMMA RegisterStep ==
  ASSUME PInv, NEW r \in Repo,
         Register(r) \/ RegisterFails(r) \/ SeesRegistered(r) \/ SeesUnregistered(r)
  PROVE  PInv'
<1> USE DEF Register, RegisterFails, SeesRegistered, SeesUnregistered, dnsVars, package
<1>1. CASE Register(r)
  <2>1. Entries' /\ dns'[r] = DOMAIN links[r] /\ \A q \in Repo \ {r} : dns'[q] = dns[q]
    BY <1>1 DEF PInv, Entries
  <2> QED
    BY <1>1, <2>1, PipelineStep DEF PInv, TypeOK, TypesOfPackage
<1>2. CASE RegisterFails(r) \/ SeesUnregistered(r)
  BY <1>2, PipelineStep DEF PInv, TypeOK, TypesOfPackage, Entries
<1>3. CASE SeesRegistered(r)
  <2>1. host
    BY <1>3 DEF PInv, HostKnown
  <2> QED
    BY <1>3, <2>1, PipelineStep DEF PInv, TypeOK, TypesOfPackage, Entries
<1> QED
  BY <1>1, <1>2, <1>3

\* The package is stopped, and its table is withdrawn.
LEMMA StopStep == ASSUME PInv, NEW r \in Repo, Stop(r) \/ Clear(r) PROVE PInv'
<1> USE DEF Stop, Clear, dnsVars, package
<1>1. CASE Stop(r)
  BY <1>1, PipelineStep DEF PInv, TypeOK, TypesOfPackage, Entries
<1>2. CASE Clear(r)
  <2>1. /\ Entries' /\ links'[r] = NoLinks
        /\ \A q \in Repo \ {r} : links'[q] = links[q] /\ dns'[q] = dns[q]
    BY <1>2 DEF PInv, Entries
  <2>2. TypesOfPackage'
    BY <1>2 DEF PInv, TypeOK, TypesOfPackage
  <2> QED
    BY <1>2, <2>1, <2>2, PipelineStep
<1> QED
  BY <1>1, <1>2

-----------------------------------------------------------------------------
(* The links of each package: LInv.                                        *)

\* A pipeline that keeps its project and its table, goes on with a table it has
\* published, or has none that it relies on.
LEMMA Untouched ==
  ASSUME LInv, NEW r \in Repo, UNCHANGED <<project[r], up[r], todo[r], links[r]>>,
         \/ UNCHANGED pipe[r]
         \/ pipe[r] \in Placed /\ pipe'[r] \in Placed
  PROVE  /\ pipe'[r] \in Placed \cup {"deploying"} => Deploying(r)'
         /\ pipe'[r] = "deploying" => LoopSoFar(r)'
         /\ pipe'[r] \in Placed => AsDocumented(r)'
<1>1. Deploying(r)' <=> Deploying(r)
  BY DEF Deploying
<1>2. LoopSoFar(r)' <=> LoopSoFar(r)
  BY DEF LoopSoFar, Visited
<1>3. AsDocumented(r)' <=> AsDocumented(r)
  BY DEF AsDocumented
<1>4. "deploying" \notin Placed
  BY DEF Placed
<1> QED
  BY <1>1, <1>2, <1>3, <1>4 DEF LInv, LinksAsDocumented

\* A step of one pipeline.
LEMMA OnePipeline ==
  ASSUME LInv, NEW r \in Repo,
         \A q \in Repo \ {r} : UNCHANGED <<pipe[q], project[q], up[q], todo[q], links[q]>>,
         pipe'[r] \in Placed \cup {"deploying"} => Deploying(r)',
         pipe'[r] = "deploying" => LoopSoFar(r)',
         pipe'[r] \in Placed => AsDocumented(r)'
  PROVE  LInv'
<1>1. ASSUME NEW q \in Repo
      PROVE  /\ pipe'[q] \in Placed \cup {"deploying"} => Deploying(q)'
             /\ pipe'[q] = "deploying" => LoopSoFar(q)'
             /\ pipe'[q] \in Placed => AsDocumented(q)'
  BY Untouched
<1> QED
  BY <1>1 DEF LInv, LinksAsDocumented, Placed

\* The loop begins: no service has been visited.
LEMMA DeployLinks ==
  ASSUME PInv, LInv, NEW r \in Repo, Deploy(r)
  PROVE  LInv'
<1>0. PICK p \in Project : \E services \in Listed(p) :
         /\ project' = [project EXCEPT ![r] = p]
         /\ up' = [up EXCEPT ![r] = services]
         /\ todo' = [todo EXCEPT ![r] = IF p.kind = "compose" THEN services ELSE {}]
  BY DEF Deploy
<1>1. PICK services \in Listed(p) :
         /\ project' = [project EXCEPT ![r] = p]
         /\ up' = [up EXCEPT ![r] = services]
         /\ todo' = [todo EXCEPT ![r] = IF p.kind = "compose" THEN services ELSE {}]
  BY <1>0
<1>2. /\ pipe'[r] = "deploying" /\ project'[r] = p /\ up'[r] = services /\ links'[r] = NoLinks
      /\ todo'[r] = IF p.kind = "compose" THEN services ELSE {}
      /\ \A q \in Repo \ {r} : UNCHANGED <<pipe[q], project[q], up[q], todo[q], links[q]>>
  BY <1>1 DEF PInv, TypeOK, Deploy, Go, Unpublished
<1>3. Deploying(r)'
  BY <1>2, ServicesListed DEF Deploying
<1>4. LoopSoFar(r)'
  <2>1. LeadsToPorts(NoLinks, services) /\ Table(NoLinks) = {} /\ OfServices({}) = {}
    BY DEF LeadsToPorts, NoLinks, Table, OfServices, RootLinks, Marked, Exposed
  <2>2. p.kind = "compose" => Visited(r)' = {}
    BY <1>2 DEF Visited
  <2> QED
    BY <1>2, <2>1, <2>2 DEF LoopSoFar
<1> QED
  BY <1>2, <1>3, <1>4, OnePipeline DEF Placed

\* A round of the loop.
LEMMA VisitLinks ==
  ASSUME PInv, LInv, NEW r \in Repo, Visit(r)
  PROVE  LInv'
<1> DEFINE services == up[r]
           visited == Visited(r)
<1>1. PICK s \in todo[r] : /\ todo' = [todo EXCEPT ![r] = @ \ {s}]
                           /\ links' = [links EXCEPT ![r] = Allocate(@, s)]
  BY DEF Visit
<1>2. pipe[r] = "deploying" /\ Deploying(r) /\ LoopSoFar(r)
  BY DEF Visit, LInv
<1>3. /\ pipe'[r] = "deploying" /\ project'[r] = project[r] /\ up'[r] = up[r]
      /\ todo'[r] = todo[r] \ {s} /\ links'[r] = Allocate(links[r], s)
      /\ \A q \in Repo \ {r} : UNCHANGED <<pipe[q], project[q], up[q], todo[q], links[q]>>
  BY <1>1, <1>2 DEF PInv, TypeOK, Entries, Visit, package
<1>4. /\ services \subseteq Seen /\ project[r].kind = "compose"
      /\ \A t \in services : Label(t) # ""
  BY <1>2, ServicesListed DEF Deploying
<1>5. s \in services \ visited /\ visited \subseteq services /\ Visited(r)' = visited \cup {s}
  BY <1>2, <1>3 DEF Deploying, Visited
<1>6. Deploying(r)'
  BY <1>2, <1>3 DEF Deploying
<1>7. LeadsToPorts(links'[r], services)
  <2>1. LeadsToPorts(links[r], services)
    BY <1>2 DEF LoopSoFar
  <2>2. s \in services /\ Label(s) # ""
    BY <1>4, <1>5
  <2> HIDE DEF services
  <2>3. LeadsToPorts(Allocate(links[r], s), services)
    BY <1>4, <2>1, <2>2, AllocateLeadsToPorts
  <2> QED
    BY <1>3, <2>3
<1>8. \A t \in visited \cup {s} : \A p \in Ports(t) : PortDomain(t, p) \in DOMAIN links'[r]
  <2>1. /\ DOMAIN links[r] \subseteq DOMAIN links'[r]
        /\ \A p \in Ports(s) : PortDomain(s, p) \in DOMAIN links'[r]
    BY <1>3, <1>4, <1>5, AllocateListsPorts
  <2> QED
    BY <1>2, <1>4, <2>1 DEF LoopSoFar
<1>9. Distinct(services) => Table(links'[r]) = OfServices(visited \cup {s})
  <2> SUFFICES ASSUME Distinct(services)
               PROVE  Table(Allocate(links[r], s)) = OfServices(visited \cup {s})
    BY <1>3
  <2>1. Table(links[r]) = OfServices(visited)
    BY <1>2, <1>4 DEF LoopSoFar
  <2>2. services \subseteq Seen /\ \A t \in services : Label(t) # ""
    BY <1>4
  <2>3. s \in services \ visited /\ visited \subseteq services
    BY <1>5
  <2> HIDE DEF services, visited
  <2> QED
    BY <2>1, <2>2, <2>3, AllocateAsDocumented
<1>10. LoopSoFar(r)'
  <2>1. up'[r] = services /\ Visited(r)' = visited \cup {s}
    BY <1>3, <1>5
  <2> HIDE DEF visited
  <2> QED
    BY <1>3, <1>7, <1>8, <1>9, <2>1 DEF LoopSoFar
<1> QED
  BY <1>3, <1>6, <1>10, OnePipeline DEF Placed

\* The table is completed and published.
LEMMA PublishLinks ==
  ASSUME PInv, LInv, NEW r \in Repo, Publish(r)
  PROVE  LInv'
<1> DEFINE services == up[r]
<1>1. PICK t \in Tables(r) : links' = [links EXCEPT ![r] = t]
  BY DEF Publish
<1>2. pipe[r] = "deploying" /\ Deploying(r) /\ LoopSoFar(r) /\ todo[r] = {}
  BY DEF Publish, Go, LInv
<1>3. /\ pipe'[r] = "published" /\ project'[r] = project[r] /\ up'[r] = up[r]
      /\ todo'[r] = {} /\ links'[r] = t
      /\ \A q \in Repo \ {r} : UNCHANGED <<pipe[q], project[q], up[q], todo[q], links[q]>>
  BY <1>1, <1>2 DEF PInv, TypeOK, Entries, Publish, Go, package
<1>4. Deploying(r)'
  BY <1>2, <1>3 DEF Deploying
<1>5. services \subseteq Seen /\ project[r].kind \in {"compose", "docker"}
  BY <1>2, ServicesListed DEF Deploying
<1>6. ASSUME project[r].kind = "compose" PROVE AsDocumented(r)'
  <2>1. t = WithRoot(links[r], services)
    BY <1>1, <1>6 DEF Tables
  <2>2. WellNamed(services) /\ \A s \in services : Label(s) # ""
    BY <1>2, <1>6, ServicesListed DEF Deploying
  <2>3. Visited(r) = services
    BY <1>2 DEF Visited
  <2>4. LeadsToPorts(t, services)
    BY <1>2, <1>5, <1>6, <2>1, <2>3, WithRootLeadsToPorts DEF LoopSoFar
  <2>5. Distinct(services) => Table(t) = Documented(services)
    BY <1>2, <1>5, <1>6, <2>1, <2>2, <2>3, WithRootAsDocumented DEF LoopSoFar
  <2> QED
    BY <1>3, <1>6, <2>4, <2>5 DEF AsDocumented
<1>7. ASSUME project[r].kind = "docker" PROVE AsDocumented(r)'
  <2>1. PICK s \in Seen : services = {s}
    BY <1>2, <1>7, ServicesListed DEF Deploying
  <2>2. t \in DockerTables(s)
    BY <1>1, <1>7, <2>1 DEF Tables
  <2>3. /\ LeadsToPorts(t, services)
        /\ \A x \in Exposed(services) :
             RootPort(x) \in ToSet(PortsPriority) => t[Root] = Links(x, RootPort(x))
    BY <2>1, <2>2, DockerAsDocumented DEF Exposed
  <2> QED
    BY <1>3, <1>7, <2>3 DEF AsDocumented
<1>8. AsDocumented(r)'
  BY <1>5, <1>6, <1>7
<1> QED
  BY <1>3, <1>4, <1>8, OnePipeline

\* Everything else keeps the table, or drops it and what relies on it.
LEMMA OtherLinks ==
  ASSUME PInv, LInv, NEW r \in Repo,
         \/ StartPipeline(r) \/ DeployFails(r) \/ End(r) \/ LockHost(r) \/ Stop(r) \/ Clear(r)
         \/ Register(r) \/ RegisterFails(r) \/ SeesRegistered(r) \/ SeesUnregistered(r)
         \/ AlreadyRegistered(r) \/ Call(r) \/ CallReturns(r) \/ CallFails(r)
  PROVE  LInv'
<1>1. \A q \in Repo \ {r} : UNCHANGED <<pipe[q], project[q], up[q], todo[q], links[q]>>
  BY DEF package, PInv, TypeOK, Entries, StartPipeline, DeployFails, End, LockHost, Stop, Clear, Register,
         RegisterFails, SeesRegistered, SeesUnregistered, AlreadyRegistered, Call, CallReturns,
         CallFails, Go
<1>2. CASE pipe'[r] \notin Placed \cup {"deploying"}
  BY <1>1, <1>2, OnePipeline
<1>3. CASE pipe'[r] \in Placed \cup {"deploying"}
  <2>1. /\ UNCHANGED <<project[r], up[r], todo[r], links[r]>>
        /\ pipe[r] \in Placed /\ pipe'[r] \in Placed
    BY <1>3 DEF package, PInv, TypeOK, StartPipeline, DeployFails, End, LockHost, Stop, Clear, Register,
         RegisterFails, SeesRegistered, SeesUnregistered, AlreadyRegistered, Call, CallReturns,
         CallFails, Go, Placed
  <2>2. /\ pipe'[r] \in Placed \cup {"deploying"} => Deploying(r)'
        /\ pipe'[r] = "deploying" => LoopSoFar(r)'
        /\ pipe'[r] \in Placed => AsDocumented(r)'
    BY <2>1, Untouched
  <2> QED
    BY <1>1, <2>2, OnePipeline
<1> QED
  BY <1>2, <1>3

\* The steps of Execute do not touch a pipeline.
LEMMA ExecuteLinks ==
  ASSUME LInv, ExecuteNext \/ GiveUp \/ Interrupt \/ RouterFails \/ UNCHANGED vars
  PROVE  LInv'
<1>1. UNCHANGED <<pipe, project, up, todo, links>>
  BY DEF ExecuteNext, StartRouter, Wait, Exit, RouterCloses, GiveUp, Interrupt, RouterFails, vars,
         package
<1>2. ASSUME NEW r \in Repo
      PROVE  /\ pipe'[r] \in Placed \cup {"deploying"} => Deploying(r)'
             /\ pipe'[r] = "deploying" => LoopSoFar(r)'
             /\ pipe'[r] \in Placed => AsDocumented(r)'
  BY <1>1, Untouched
<1> QED
  BY <1>2 DEF LInv, LinksAsDocumented, Placed

LEMMA InitLinks == Init => LInv
BY DEF Init, LInv, LinksAsDocumented, Placed

-----------------------------------------------------------------------------
(* The theorems.                                                           *)

THEOREM ProcessInvariance == Spec => []PInv
<1>1. PInv /\ Next => PInv'
  BY ExecuteKeeps, LockedStep, StartStep, DeployStep, VisitStep, RegisterStep, StopStep DEF Next, Proceed
<1> QED
  BY <1>1, InitInv, StutterInv, PTL DEF Spec

\* A package that is ready is in DNS: by itself, or because another pipeline
\* has registered the host, which the flag it has looked at without the lock
\* tells truly.
THEOREM ReadyAreRegistered == Spec => []ReadyIsRegistered
<1>1. PInv => ReadyIsRegistered
  BY DEF PInv
<1> QED
  BY <1>1, ProcessInvariance, PTL

\* Once the host is registered nobody asks the provider again.
THEOREM HostAskedOnce == Spec => []AskedOnce
<1>1. PInv => AskedOnce
  BY DEF PInv
<1> QED
  BY <1>1, ProcessInvariance, PTL

\* Whatever order the map of the services has and whichever of them have ended,
\* the loop publishes exactly the documented domains of the TCP ports of those
\* that run, and no domain leads to a port that none of them has.
THEOREM LinksAreDocumented == Spec => []LinksAsDocumented
<1>1. PInv /\ LInv /\ Next => LInv'
  BY DeployLinks, VisitLinks, PublishLinks, OtherLinks, ExecuteLinks DEF Next, Proceed
<1>2. LInv /\ UNCHANGED vars => LInv'
  BY ExecuteLinks
<1>3. LInv => LinksAsDocumented
  BY DEF LInv
<1> QED
  BY <1>1, <1>2, <1>3, InitLinks, ProcessInvariance, PTL DEF Spec

\* A process that has waited leaves no package behind.
THEOREM NoneLeftBehind == Spec => []NoneAbandoned
<1>1. PInv => NoneAbandoned
  BY DEF PInv
<1> QED
  BY <1>1, ProcessInvariance, PTL

\* The variables keep their types.
THEOREM ProcessTypeCorrect == Spec => []TypeOK
<1>1. PInv => TypeOK
  BY DEF PInv
<1> QED
  BY <1>1, ProcessInvariance, PTL
=============================================================================
