--------------------------- MODULE GatewayProofs ---------------------------
(***************************************************************************)
(* Proofs about Gateway for any packages, requests, domains, tokens and    *)
(* addresses: it is an instance of Network, and a request is answered by   *)
(* the container of its record, to which its token admits it, unless that  *)
(* container gives up its address meanwhile.                               *)
(***************************************************************************)
EXTENDS Gateway, NetworkProofs

\* A step of the gateway is a step of the network or leaves it alone.
LEMMA NetworkStep == [GatewayNext]_gateway => [Next]_vars
<1> SUFFICES ASSUME [GatewayNext]_gateway PROVE Next \/ UNCHANGED vars
  OBVIOUS
<1>1. ASSUME NEW c \in Container, PackageNext(c) PROVE Next \/ UNCHANGED vars
  <2>1. CASE Publish(c) \/ Withdraw(c)
    BY <2>1 DEF Publish, Withdraw, Next, PackageStep
  <2>2. CASE Enter(c) \/ Move(c) \/ Leave(c)
    BY <2>2 DEF Enter, Move, Leave, Next, PackageStep
  <2> QED
    BY <1>1, <2>1, <2>2 DEF PackageNext
<1>2. ASSUME NEW r \in Request, ServeNext(r) PROVE Next \/ UNCHANGED vars
  <2>1. CASE Route(r) \/ Refuse(r) \/ Reply(r)
    BY <2>1 DEF Route, Refuse, Reply
  <2>2. CASE Admit(r)
    BY <2>2 DEF Admit, Next
  <2>3. CASE Resolve(r)
    BY <2>3 DEF Resolve, Next, ResolveStep
  <2>4. CASE Forward(r) \/ Fail(r)
    BY <2>4 DEF Forward, Fail, Next, ResolveStep
  <2> QED
    BY <1>2, <2>1, <2>2, <2>3, <2>4 DEF ServeNext
<1>3. CASE UNCHANGED gateway
  BY <1>3 DEF gateway
<1> QED
  BY <1>1, <1>2, <1>3 DEF GatewayNext

\* The gateway is an instance of the network: what is proved of that holds.
THEOREM ImplementsNetwork == GatewaySpec => Spec
<1>1. GatewayInit => Init
  BY DEF GatewayInit
<1> QED
  BY <1>1, NetworkStep, PTL DEF GatewaySpec, Spec

\* The one record a package publishes is something it may ask for.
LEMMA AskOne ==
  ASSUME NEW c \in Container, NEW own
  PROVE  [d \in Domain |-> IF d = own THEN c ELSE None] \in Routes!Ask
BY DEF Routes!Ask

\* A step of the gateway changes the table as the abstract ingress allows.
LEMMA TableStep == [GatewayNext]_gateway => [Routes!TableNext]_table
<1> SUFFICES ASSUME [GatewayNext]_gateway PROVE Routes!TableNext \/ UNCHANGED table
  OBVIOUS
<1>1. ASSUME NEW c \in Container, PackageNext(c)
      PROVE  Routes!TableNext \/ UNCHANGED table
  <2>1. CASE Publish(c)
    <3> PICK own \in DomainsOf[c] :
                Routes!Register(c, [d \in Domain |-> IF d = own THEN c ELSE None])
      BY <2>1 DEF Publish
    <3> DEFINE m == [d \in Domain |-> IF d = own THEN c ELSE None]
    <3>1. m \in Routes!Ask /\ Routes!Register(c, m)
      BY AskOne
    <3> HIDE DEF m
    <3> QED
      BY <3>1 DEF Routes!TableNext
  <2>2. CASE Withdraw(c)
    BY <2>2 DEF Withdraw, Routes!TableNext
  <2>3. CASE Enter(c) \/ Move(c) \/ Leave(c)
    BY <2>3 DEF Enter, Move, Leave, Excuse, gatewayVars
  <2> QED
    BY <1>1, <2>1, <2>2, <2>3 DEF PackageNext
<1>2. ASSUME NEW r \in Request, ServeNext(r) PROVE UNCHANGED table
  BY <1>2 DEF ServeNext, Route, Refuse, Admit, Resolve, Forward, Fail, Reply, EndOf, gatewayVars
<1>3. CASE UNCHANGED gateway
  BY <1>3 DEF gateway, gatewayVars
<1> QED
  BY <1>1, <1>2, <1>3 DEF GatewayNext

\* The table that requests are routed with is the one the ingress promises:
\* packages come to it and go from it as Ingress lets them, no other way.
THEOREM UsesRoutingTable == GatewaySpec => Routes!TableSpec
<1>1. GatewayInit => Routes!TableInit
  BY DEF GatewayInit
<1> QED
  BY <1>1, TableStep, PTL DEF GatewaySpec, Routes!TableSpec

-----------------------------------------------------------------------------
(* Types.                                                                  *)

LEMMA RecordType ==
  ASSUME NEW c \in Container
  PROVE  [group |-> c, list |-> c] \in Routes!Lease
BY DEF Routes!Lease

\* What Publish does to the table: nothing but one more record.
LEMMA PublishTable ==
  ASSUME GatewayTypeOK, NEW c \in Container, Publish(c)
  PROVE  \E own \in Domain :
            /\ table[own] = None
            /\ table' = [table EXCEPT ![own] = [group |-> c, list |-> c]]
<1> PICK own \in DomainsOf[c] :
            Routes!Register(c, [d \in Domain |-> IF d = own THEN c ELSE None])
  BY DEF Publish
<1> DEFINE m == [d \in Domain |-> IF d = own THEN c ELSE None]
<1>1. own \in Domain /\ c # None
  BY GatewayAssumption
<1>2. table \in [Domain -> Routes!Lease \cup {None}]
  BY DEF GatewayTypeOK, Routes!TableTypeOK
<1>3. \A d \in Domain : table[d] # None => table[d].group # c
  BY DEF Publish, Listed
<1>4. own \in Routes!Asked(m)
  BY <1>1 DEF Routes!Asked
<1>5. table[own] = None
  BY <1>1, <1>3, <1>4 DEF Routes!Register, Routes!Free
<1>6. table' = Routes!Replace(table, c, m)
  BY DEF Routes!Register
<1>7. \A d \in Domain : Routes!Replace(table, c, m)[d] =
          IF d = own THEN [group |-> c, list |-> c] ELSE table[d]
  BY <1>1, <1>3 DEF Routes!Replace
<1> QED
  BY <1>1, <1>2, <1>5, <1>6, <1>7 DEF Routes!Replace

\* What Withdraw does: the records of the package are gone.
LEMMA WithdrawTable ==
  ASSUME NEW c \in Container, Routes!Withdraw(c)
  PROVE  table' = [d \in Domain |->
                     IF table[d] # None /\ table[d].group = c THEN None ELSE table[d]]
BY DEF Routes!Withdraw, Routes!Replace

LEMMA GatewayInitType == GatewayInit /\ TypeOK => GatewayTypeOK
BY DEF GatewayInit, GatewayTypeOK, Routes!TableInit, Routes!TableTypeOK

LEMMA GatewayTypeStep ==
  ASSUME GatewayTypeOK, TypeOK', [GatewayNext]_gateway
  PROVE  GatewayTypeOK'
<1> USE DEF GatewayTypeOK, gatewayVars, asked
<1>1. ASSUME NEW c \in Container, PackageNext(c) PROVE GatewayTypeOK'
  <2>1. CASE Publish(c)
    <3>1. UNCHANGED <<stage, asked, served, excused>>
      BY <2>1 DEF Publish
    <3>2. PICK own \in Domain : table' = [table EXCEPT ![own] = [group |-> c, list |-> c]]
      BY <2>1, PublishTable
    <3> QED
      BY <3>1, <3>2, RecordType DEF Routes!TableTypeOK
  <2>2. CASE Withdraw(c)
    BY <2>2, WithdrawTable DEF Withdraw, Routes!TableTypeOK
  <2>3. CASE Enter(c)
    BY <2>3 DEF Enter, Routes!TableTypeOK
  <2>4. CASE Move(c) \/ Leave(c)
    BY <2>4 DEF Move, Leave, Excuse, Routes!TableTypeOK
  <2> QED
    BY <1>1, <2>1, <2>2, <2>3, <2>4 DEF PackageNext
<1>2. ASSUME NEW r \in Request, ServeNext(r) PROVE GatewayTypeOK'
  <2>1. CASE Route(r)
    BY <2>1 DEF Route, Routes!TableTypeOK
  <2>2. CASE Refuse(r) \/ Fail(r) \/ Reply(r)
    BY <2>2 DEF Refuse, Fail, Reply, EndOf, Routes!TableTypeOK
  <2>3. CASE Admit(r) \/ Resolve(r) \/ Forward(r)
    BY <2>3 DEF Admit, Resolve, Forward, Routes!TableTypeOK
  <2> QED
    BY <1>2, <2>1, <2>2, <2>3 DEF ServeNext
<1>3. CASE UNCHANGED gateway
  BY <1>3 DEF gateway, Routes!TableTypeOK
<1> QED
  BY <1>1, <1>2, <1>3 DEF GatewayNext

-----------------------------------------------------------------------------
(* The steps of the packages.                                              *)

Inv == IInv /\ GatewayInv

\* Those who are listed serve: nothing that comes before or after disturbs
\* their addresses.
LEMMA ListedServe ==
  ASSUME Inv, NEW c \in Container, Listed(c)
  PROVE  Serves(c) /\ c \in published
BY DEF Inv, GatewayInv, Records

\* A container that nobody is routed to changes its place and its address, or
\* one that serves does and the requests routed to it are excused.
LEMMA ContainerStep ==
  ASSUME Inv, NEW c \in Container, TypeOK', GatewayTypeOK',
         \A d \in Container \ {c} :
             at'[d] = at[d] /\ ip'[d] = ip[d] /\ (d \in linked' <=> d \in linked),
         \/ ip'[c] = ip[c]
         \/ ip'[c] = None
         \/ ip'[c] \in Free,
         (\/ at'[c] \in {"absent", "disconnected", "left", "stopped", "removed"}
          \/ at'[c] = "joining" /\ c \notin linked'
          \/ c \in Plain /\ at'[c] # "started") => ip'[c] = None,
         Listed(c) => at'[c] = at[c],
         \/ c \in moved'
         \/ at'[c] = "disconnected"
         \/ at[c] # "disconnected" /\ (ip'[c] = ip[c] \/ ip[c] = None),
         moved \subseteq moved', moved' \subseteq moved \cup {c},
         \A r \in Request : /\ excused[r] => excused'[r]
                            /\ Serves(c) /\ route[r] # None /\ route[r].group = c => excused'[r],
         UNCHANGED <<published, valid, cached, pc, target, seen, answer, table, stage, asked, served>>
  PROVE  Addresses' /\ Records' /\ ViewsAreFresh' /\ Pending' /\ Stages' /\ ServedByOwner'
<1> USE DEF asked
<1>0. /\ \A d \in Container : Listed(d)' <=> Listed(d)
      /\ \A r \in Request : ~excused'[r] => ~excused[r]
  BY DEF Listed
<1>1. Addresses'
  <2>1. ASSUME NEW d \in Container \ {c} PROVE ip'[c] # None => ip'[c] # ip'[d]
    BY <2>1 DEF Inv, GatewayInv, Addresses, Free
  <2>2. \A d, e \in Container : ip'[d] # None /\ ip'[d] = ip'[e] => d = e
    BY <2>1 DEF Inv, GatewayInv, Addresses
  <2>3. ASSUME NEW d \in Container,
               \/ at'[d] \in {"absent", "disconnected", "left", "stopped", "removed"}
               \/ at'[d] = "joining" /\ d \notin linked'
               \/ d \in Plain /\ at'[d] # "started"
        PROVE  ip'[d] = None
    BY <2>3 DEF Inv, GatewayInv, Addresses
  <2> QED
    BY <2>2, <2>3 DEF Addresses
<1>2. Records'
  BY <1>0 DEF Inv, GatewayInv, Records, Serves
<1>3. ASSUME NEW d \in Container, d \notin moved', at'[d] # "disconnected"
      PROVE  /\ d \notin moved /\ at[d] # "disconnected"
             /\ \A view \in Table : Fresh(view, d) => Fresh(view, d)'
  BY <1>3 DEF Fresh
<1>4. ViewsAreFresh'
  <2>1. cached \in Table /\ \A r \in Request : seen[r] \in Table
    BY DEF Inv, IInv, TypeOK
  <2>2. ASSUME NEW d \in Container, d \notin moved', at'[d] # "disconnected"
        PROVE  valid' => Fresh(cached, d)'
    BY <1>3, <2>1, <2>2 DEF Inv, GatewayInv, ViewsAreFresh, Fresh
  <2>3. ASSUME NEW d \in Container, d \notin moved', at'[d] # "disconnected",
               NEW r \in Request, pc'[r] = "inspected"
        PROVE  Fresh(seen[r], d)'
    BY <1>3, <2>1, <2>3 DEF Inv, GatewayInv, ViewsAreFresh, Fresh
  <2> QED
    BY <2>2, <2>3 DEF ViewsAreFresh
<1>5. Pending'
  <2> SUFFICES ASSUME NEW r \in Request, stage[r] \in {"routed", "resolving"}
               PROVE  /\ route[r] # None
                      /\ ~excused'[r] =>
                           /\ route[r].list = route[r].group
                           /\ Serves(route[r].group)' /\ route[r].group \notin moved'
                           /\ pc[r] = "hit" => Fresh(cached, route[r].group)'
                           /\ pc[r] = "done" => answer[r] \in {None, ip'[route[r].group]}
    BY DEF Pending
  <2>1. route[r] # None
    BY DEF Inv, GatewayInv, Pending
  <2>2. ASSUME ~excused'[r]
        PROVE  /\ route[r].list = route[r].group
               /\ Serves(route[r].group) /\ route[r].group \notin moved
               /\ pc[r] = "hit" => Fresh(cached, route[r].group)
               /\ pc[r] = "done" => answer[r] \in {None, ip[route[r].group]}
    BY <1>0, <2>2 DEF Inv, GatewayInv, Pending
  <2>3. route[r].group \in Container
    BY <2>1 DEF Inv, GatewayInv, GatewayTypeOK, Routes!Lease
  <2>4. ASSUME ~excused'[r] PROVE route[r].group # c
    BY <2>1, <2>2, <2>4
  <2> QED
    BY <1>0, <2>1, <2>2, <2>3, <2>4 DEF Fresh, Serves
<1>6. Stages'
  BY DEF Inv, GatewayInv, Stages
<1>7. ServedByOwner'
  BY <1>0 DEF Inv, GatewayInv, ServedByOwner
<1> QED
  BY <1>1, <1>2, <1>4, <1>5, <1>6, <1>7

\* What the package does before it serves and after it has left.
LEMMA EnterStep ==
  ASSUME Inv, NEW c \in Container, Enter(c), ~Invalidate(c), TypeOK', GatewayTypeOK'
  PROVE  Addresses' /\ Records' /\ ViewsAreFresh' /\ Pending' /\ Stages' /\ ServedByOwner'
<1> USE DEF asked, gatewayVars, docker, cache, request
<1>1. ~Serves(c) /\ ~Listed(c) /\ at[c] \in {"absent", "stopped", "left", "joining", "joined"}
  BY ListedServe, NetworkAssumption DEF Enter, Create, Up, JoinLinked, Connect, Start, Serves
<1>2. UNCHANGED <<published, moved, valid, cached, pc, target, seen, answer, gatewayVars>>
  BY DEF Enter, Create, Up, JoinLinked, Connect, Start
<1>3. ASSUME NEW d \in Container \ {c}
      PROVE  at'[d] = at[d] /\ ip'[d] = ip[d] /\ (d \in linked' <=> d \in linked)
  BY <1>3 DEF Enter, Create, Up, JoinLinked, Connect, Start, Inv, IInv, TypeOK, Table
<1>4. /\ ip'[c] = ip[c] \/ ip[c] = None
      /\ ip'[c] = ip[c] \/ ip'[c] \in Free
  BY DEF Enter, Create, Up, JoinLinked, Connect, Start, Inv, GatewayInv, Addresses, IInv,
         TypeOK, Table
<1>5. (\/ at'[c] \in {"absent", "disconnected", "left", "stopped", "removed"}
       \/ at'[c] = "joining" /\ c \notin linked'
       \/ c \in Plain /\ at'[c] # "started") => ip'[c] = None
  BY NetworkAssumption DEF Enter, Create, Up, JoinLinked, Connect, Start, Inv, GatewayInv,
         Addresses, IInv, TypeOK, Table
<1> QED
  BY <1>1, <1>2, <1>3, <1>4, <1>5, ContainerStep

\* The requests routed to c are excused, the others keep what they had.
LEMMA ExcuseStep ==
  ASSUME Inv, NEW c \in Container, Excuse(c)
  PROVE  \A r \in Request : /\ excused[r] => excused'[r]
                            /\ route[r] # None /\ route[r].group = c => excused'[r]
BY DEF Excuse, Inv, GatewayInv, GatewayTypeOK

\* A container fails, or is restarted with any address that is free.
LEMMA MoveStep ==
  ASSUME Inv, NEW c \in Container, Move(c), TypeOK', GatewayTypeOK'
  PROVE  Addresses' /\ Records' /\ ViewsAreFresh' /\ Pending' /\ Stages' /\ ServedByOwner'
<1> USE DEF Move, asked, cache, request
<1>1. /\ UNCHANGED <<at, linked, published, valid, cached, pc, target, seen, answer>>
      /\ moved' = moved \cup {c} /\ Placed(c)
  BY DEF Exits, Restart
<1>2. /\ \A d \in Container \ {c} : ip'[d] = ip[d]
      /\ ip'[c] = None \/ ip'[c] \in Free
  BY DEF Exits, Restart, Inv, IInv, TypeOK, Table
<1>3. ~ (\/ at[c] \in {"absent", "disconnected", "left", "stopped", "removed"}
         \/ at[c] = "joining" /\ c \notin linked
         \/ c \in Plain /\ at[c] # "started")
  BY <1>1, NetworkAssumption DEF Placed, Serves
<1>4. UNCHANGED <<table, stage, asked, served>>
  BY DEF Excuse
<1> QED
  BY <1>1, <1>2, <1>3, <1>4, ExcuseStep, ContainerStep

LEMMA LeaveStep ==
  ASSUME Inv, NEW c \in Container, Leave(c), TypeOK', GatewayTypeOK'
  PROVE  Addresses' /\ Records' /\ ViewsAreFresh' /\ Pending' /\ Stages' /\ ServedByOwner'
<1> USE DEF Leave, Disconnect, EndLinked, asked, cache, request
<1>0. ~Listed(c) /\ UNCHANGED <<table, stage, asked, served>>
  BY DEF Excuse
<1>1. ASSUME NEW d \in Container \ {c}
      PROVE  at'[d] = at[d] /\ ip'[d] = ip[d] /\ (d \in linked' <=> d \in linked)
  BY <1>1 DEF Inv, IInv, TypeOK, Table
<1>2. /\ ip'[c] = None
      /\ \/ at'[c] = "disconnected" /\ moved' = moved
         \/ at'[c] \in {"removed", "stopped"} /\ moved' = moved \cup {c}
  BY DEF Inv, IInv, TypeOK, Table
<1>3. UNCHANGED <<published, valid, cached, pc, target, seen, answer>>
  OBVIOUS
<1> QED
  BY <1>0, <1>1, <1>2, <1>3, ExcuseStep, ContainerStep

\* An invalidation leaves no view that could be stale.
LEMMA InvalidateKeeps ==
  ASSUME Inv, NEW c \in Container, Invalidate(c), UNCHANGED gatewayVars, TypeOK',
         GatewayTypeOK'
  PROVE  Addresses' /\ Records' /\ ViewsAreFresh' /\ Pending' /\ Stages' /\ ServedByOwner'
<1> USE DEF Invalidate, gatewayVars, asked, docker, request
<1>1. /\ \A d \in Container \ {c} : at'[d] = at[d]
      /\ \/ at[c] = "connected" /\ at'[c] = "joined"
         \/ at[c] = "disconnected" /\ at'[c] = "left"
  BY DEF Inv, IInv, TypeOK
<1>2. \A d \in Container : Listed(d)' <=> Listed(d)
  BY DEF Listed
<1>3. Addresses'
  BY <1>1 DEF Inv, GatewayInv, Addresses
<1>4. Records'
  BY <1>1, <1>2 DEF Inv, GatewayInv, Records, Serves
<1>5. ViewsAreFresh'
  BY NetworkAssumption DEF Inv, IInv, LockHeld, ViewsAreFresh
<1>6. Pending'
  <2>1. \A r \in Request : stage[r] \in {"routed", "resolving"} /\ ~excused[r] =>
            route[r].group \in Container
    BY DEF Inv, GatewayInv, Pending, GatewayTypeOK, Routes!Lease
  <2> QED
    BY <1>1, <2>1 DEF Inv, GatewayInv, Pending, Fresh, Serves
<1>7. Stages' /\ ServedByOwner'
  BY DEF Inv, GatewayInv, Stages, ServedByOwner
<1> QED
  BY <1>3, <1>4, <1>5, <1>6, <1>7

LEMMA PublishStep ==
  ASSUME Inv, NEW c \in Container, Publish(c), TypeOK', GatewayTypeOK'
  PROVE  Addresses' /\ Records' /\ ViewsAreFresh' /\ Pending' /\ Stages' /\ ServedByOwner'
<1> USE DEF asked, docker, cache, request
<1>1. /\ UNCHANGED <<at, docker, cache, request, stage, asked, served, excused>>
      /\ Serves(c) /\ published' = published \cup {c}
  BY DEF Publish, Announce
<1>2. PICK own \in Domain :
        /\ table[own] = None
        /\ table' = [table EXCEPT ![own] = [group |-> c, list |-> c]]
  BY PublishTable DEF Inv, GatewayInv
<1>3. \A d \in Domain : \/ table'[d] = table[d]
                        \/ table[d] = None /\ table'[d] = [group |-> c, list |-> c]
  BY <1>2 DEF Inv, GatewayInv, GatewayTypeOK, Routes!TableTypeOK
<1>4. \A e \in Container : Listed(e)' => e = c \/ Listed(e)
  BY <1>3 DEF Listed
<1>5. Addresses' /\ ViewsAreFresh' /\ Stages' /\ ServedByOwner'
  BY <1>1 DEF Inv, GatewayInv, Addresses, ViewsAreFresh, Fresh, Stages, ServedByOwner
<1>6. Records'
  BY <1>1, <1>3, <1>4 DEF Inv, GatewayInv, Records, Serves
<1>7. Pending'
  BY <1>1 DEF Inv, GatewayInv, Pending, Fresh, Serves
<1> QED
  BY <1>5, <1>6, <1>7

LEMMA WithdrawStep ==
  ASSUME Inv, NEW c \in Container, Withdraw(c), TypeOK', GatewayTypeOK'
  PROVE  Addresses' /\ Records' /\ ViewsAreFresh' /\ Pending' /\ Stages' /\ ServedByOwner'
<1> USE DEF asked, vars, docker, cache, request
<1>1. UNCHANGED <<vars, stage, asked, served, excused>>
  BY DEF Withdraw
<1>2. \A d \in Domain : table'[d] = IF table[d] # None /\ table[d].group = c THEN None ELSE table[d]
  BY WithdrawTable DEF Withdraw
<1>3. \A e \in Container : Listed(e)' => Listed(e)
  BY <1>2 DEF Listed
<1>4. Addresses' /\ ViewsAreFresh' /\ Stages' /\ ServedByOwner'
  BY <1>1 DEF Inv, GatewayInv, Addresses, ViewsAreFresh, Fresh, Stages, ServedByOwner
<1>5. Records'
  BY <1>1, <1>2, <1>3 DEF Inv, GatewayInv, Records, Serves
<1>6. Pending'
  BY <1>1 DEF Inv, GatewayInv, Pending, Fresh, Serves
<1> QED
  BY <1>4, <1>5, <1>6

-----------------------------------------------------------------------------
(* The steps of the requests.                                              *)

\* The container of a request that is not excused is in every view where it
\* is.
LEMMA PendingIsFresh ==
  ASSUME Inv, NEW r \in Request, stage[r] \in {"routed", "resolving"}, ~excused[r]
  PROVE  /\ route[r].group \in Container
         /\ valid => Fresh(cached, route[r].group)
         /\ \A q \in Request : pc[q] = "inspected" => Fresh(seen[q], route[r].group)
<1>1. route[r].group \in Container
  BY DEF Inv, GatewayInv, Pending, GatewayTypeOK, Routes!Lease
<1>2. Serves(route[r].group) /\ route[r].group \notin moved
  BY DEF Inv, GatewayInv, Pending
<1>3. at[route[r].group] # "disconnected"
  BY <1>2 DEF Serves
<1> QED
  BY <1>1, <1>2, <1>3 DEF Inv, GatewayInv, ViewsAreFresh

\* What the steps of a request leave alone.
LEMMA RequestKeeps ==
  ASSUME Inv, UNCHANGED <<at, published, docker, table>>
  PROVE  /\ Addresses' /\ Records'
         /\ \A c : Serves(c)' <=> Serves(c)
         /\ \A view, c : Fresh(view, c) => Fresh(view, c)'
<1> USE DEF docker
<1>1. Addresses'
  BY DEF Inv, GatewayInv, Addresses
<1>2. \A c \in Container : Listed(c)' <=> Listed(c)
  BY DEF Listed
<1>3. Records'
  BY <1>2 DEF Inv, GatewayInv, Records, Serves
<1> QED
  BY <1>1, <1>2, <1>3 DEF Fresh, Serves

LEMMA RouteStep ==
  ASSUME Inv, NEW r \in Request, Route(r), TypeOK', GatewayTypeOK'
  PROVE  Addresses' /\ Records' /\ ViewsAreFresh' /\ Pending' /\ Stages' /\ ServedByOwner'
<1> USE DEF Route, vars, docker, cache, request
<1>1. /\ Addresses' /\ Records'
      /\ \A c : Serves(c)' <=> Serves(c)
  BY RequestKeeps
<1>2. PICK d \in Domain : /\ table[d] # None
                          /\ route' = [route EXCEPT ![r] = table[d]]
                          /\ excused' = [excused EXCEPT ![r] = table[d].group \in moved]
  OBVIOUS
<1>3. \A q \in Request :
        /\ q # r => /\ stage'[q] = stage[q] /\ route'[q] = route[q] /\ excused'[q] = excused[q]
                    /\ token'[q] = token[q] /\ method'[q] = method[q]
        /\ stage'[r] = "routed" /\ route'[r] = table[d]
        /\ excused'[r] = (table[d].group \in moved)
  BY <1>2 DEF Inv, GatewayInv, GatewayTypeOK
<1>4. table[d].group \in Container /\ table[d].list = table[d].group
  BY <1>2 DEF Inv, GatewayInv, Records, GatewayTypeOK, Routes!TableTypeOK, Routes!Lease
<1>5. Serves(table[d].group) /\ table[d].group \in published
  BY <1>2, <1>4, ListedServe DEF Listed
<1>6. pc[r] = "idle" /\ served[r] = None
  BY DEF Inv, GatewayInv, Stages
<1>7. ViewsAreFresh'
  BY DEF Inv, GatewayInv, ViewsAreFresh, Fresh
<1>8. Pending'
  <2> SUFFICES ASSUME NEW q \in Request, stage'[q] \in {"routed", "resolving"}
               PROVE  /\ route'[q] # None
                      /\ ~excused'[q] =>
                           /\ route'[q].list = route'[q].group
                           /\ Serves(route[q].group)' /\ route'[q].group \notin moved
                           /\ pc[q] = "hit" => Fresh(cached, route'[q].group)
                           /\ pc[q] = "done" => answer[q] \in {None, ip[route'[q].group]}
    BY DEF Pending, Fresh
  <2>1. CASE q = r
    <3>1. route'[q] = table[d] /\ at' = at
      BY <1>3, <2>1
    <3>2. Serves(route[q].group)'
      BY <1>5, <3>1 DEF Serves
    <3> QED
      BY <1>2, <1>3, <1>4, <1>6, <2>1, <3>1, <3>2
  <2>2. CASE q # r
    <3>1. ~excused[q] => route[q].group \in Container
      BY <1>3, <2>2, PendingIsFresh
    <3> QED
      BY <1>1, <1>3, <2>2, <3>1 DEF Inv, GatewayInv, Pending
  <2> QED
    BY <2>1, <2>2
<1>9. Stages' /\ ServedByOwner'
  BY <1>3, <1>4, <1>5, <1>6 DEF Inv, GatewayInv, Stages, ServedByOwner
<1> QED
  BY <1>1, <1>7, <1>8, <1>9

\* The request is over, and Resolve is where it was or idle.
LEMMA EndStep ==
  ASSUME Inv, NEW r \in Request, EndOf(r), TypeOK', GatewayTypeOK',
         UNCHANGED <<at, published, docker, cache, seen>>, pc'[r] = "idle",
         \A q \in Request \ {r} : target'[q] = target[q],
         \A q \in Request \ {r} : pc'[q] = pc[q] /\ answer'[q] = answer[q]
  PROVE  Addresses' /\ Records' /\ ViewsAreFresh' /\ Pending' /\ Stages' /\ ServedByOwner'
<1> USE DEF docker, cache
<1>1. UNCHANGED table
  BY DEF EndOf
<1>2. /\ Addresses' /\ Records'
      /\ \A c : Serves(c)' <=> Serves(c)
  BY <1>1, RequestKeeps
<1>3. \A q \in Request :
        /\ q # r => /\ stage'[q] = stage[q] /\ route'[q] = route[q] /\ excused'[q] = excused[q]
                    /\ token'[q] = token[q] /\ method'[q] = method[q] /\ served'[q] = served[q]
        /\ stage'[r] = "accepting" /\ served'[r] = None /\ route'[r] = None
  BY DEF EndOf, Inv, GatewayInv, GatewayTypeOK
<1>4. ViewsAreFresh'
  BY <1>1, <1>3 DEF Inv, GatewayInv, ViewsAreFresh, Fresh
<1>5. Pending'
  <2> SUFFICES ASSUME NEW q \in Request, stage'[q] \in {"routed", "resolving"}
               PROVE  /\ route[q] # None
                      /\ ~excused[q] =>
                           /\ route[q].list = route[q].group
                           /\ Serves(route[q].group)' /\ route[q].group \notin moved
                           /\ pc[q] = "hit" => Fresh(cached, route[q].group)
                           /\ pc[q] = "done" => answer[q] \in {None, ip[route[q].group]}
    BY <1>1, <1>3 DEF Pending, Fresh
  <2>1. ~excused[q] => route[q].group \in Container
    BY <1>3, PendingIsFresh
  <2> QED
    BY <1>2, <1>3, <2>1 DEF Inv, GatewayInv, Pending, Serves
<1>6. Stages' /\ ServedByOwner'
  BY <1>3 DEF Inv, GatewayInv, Stages, ServedByOwner
<1> QED
  BY <1>2, <1>4, <1>5, <1>6

LEMMA RequestEnds ==
  ASSUME Inv, NEW r \in Request, Refuse(r) \/ Fail(r) \/ Reply(r), TypeOK', GatewayTypeOK'
  PROVE  Addresses' /\ Records' /\ ViewsAreFresh' /\ Pending' /\ Stages' /\ ServedByOwner'
<1>1. CASE Refuse(r) \/ Reply(r)
  <2>1. pc[r] = "idle"
    BY <1>1 DEF Refuse, Reply, Inv, GatewayInv, Stages
  <2> QED
    BY <1>1, <2>1, EndStep DEF Refuse, Reply, vars, request
<1>2. CASE Fail(r)
  BY <1>2, EndStep DEF Fail, Finish, Inv, IInv, TypeOK
<1> QED
  BY <1>1, <1>2

\* A request that is admitted resolves the container of its record.
LEMMA AdmitStep ==
  ASSUME Inv, NEW r \in Request, Admit(r), TypeOK', GatewayTypeOK'
  PROVE  Addresses' /\ Records' /\ ViewsAreFresh' /\ Pending' /\ Stages' /\ ServedByOwner'
<1> USE DEF Admit, Begin, asked, docker, cache
<1>1. /\ Addresses' /\ Records'
      /\ \A c : Serves(c)' <=> Serves(c)
  BY RequestKeeps
<1>2. \A q \in Request :
        /\ q # r => stage'[q] = stage[q] /\ pc'[q] = pc[q] /\ target'[q] = target[q]
        /\ stage'[r] = "resolving" /\ pc'[r] = "check" /\ target'[r] = route[r].list
  BY DEF Inv, GatewayInv, GatewayTypeOK, IInv, TypeOK
<1>3. ViewsAreFresh'
  BY <1>2 DEF Inv, GatewayInv, ViewsAreFresh, Fresh
<1>4. Pending'
  <2> SUFFICES ASSUME NEW q \in Request, stage[q] \in {"routed", "resolving"}
               PROVE  /\ route[q] # None
                      /\ ~excused[q] =>
                           /\ route[q].list = route[q].group
                           /\ Serves(route[q].group)' /\ route[q].group \notin moved
                           /\ pc'[q] = "hit" => Fresh(cached, route[q].group)
                           /\ pc'[q] = "done" => answer[q] \in {None, ip[route[q].group]}
    BY <1>2 DEF Pending, Fresh
  <2>1. ~excused[q] => route[q].group \in Container
    BY PendingIsFresh
  <2> QED
    BY <1>1, <1>2, <2>1 DEF Inv, GatewayInv, Pending
<1>5. Stages'
  BY <1>2 DEF Inv, GatewayInv, Stages, Pending
<1>6. ServedByOwner'
  BY DEF Inv, GatewayInv, ServedByOwner
<1> QED
  BY <1>1, <1>3, <1>4, <1>5, <1>6

\* Whatever Resolve finds comes from a view that is fresh, whichever path it
\* takes, and Fill makes no view stale.
LEMMA ResolveStepKeeps ==
  ASSUME Inv, NEW r \in Request, Resolve(r), TypeOK', GatewayTypeOK'
  PROVE  Addresses' /\ Records' /\ ViewsAreFresh' /\ Pending' /\ Stages' /\ ServedByOwner'
<1> USE DEF gatewayVars, asked, docker, cache
<1>0. UNCHANGED <<at, published, linked, ip, moved, target, gatewayVars>> /\ stage[r] = "resolving"
  BY DEF Resolve, Check, Hit, LockCache, LateHit, Inspect, Fill, InspectFails
<1>1. /\ Addresses' /\ Records'
      /\ \A c : Serves(c)' <=> Serves(c)
  BY <1>0, RequestKeeps
<1>2. \A q \in Request \ {r} : pc'[q] = pc[q] /\ answer'[q] = answer[q] /\ seen'[q] = seen[q]
  BY DEF Resolve, Check, Hit, LockCache, LateHit, Inspect, Fill, InspectFails, Inv, IInv, TypeOK
<1>3. /\ route[r] # None
      /\ Admits(token[r], route[r].group, method[r]) /\ target[r] = route[r].list
  BY <1>0 DEF Inv, GatewayInv, Stages
<1>4. /\ pc'[r] = "inspected" => seen'[r] = ip
      /\ \/ valid' = valid /\ cached' = cached
         \/ valid' /\ cached' = seen[r] /\ pc[r] = "inspected" /\ pc'[r] = "done"
      /\ pc'[r] = "hit" => valid' /\ valid
      /\ pc'[r] = "done" => answer'[r] = None
                         \/ (pc[r] = "hit" /\ answer'[r] = cached[target[r]])
                         \/ (valid /\ answer'[r] = cached[target[r]])
                         \/ (pc[r] = "inspected" /\ answer'[r] = seen[r][target[r]])
  BY DEF Resolve, Check, Hit, LockCache, LateHit, Inspect, Fill, InspectFails, Inv, IInv, TypeOK
<1>5. ViewsAreFresh'
  <2> SUFFICES ASSUME NEW c \in Container, c \notin moved, at[c] # "disconnected"
               PROVE  /\ valid' => Fresh(cached, c)'
                      /\ \A q \in Request : pc'[q] = "inspected" => Fresh(seen[q], c)'
    BY <1>0 DEF ViewsAreFresh
  <2>1. /\ valid => Fresh(cached, c)
        /\ \A q \in Request : pc[q] = "inspected" => Fresh(seen[q], c)
    BY DEF Inv, GatewayInv, ViewsAreFresh
  <2> QED
    BY <1>0, <1>2, <1>4, <2>1 DEF Fresh
<1>6. Pending'
  <2> SUFFICES ASSUME NEW q \in Request, stage[q] \in {"routed", "resolving"}
               PROVE  /\ route[q] # None
                      /\ ~excused[q] =>
                           /\ route[q].list = route[q].group
                           /\ Serves(route[q].group)' /\ route[q].group \notin moved
                           /\ pc'[q] = "hit" => Fresh(cached, route[q].group)'
                           /\ pc'[q] = "done" => answer'[q] \in {None, ip[route[q].group]}
    BY <1>0 DEF Pending
  <2>1. route[q] # None
    BY DEF Inv, GatewayInv, Pending
  <2> SUFFICES ASSUME ~excused[q]
               PROVE  /\ route[q].list = route[q].group
                      /\ Serves(route[q].group)' /\ route[q].group \notin moved
                      /\ pc'[q] = "hit" => Fresh(cached, route[q].group)'
                      /\ pc'[q] = "done" => answer'[q] \in {None, ip[route[q].group]}
    BY <2>1
  <2> DEFINE g == route[q].group
  <2>2. /\ g \in Container /\ route[q].list = g /\ Serves(g) /\ g \notin moved
        /\ pc[q] = "hit" => Fresh(cached, g)
        /\ pc[q] = "done" => answer[q] \in {None, ip[g]}
        /\ valid => Fresh(cached, g)
        /\ \A p \in Request : pc[p] = "inspected" => Fresh(seen[p], g)
    BY PendingIsFresh DEF Inv, GatewayInv, Pending
  <2>3. Serves(g)'
    BY <1>0, <1>1, <2>2
  <2>4. pc'[q] = "hit" => Fresh(cached, g)'
    <3>1. CASE q = r
      BY <1>0, <1>4, <2>2, <3>1 DEF Fresh
    <3>2. CASE q # r
      BY <1>0, <1>2, <1>4, <2>2, <3>2 DEF Fresh
    <3> QED
      BY <3>1, <3>2
  <2>5. pc'[q] = "done" => answer'[q] \in {None, ip[g]}
    <3>1. CASE q = r
      BY <1>3, <1>4, <2>2, <3>1 DEF Fresh
    <3>2. CASE q # r
      BY <1>2, <2>2, <3>2
    <3> QED
      BY <3>1, <3>2
  <2> QED
    BY <2>2, <2>3, <2>4, <2>5
<1>7. Stages'
  BY <1>0, <1>2 DEF Inv, GatewayInv, Stages
<1>8. ServedByOwner'
  BY <1>0 DEF Inv, GatewayInv, ServedByOwner
<1> QED
  BY <1>1, <1>5, <1>6, <1>7, <1>8

\* The address that was resolved is that of one container, the right one.
LEMMA ForwardStep ==
  ASSUME Inv, NEW r \in Request, Forward(r), TypeOK', GatewayTypeOK'
  PROVE  Addresses' /\ Records' /\ ViewsAreFresh' /\ Pending' /\ Stages' /\ ServedByOwner'
<1> USE DEF Forward, Finish, asked, docker, cache
<1>1. /\ Addresses' /\ Records'
      /\ \A c : Serves(c)' <=> Serves(c)
  BY RequestKeeps
<1>2. PICK c \in Container : /\ answer[r] # None /\ ip[c] = answer[r]
                             /\ served' = [served EXCEPT ![r] = c]
  OBVIOUS
<1>3. \A q \in Request :
        /\ q # r => /\ stage'[q] = stage[q] /\ pc'[q] = pc[q] /\ answer'[q] = answer[q]
                    /\ served'[q] = served[q]
        /\ stage'[r] = "served" /\ pc'[r] = "idle" /\ served'[r] = c
  BY <1>2 DEF Inv, GatewayInv, GatewayTypeOK, IInv, TypeOK
<1>4. ~excused[r] => c = route[r].group
  <2> SUFFICES ASSUME ~excused[r] PROVE c = route[r].group
    OBVIOUS
  <2>1. route[r].group \in Container /\ answer[r] = ip[route[r].group]
    BY <1>2, PendingIsFresh DEF Inv, GatewayInv, Pending
  <2> QED
    BY <1>2, <2>1 DEF Inv, GatewayInv, Addresses
<1>5. ViewsAreFresh'
  BY <1>3 DEF Inv, GatewayInv, ViewsAreFresh, Fresh
<1>6. Pending'
  <2> SUFFICES ASSUME NEW q \in Request \ {r}, stage[q] \in {"routed", "resolving"}
               PROVE  /\ route[q] # None
                      /\ ~excused[q] =>
                           /\ route[q].list = route[q].group
                           /\ Serves(route[q].group)' /\ route[q].group \notin moved
                           /\ pc[q] = "hit" => Fresh(cached, route[q].group)
                           /\ pc[q] = "done" => answer[q] \in {None, ip[route[q].group]}
    BY <1>3 DEF Pending, Fresh
  <2>1. ~excused[q] => route[q].group \in Container
    BY PendingIsFresh
  <2> QED
    BY <1>1, <2>1 DEF Inv, GatewayInv, Pending
<1>7. Stages'
  BY <1>3 DEF Inv, GatewayInv, Stages
<1>8. ServedByOwner'
  BY <1>3, <1>4 DEF Inv, GatewayInv, ServedByOwner
<1> QED
  BY <1>1, <1>5, <1>6, <1>7, <1>8

-----------------------------------------------------------------------------
(* The theorems.                                                           *)

LEMMA GatewayInitInv == GatewayInit => Inv
<1> SUFFICES ASSUME GatewayInit PROVE Inv
  OBVIOUS
<1>1. IInv
  BY InitInv DEF GatewayInit
<1>2. GatewayTypeOK
  BY <1>1, GatewayInitType DEF IInv
<1>3. Addresses /\ Records
  BY DEF GatewayInit, Init, Nowhere, Addresses, Records, Listed, Routes!TableInit
<1>4. ViewsAreFresh /\ Pending /\ Stages /\ ServedByOwner
  BY DEF GatewayInit, Init, ViewsAreFresh, Pending, Stages, ServedByOwner
<1> QED
  BY <1>1, <1>2, <1>3, <1>4 DEF Inv, GatewayInv

LEMMA GatewayStepInv == Inv /\ [GatewayNext]_gateway => Inv'
<1> SUFFICES ASSUME Inv, [GatewayNext]_gateway PROVE Inv'
  OBVIOUS
<1>1. IInv'
  <2>1. CASE Next
    BY <2>1, PackageKeeps, BeginStep, CheckStep, LockStep, AnswerStep, InspectStep, FillStep,
       FinishStep DEF Next, ResolveStep, Inv
  <2>2. CASE UNCHANGED vars
    BY <2>2, StutterInv DEF Inv
  <2> QED
    BY <2>1, <2>2, NetworkStep
<1>2. TypeOK' /\ GatewayTypeOK'
  BY <1>1, GatewayTypeStep DEF Inv, IInv, GatewayInv
<1>3. Addresses' /\ Records' /\ ViewsAreFresh' /\ Pending' /\ Stages' /\ ServedByOwner'
  <2>1. ASSUME NEW c \in Container, PackageNext(c)
        PROVE  Addresses' /\ Records' /\ ViewsAreFresh' /\ Pending' /\ Stages' /\ ServedByOwner'
    <3>1. CASE Invalidate(c) /\ UNCHANGED gatewayVars
      BY <1>2, <3>1, InvalidateKeeps
    <3>2. CASE ~(Invalidate(c) /\ UNCHANGED gatewayVars)
      BY <1>2, <2>1, <3>2, PublishStep, WithdrawStep, EnterStep, MoveStep, LeaveStep
         DEF PackageNext, Enter
    <3> QED
      BY <3>1, <3>2
  <2>2. ASSUME NEW r \in Request, ServeNext(r)
        PROVE  Addresses' /\ Records' /\ ViewsAreFresh' /\ Pending' /\ Stages' /\ ServedByOwner'
    BY <1>2, <2>2, RouteStep, RequestEnds, AdmitStep, ResolveStepKeeps, ForwardStep DEF ServeNext
  <2>3. CASE UNCHANGED gateway
    BY <2>3 DEF gateway, gatewayVars, asked, vars, docker, cache, request, Inv, GatewayInv,
                Addresses, Records, Listed, Serves, ViewsAreFresh, Fresh, Pending, Stages, ServedByOwner
  <2> QED
    BY <2>1, <2>2, <2>3 DEF GatewayNext
<1> QED
  BY <1>1, <1>2, <1>3 DEF Inv, GatewayInv

THEOREM GatewayInvariance == GatewaySpec => []Inv
  BY GatewayInitInv, GatewayStepInv, PTL DEF GatewaySpec

\* The table, the requests and the network under them keep their types.
THEOREM GatewayTypeCorrect == GatewaySpec => []GatewayTypeOK
<1>1. Inv => GatewayTypeOK
  BY DEF Inv, GatewayInv
<1> QED
  BY <1>1, GatewayInvariance, PTL

\* Whatever is cached, however addresses are reused: a request is answered by
\* the container of the package it was routed to, unless that gives up its address.
THEOREM RequestsServedByOwner == GatewaySpec => []ServedByOwner
<1>1. Inv => ServedByOwner
  BY DEF Inv, GatewayInv
<1> QED
  BY <1>1, GatewayInvariance, PTL

\* The container that answers is one the token of the request is for, also if
\* the package has withdrawn and another one has its domain by then.
THEOREM RequestsAdmitted == GatewaySpec => []OnlyAdmitted
<1>1. Inv => OnlyAdmitted
  BY DEF Inv, GatewayInv, ServedByOwner, Stages, Admits, OnlyAdmitted
<1> QED
  BY <1>1, GatewayInvariance, PTL

\* Behind the router, too, nobody is sent to a container that has left.
THEOREM GatewayForgetsLeft == GatewaySpec => []LeftIsForgotten
  BY ImplementsNetwork, LeftAreForgotten, PTL

\* Behind the router, too, the cache knows the compositions that have joined.
THEOREM GatewayKnowsConnected == GatewaySpec => []ConnectedIsKnown
  BY ImplementsNetwork, ConnectedAreKnown, PTL
=============================================================================
