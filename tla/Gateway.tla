------------------------------ MODULE Gateway ------------------------------
(***************************************************************************)
(* The way of a request from the HTTP server to a container: the router    *)
(* (core/ingress/embedded/router.go) looks its domain up in the routing    *)
(* table, the JWT handler (auth_jwt.go) admits it or not, and the proxy    *)
(* (proxy.go) resolves the container through the network of Network and    *)
(* passes the request on to whoever has the address by then.  Packages     *)
(* enter the table after they have joined the network and leave it first.  *)
(*                                                                         *)
(* The table is the abstract one of RoutingTable, which Ingress            *)
(* implements; a package has one container here, and publishes one domain  *)
(* at a time, which may be another one in its next deployment, and may be  *)
(* asked for by other packages: "a.b" is the root of a package a.b and     *)
(* service a of a package b.                                               *)
(***************************************************************************)
EXTENDS Network

CONSTANTS Domain,    \* domains requests ask for
          DomainsOf, \* the domains each container's package may ask for
          Method,    \* HTTP methods
          Token      \* tokens requests carry

\* A token that parses is signed with the key and in force; a token without a
\* subject is for all groups, one without methods for all methods, and what it
\* names may be anything.
Claims == [valid : BOOLEAN, audience : BOOLEAN,
           subject : Container \cup {None}, methods : SUBSET STRING]

ASSUME GatewayAssumption == /\ DomainsOf \in [Container -> SUBSET Domain]
                            /\ Token \subseteq Claims
                            /\ None \notin Container

VARIABLES
    table,     \* Router.routes, the list the ingress has stored last
    stage,     \* where each request is in ServeHTTP
    route,     \* the record it was routed with, or None
    token,     \* its token
    method,    \* its method; None between requests
    served,    \* the container that has answered it, or None
    excused    \* its container has lost or changed its address (history)

asked == <<route, token, method>>
gatewayVars == <<table, stage, asked, served, excused>>
gateway == <<vars, gatewayVars>>

\* The package of a container is its own group.
Routes == INSTANCE RoutingTable WITH Group <- Container, Addresses <- Container

Listed(c) == \E d \in Domain : table[d] # None /\ table[d].group = c

GatewayInit ==
    /\ Init
    /\ Routes!TableInit
    /\ stage = [r \in Request |-> "accepting"]
    /\ route = [r \in Request |-> None]
    /\ token = [r \in Request |-> None]
    /\ method = [r \in Request |-> None]
    /\ served = [r \in Request |-> None]
    /\ excused = [r \in Request |-> FALSE]

-----------------------------------------------------------------------------
(* The packages.                                                           *)

\* Ingress.Set after the container runs in the network; it fails when the
\* domain is another's, and the package ends.
Publish(c) ==
    /\ Announce(c)
    /\ ~Listed(c)
    /\ \E own \in DomainsOf[c] :
         Routes!Register(c, [d \in Domain |-> IF d = own THEN c ELSE None])
    /\ UNCHANGED <<stage, asked, served, excused>>

\* The deferred Ingress.Clear.  The container runs on for a while, and others
\* may take the domain.
Withdraw(c) ==
    /\ Listed(c)
    /\ Routes!Withdraw(c)
    /\ UNCHANGED <<vars, stage, asked, served, excused>>

\* Steps of the network that keep the addresses of those who serve.
Enter(c) ==
    /\ \/ Create(c) \/ Up(c) \/ JoinLinked(c) \/ Connect(c) \/ Invalidate(c) \/ Start(c)
    /\ UNCHANGED gatewayVars

\* The requests routed to c are excused from here on: its address may be
\* another container's when they are forwarded.
Excuse(c) ==
    /\ excused' = [r \in Request |-> excused[r] \/ (route[r] # None /\ route[r].group = c)]
    /\ UNCHANGED <<table, stage, asked, served>>

\* The container fails, or docker restarts it elsewhere.
Move(c) == (Exits(c) \/ Restart(c)) /\ Excuse(c)

\* Mutant: the deferred calls run in another order, Leave before Clear.
LeaveListed(c) == (Disconnect(c) \/ EndLinked(c)) /\ Excuse(c)

\* Leave runs after Clear: defers run backwards.
Leave(c) == ~Listed(c) /\ (Disconnect(c) \/ EndLinked(c)) /\ Excuse(c)

PackageNext(c) ==
    Publish(c) \/ Withdraw(c) \/ Enter(c) \/ Move(c) \/ Leave(c)

-----------------------------------------------------------------------------
(* Requests.                                                               *)

\* ServeHTTP loads the table and looks the domain up, once; a domain that
\* nobody has is answered with the index page, and nothing changes.
Route(r) ==
    /\ stage[r] = "accepting"
    /\ \E d \in Domain, t \in Token, m \in Method :
        /\ table[d] # None
        /\ route' = [route EXCEPT ![r] = table[d]]
        /\ token' = [token EXCEPT ![r] = t]
        /\ method' = [method EXCEPT ![r] = m]
        /\ excused' = [excused EXCEPT ![r] = table[d].group \in moved]
    /\ stage' = [stage EXCEPT ![r] = "routed"]
    /\ UNCHANGED <<vars, table, served>>

\* What the JWT handler asks of token t for a request with method m to group g.
Admits(t, g, m) ==
    /\ t.valid /\ t.audience
    /\ t.subject \in {None, g}
    /\ t.methods = {} \/ m \in t.methods

\* The client has its answer, the connection takes the next request.
EndOf(r) ==
    /\ stage' = [stage EXCEPT ![r] = "accepting"]
    /\ route' = [route EXCEPT ![r] = None]
    /\ token' = [token EXCEPT ![r] = None]
    /\ method' = [method EXCEPT ![r] = None]
    /\ served' = [served EXCEPT ![r] = None]
    /\ excused' = [excused EXCEPT ![r] = FALSE]
    /\ UNCHANGED table

\* Unauthorized or forbidden: the chain ends with ErrAbort.
Refuse(r) ==
    /\ stage[r] = "routed"
    /\ ~Admits(token[r], route[r].group, method[r])
    /\ EndOf(r)
    /\ UNCHANGED vars

\* Mutant: the domain is looked up again after the token was checked.
AdmitLatest(r) ==
    /\ stage[r] = "routed"
    /\ Admits(token[r], route[r].group, method[r])
    /\ stage' = [stage EXCEPT ![r] = "resolving"]
    /\ Begin(r)
    /\ \E d \in DomainsOf[route[r].group] : table[d] # None /\ target'[r] = table[d].list
    /\ UNCHANGED <<table, asked, served, excused>>

\* The proxy takes an address of the record and calls Resolve.
Admit(r) ==
    /\ stage[r] = "routed"
    /\ Admits(token[r], route[r].group, method[r])
    /\ stage' = [stage EXCEPT ![r] = "resolving"]
    /\ Begin(r)
    /\ target'[r] = route[r].list
    /\ UNCHANGED <<table, asked, served, excused>>

\* The steps of Resolve.
Resolve(r) ==
    /\ stage[r] = "resolving"
    /\ \/ Check(r) \/ Hit(r) \/ LockCache(r) \/ LateHit(r)
       \/ Inspect(r) \/ Fill(r) \/ InspectFails(r)
    /\ UNCHANGED gatewayVars

\* The request is sent to the address, and whoever has it now answers.
Forward(r) ==
    /\ stage[r] = "resolving" /\ pc[r] = "done"
    /\ \E c \in Container :
        /\ answer[r] # None /\ ip[c] = answer[r]
        /\ served' = [served EXCEPT ![r] = c]
    /\ stage' = [stage EXCEPT ![r] = "served"]
    /\ Finish(r)
    /\ UNCHANGED <<table, asked, excused>>

\* Resolve has failed, or nobody has the address: an error of the server.
Fail(r) ==
    /\ stage[r] = "resolving" /\ pc[r] = "done"
    /\ answer[r] = None \/ answer[r] \in Free
    /\ EndOf(r)
    /\ Finish(r)

\* The answer has been passed on.
Reply(r) ==
    /\ stage[r] = "served"
    /\ EndOf(r)
    /\ UNCHANGED vars

ServeNext(r) == \/ Route(r) \/ Refuse(r) \/ Admit(r) \/ Resolve(r)
                \/ Forward(r) \/ Fail(r) \/ Reply(r)

GatewayNext == \/ \E c \in Container : PackageNext(c)
               \/ \E r \in Request : ServeNext(r)

GatewaySpec == GatewayInit /\ [][GatewayNext]_gateway

-----------------------------------------------------------------------------
GatewayTypeOK ==
    /\ TypeOK
    /\ Routes!TableTypeOK
    /\ stage \in [Request -> {"accepting", "routed", "resolving", "served"}]
    /\ route \in [Request -> Routes!Lease \cup {None}]
    /\ token \in [Request -> Token \cup {None}]
    /\ method \in [Request -> Method \cup {None}]
    /\ served \in [Request -> Container \cup {None}]
    /\ excused \in [Request -> BOOLEAN]

\* A request is answered by the container of the record it was routed with,
\* though its address is looked up in a cache and dialled later, though
\* addresses are given to other containers, and though the package withdraws
\* and another one takes the domain: unless the container itself gives up its
\* address while the request is under way, or has got one that nobody told the
\* cache of (see RestartedIsResolved and RejoinedIsResolved).
ServedByOwner ==
    \A r \in Request :
        served[r] # None /\ ~excused[r] => served[r] = route[r].group

\* No container is reached with a token for another group, or for other
\* methods, by a request whose own container has kept its address: also if
\* the domain has passed to another group since the token was looked at.
OnlyAdmitted ==
    \A r \in Request :
        served[r] # None /\ ~excused[r] =>
            /\ token[r].valid /\ token[r].audience
            /\ token[r].subject \in {None, served[r]}
            /\ token[r].methods = {} \/ method[r] \in token[r].methods

\* What makes ServedByOwner inductive.

\* No two containers have one address, and a container that does not run in
\* the network has none.
Addresses ==
    /\ \A c, d \in Container : ip[c] # None /\ ip[c] = ip[d] => c = d
    /\ \A c \in Container :
        (\/ at[c] \in {"absent", "disconnected", "left", "stopped", "removed"}
         \/ at[c] = "joining" /\ c \notin linked
         \/ c \in Plain /\ at[c] # "started") => ip[c] = None

\* Only a package that serves has a record, which leads to its container.
Records ==
    /\ \A c \in Container : Listed(c) => Serves(c) /\ c \in published
    /\ \A d \in Domain : table[d] # None => table[d].list = table[d].group

\* A view of the network has the address of c or none.
Fresh(view, c) == view[c] \in {None, ip[c]}

ViewsAreFresh ==
    \A c \in Container : c \notin moved /\ at[c] # "disconnected" =>
        /\ valid => Fresh(cached, c)
        /\ \A r \in Request : pc[r] = "inspected" => Fresh(seen[r], c)

\* A request that is not excused has a record whose container is where it was,
\* withdrawn or not, and holds no address but that of its container.
Pending ==
    \A r \in Request : stage[r] \in {"routed", "resolving"} =>
        /\ route[r] # None
        /\ ~excused[r] =>
            /\ route[r].list = route[r].group
            /\ Serves(route[r].group) /\ route[r].group \notin moved
            /\ pc[r] = "hit" => Fresh(cached, route[r].group)
            /\ pc[r] = "done" => answer[r] \in {None, ip[route[r].group]}

\* Where a request is in ServeHTTP and in Resolve.
Stages ==
    \A r \in Request :
        /\ stage[r] # "resolving" => pc[r] = "idle"
        /\ route[r] # None => route[r].group \in published
        /\ stage[r] = "resolving" => target[r] = route[r].list
        /\ served[r] # None => stage[r] = "served"
        /\ stage[r] \in {"resolving", "served"} =>
            /\ route[r] # None
            /\ Admits(token[r], route[r].group, method[r])

\* The inductive invariant, above that of Network.
GatewayInv == /\ GatewayTypeOK /\ Addresses /\ Records /\ ViewsAreFresh
              /\ Pending /\ Stages /\ ServedByOwner
=============================================================================
