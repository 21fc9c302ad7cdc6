--------------------------- MODULE IngressProofs ---------------------------
(***************************************************************************)
(* Proofs about Ingress for any packages, names, domains and addresses:    *)
(* the safety properties its runs check, and that it implements            *)
(* RoutingTable.  IInv, the inductive invariant, is defined in Ingress so  *)
(* that TLC evaluates it as well; each of its conjuncts has a lemma.       *)
(***************************************************************************)
EXTENDS Ingress, TLAPS

-----------------------------------------------------------------------------
(* Type correctness.                                                       *)

LEMMA InitInv == Init => IInv
<1> SUFFICES ASSUME Init PROVE IInv
  OBVIOUS
<1> USE ClientAssumption DEF Init
<1>1. TypeOK
  BY DEF TypeOK, Places, Ask, Nothing
<1>2. MutexHeld
  BY DEF MutexHeld, Inside
<1>3. LeaseIndex
  BY DEF LeaseIndex
<1>4. PublishedIsCached
  BY DEF PublishedIsCached
<1>5. Phases
  BY DEF Phases, Phase
<1>6. RegisteredIsRouted /\ NoDanglingRoute
  BY DEF RegisteredIsRouted, NoDanglingRoute
<1> QED
  BY <1>1, <1>2, <1>3, <1>4, <1>5, <1>6 DEF IInv

LEMMA TypeStep == TypeOK /\ Phases /\ Next => TypeOK'
<1> SUFFICES ASSUME TypeOK, Phases, NEW c \in Client,
                    CallSet(c) \/ CallClear(c) \/ Lock(c) \/ Progress(c)
             PROVE TypeOK'
  BY DEF Next
<1> USE DEF TypeOK, Places, cache
<1>1. CASE CallSet(c)
  BY <1>1 DEF CallSet
<1>2. CASE CallClear(c)
  BY <1>2 DEF CallClear, Nothing, Ask
<1>3. CASE Lock(c)
  BY <1>3 DEF Lock
<1>4. CASE Refuse(c)
  BY <1>4, ClientAssumption DEF Refuse
<1>5. CASE Accept(c)
  BY <1>5 DEF Accept
<1>6. CASE ClearGroup(c)
  BY <1>6, ClientAssumption DEF ClearGroup, Asked
<1>7. CASE AddDomain(c)
  <2>1. PICK d \in todo[c] :
           /\ domainsByGroup' = [domainsByGroup EXCEPT ![GroupOf[c]] = @ \cup {d}]
           /\ addressesByDomain' =
                [addressesByDomain EXCEPT ![d] = [group |-> GroupOf[c], list |-> asks[c][d]]]
           /\ todo' = [todo EXCEPT ![c] = @ \ {d}]
    BY <1>7 DEF AddDomain
  <2>2. d \in Domain /\ asks[c][d] \in Addresses
    BY <1>7, <2>1 DEF AddDomain, Asked, Ask, Phases, Phase
  <2>3. [group |-> GroupOf[c], list |-> asks[c][d]] \in Lease
    BY <2>2, ClientAssumption DEF Lease
  <2>4. addressesByDomain' \in [Domain -> Lease \cup {None}]
    BY <2>1, <2>2, <2>3
  <2>5. domainsByGroup' \in [Group -> SUBSET Domain] /\ todo' \in [Client -> SUBSET Domain]
    BY <2>1, <2>2, ClientAssumption
  <2> QED
    BY <1>7, <2>4, <2>5 DEF AddDomain
<1>8. CASE Publish(c)
  BY <1>8 DEF Publish
<1>9. CASE Return(c)
  BY <1>9 DEF Return
<1> QED
  BY <1>1, <1>2, <1>3, <1>4, <1>5, <1>6, <1>7, <1>8, <1>9 DEF Progress

-----------------------------------------------------------------------------
(* Mutual exclusion, and the two maps of the cache.                        *)

LEMMA MutexStep == TypeOK /\ MutexHeld /\ Next => MutexHeld'
<1> SUFFICES ASSUME TypeOK, MutexHeld, NEW c \in Client,
                    CallSet(c) \/ CallClear(c) \/ Lock(c) \/ Progress(c)
             PROVE MutexHeld'
  BY DEF Next
<1> USE ClientAssumption DEF TypeOK, MutexHeld, Inside, Holding
<1>1. CASE CallSet(c) \/ CallClear(c)
  BY <1>1 DEF CallSet, CallClear
<1>2. CASE Lock(c)
  BY <1>2 DEF Lock
<1>3. CASE Refuse(c) \/ Accept(c)
  BY <1>3 DEF Refuse, Accept
<1>4. CASE ClearGroup(c) \/ AddDomain(c) \/ Publish(c)
  BY <1>4 DEF ClearGroup, AddDomain, Publish
<1>5. CASE Return(c)
  BY <1>5 DEF Return
<1> QED
  BY <1>1, <1>2, <1>3, <1>4, <1>5 DEF Progress

LEMMA LeaseIndexStep == TypeOK /\ LeaseIndex /\ Phases /\ Next => LeaseIndex'
<1> SUFFICES ASSUME TypeOK, LeaseIndex, Phases, NEW c \in Client,
                    CallSet(c) \/ CallClear(c) \/ Lock(c) \/ Progress(c)
             PROVE LeaseIndex'
  BY DEF Next
<1> USE ClientAssumption DEF TypeOK
<1>1. CASE UNCHANGED cache
  BY <1>1 DEF LeaseIndex, cache
<1>2. CASE ClearGroup(c)
  BY <1>2 DEF ClearGroup, LeaseIndex, Lease
<1>3. CASE AddDomain(c)
  <2>1. PICK d \in todo[c] :
           /\ domainsByGroup' = [domainsByGroup EXCEPT ![GroupOf[c]] = @ \cup {d}]
           /\ addressesByDomain' =
                [addressesByDomain EXCEPT ![d] = [group |-> GroupOf[c], list |-> asks[c][d]]]
    BY <1>3 DEF AddDomain
  <2>2. d \in Domain /\ addressesByDomain[d] = None
    BY <1>3, <2>1 DEF AddDomain, Phases, Phase, Asked
  <2>3. \A g \in Group : d \notin domainsByGroup[g]
    BY <2>2 DEF LeaseIndex
  <2>4. [group |-> GroupOf[c], list |-> asks[c][d]] # None
    <3>1. asks[c][d] \in Addresses
      BY <1>3, <2>1, <2>2 DEF AddDomain, Phases, Phase, Asked, Ask
    <3> QED
      BY <3>1 DEF Lease
  <2> QED
    BY <2>1, <2>2, <2>3, <2>4 DEF LeaseIndex
<1> QED
  BY <1>1, <1>2, <1>3
  DEF Progress, CallSet, CallClear, Lock, Refuse, Accept, Publish, Return, cache

-----------------------------------------------------------------------------
(* What a client relies on at each place of its call.                      *)

\* While one client is inside, the others have nothing to rely on.
LEMMA OthersOutside ==
  ASSUME MutexHeld, NEW b \in Client, NEW c \in Client, b # c, Inside(c)
  PROVE  ~Inside(b)
BY DEF MutexHeld

\* The cache is the published table when a client starts to clear.
LEMMA ClearStartsPublished ==
  ASSUME MutexHeld, PublishedIsCached, NEW c \in Client, pc[c] = "clearing"
  PROVE  routes = addressesByDomain
<1>1. \A b \in Client : b # c => ~Inside(b)
  BY OthersOutside DEF Inside
<1> QED
  BY <1>1 DEF PublishedIsCached, Inside

LEMMA PhasesStep ==
  TypeOK /\ MutexHeld /\ LeaseIndex /\ PublishedIsCached /\ Phases /\ Next => Phases'
<1> SUFFICES ASSUME TypeOK, MutexHeld, LeaseIndex, PublishedIsCached, Phases,
                    NEW c \in Client,
                    CallSet(c) \/ CallClear(c) \/ Lock(c) \/ Progress(c),
                    NEW b \in Client
             PROVE Phase(b)'
  BY DEF Next, Phases
<1>0. Phase(b) /\ Phase(c)
  BY DEF Phases
<1> USE <1>0, ClientAssumption DEF TypeOK, Places
<1>1. CASE b # c /\ ~Inside(b)
  BY <1>1
  DEF Phase, Inside, CallSet, CallClear, Lock, Progress, Refuse, Accept,
      ClearGroup, AddDomain, Publish, Return
<1>2. CASE b # c /\ Inside(b)
  <2>1. ~Inside(c)
    BY <1>2, OthersOutside
  <2>2. UNCHANGED <<cache, routes>> /\ UNCHANGED <<pc[b], op[b], asks[b], todo[b]>>
    BY <1>2, <2>1
    DEF Inside, CallSet, CallClear, Lock, Progress, Refuse, Accept,
        ClearGroup, AddDomain, Publish, Return
  <2> QED
    BY <2>2 DEF Phase, cache, Asked, Conflict, Promise!Free, Promise!Replace
<1>3. CASE b = c
  <2>1. CASE CallSet(c) \/ CallClear(c)
    BY <1>3, <2>1 DEF CallSet, CallClear, Phase, Nothing
  <2>2. CASE Lock(c)
    BY <1>3, <2>2 DEF Lock, Phase, Asked, Nothing
  <2>3. CASE Refuse(c) \/ Return(c)
    BY <1>3, <2>3 DEF Refuse, Return, Phase
  <2>4. CASE Accept(c)
    BY <1>3, <2>4 DEF Accept, Phase, Asked, Conflict, cache
  <2>5. CASE ClearGroup(c)
    <3>1. routes = addressesByDomain
      BY <2>5, ClearStartsPublished DEF ClearGroup
    <3>2. \A d \in Asked(c) : Promise!Free(routes, GroupOf[c], d)
      BY <2>5, <3>1 DEF ClearGroup, Phase, Conflict, Promise!Free
    <3>3. ASSUME NEW d \in Domain
          PROVE addressesByDomain'[d] =
                  IF d \in Asked(c) THEN None
                  ELSE Promise!Replace(routes, GroupOf[c], asks[c])[d]
      BY <2>5, <3>1, <3>2
      DEF ClearGroup, LeaseIndex, Asked, Promise!Free, Promise!Replace
    <3>4. /\ pc' = [pc EXCEPT ![c] = "adding"]
          /\ UNCHANGED <<routes, op, asks>>
          /\ todo' = [todo EXCEPT ![c] = Asked(c)]
      BY <2>5 DEF ClearGroup
    <3>5. op[c] = "clear" => asks[c] = Nothing
      BY DEF Phase
    <3>6. op[c] \in {"set", "clear"}
      BY <2>5 DEF ClearGroup, Phase
    <3> QED
      BY <1>3, <3>2, <3>3, <3>4, <3>5, <3>6 DEF Phase, Asked, Promise!Free, Promise!Replace
  <2>6. CASE AddDomain(c)
    <3>1. PICK d \in todo[c] :
             /\ addressesByDomain' =
                  [addressesByDomain EXCEPT ![d] = [group |-> GroupOf[c], list |-> asks[c][d]]]
             /\ todo' = [todo EXCEPT ![c] = @ \ {d}]
      BY <2>6 DEF AddDomain
    <3>2. d \in Domain /\ asks[c][d] # None /\ todo[c] \subseteq Asked(c)
      BY <2>6 DEF AddDomain, Phase, Asked
    <3>3. ASSUME NEW e \in Domain
          PROVE addressesByDomain'[e] =
                  IF e \in todo'[c] THEN None
                  ELSE Promise!Replace(routes, GroupOf[c], asks[c])[e]
      BY <2>6, <3>1, <3>2 DEF AddDomain, Phase, Promise!Replace
    <3>4. UNCHANGED <<routes, pc, op, asks>>
      BY <2>6 DEF AddDomain
    <3> QED
      BY <1>3, <2>6, <3>1, <3>2, <3>3, <3>4
      DEF Phase, Asked, AddDomain, Promise!Free, Promise!Replace
  <2>7. CASE Publish(c)
    BY <1>3, <2>7 DEF Publish, Phase
  <2> QED
    BY <2>1, <2>2, <2>3, <2>4, <2>5, <2>6, <2>7 DEF Progress
<1> QED
  BY <1>1, <1>2, <1>3

\* Publishing replaces the group's leases in the table, and nothing else, and
\* only where the group may lease.
LEMMA PublishReplaces ==
  ASSUME TypeOK, Phases, NEW c \in Client, Publish(c)
  PROVE  /\ routes' = Promise!Replace(routes, GroupOf[c], asks[c])
         /\ \A d \in Asked(c) : Promise!Free(routes, GroupOf[c], d)
<1>1. Phase(c) /\ pc[c] = "adding" /\ todo[c] = {} /\ routes' = addressesByDomain
  BY DEF Phases, Publish
<1>2. \A d \in Domain :
         addressesByDomain[d] = Promise!Replace(routes, GroupOf[c], asks[c])[d]
  BY <1>1 DEF Phase
<1>3. addressesByDomain = Promise!Replace(routes, GroupOf[c], asks[c])
  BY <1>2 DEF TypeOK, Promise!Replace
<1> QED
  BY <1>1, <1>3 DEF Phase

-----------------------------------------------------------------------------
(* What requests are routed with.                                          *)

LEMMA PublishedStep ==
  TypeOK /\ MutexHeld /\ PublishedIsCached /\ Next => PublishedIsCached'
<1> SUFFICES ASSUME TypeOK, MutexHeld, PublishedIsCached, NEW c \in Client,
                    CallSet(c) \/ CallClear(c) \/ Lock(c) \/ Progress(c)
             PROVE PublishedIsCached'
  BY DEF Next
<1> USE DEF TypeOK, PublishedIsCached
<1>1. CASE CallSet(c) \/ CallClear(c)
  BY <1>1 DEF CallSet, CallClear, Holding, cache
<1>2. CASE Lock(c)
  BY <1>2 DEF Lock, cache
<1>3. CASE Refuse(c) \/ Accept(c) \/ Return(c)
  BY <1>3 DEF Refuse, Accept, Return, cache
<1>4. CASE ClearGroup(c) \/ AddDomain(c)
  BY <1>4 DEF ClearGroup, AddDomain
<1>5. CASE Publish(c)
  BY <1>5 DEF Publish, cache
<1> QED
  BY <1>1, <1>2, <1>3, <1>4, <1>5 DEF Progress

\* Every step that is not a publication leaves the table alone.
LEMMA OnlyPublish ==
  ASSUME NEW c \in Client,
         CallSet(c) \/ CallClear(c) \/ Lock(c) \/ Progress(c), ~Publish(c)
  PROVE  UNCHANGED routes
BY DEF CallSet, CallClear, Lock, Progress, Refuse, Accept, ClearGroup, AddDomain, Return

LEMMA RegisteredStep ==
  TypeOK /\ Phases /\ RegisteredIsRouted /\ Next => RegisteredIsRouted'
<1> SUFFICES ASSUME TypeOK, Phases, RegisteredIsRouted, NEW c \in Client,
                    CallSet(c) \/ CallClear(c) \/ Lock(c) \/ Progress(c),
                    NEW b \in Client, OwnName(b),
                    op'[b] = "set", pc'[b] \in {"out", "returning"},
                    NEW d \in Domain
             PROVE IF asks'[b][d] # None
                   THEN routes'[d] = [group |-> GroupOf[b], list |-> asks'[b][d]]
                   ELSE routes'[d] # None => routes'[d].group # GroupOf[b]
  BY DEF Next, RegisteredIsRouted, OwnName
<1> USE ClientAssumption DEF TypeOK, Places
<1>1. CASE Publish(c)
  <2>1. /\ routes' = Promise!Replace(routes, GroupOf[c], asks[c])
        /\ \A e \in Asked(c) : Promise!Free(routes, GroupOf[c], e)
        /\ UNCHANGED <<op, asks>>
        /\ pc' = [pc EXCEPT ![c] = "returning"]
    BY <1>1, PublishReplaces DEF Publish
  <2>2. CASE b = c
    BY <2>1, <2>2 DEF Promise!Replace
  <2>3. CASE b # c
    <3>1. GroupOf[c] # GroupOf[b]
      BY <2>3 DEF OwnName
    <3>2. IF asks[b][d] # None
          THEN routes[d] = [group |-> GroupOf[b], list |-> asks[b][d]]
          ELSE routes[d] # None => routes[d].group # GroupOf[b]
      BY <2>1, <2>3 DEF RegisteredIsRouted
    <3>3. asks[b][d] # None => routes[d] # None
      <4>1. asks[b][d] # None => asks[b][d] \in Addresses
        BY DEF Ask
      <4> QED
        BY <4>1, <3>2
    <3> QED
      BY <2>1, <3>1, <3>2, <3>3 DEF Promise!Replace, Promise!Free, Asked
  <2> QED
    BY <2>2, <2>3
<1>2. CASE ~Publish(c)
  <2>1. UNCHANGED routes
    BY <1>2, OnlyPublish
  <2>2. asks'[b] = asks[b] /\ op[b] = "set" /\ pc[b] \in {"out", "returning"}
    BY <1>2
    DEF CallSet, CallClear, Lock, Progress, Refuse, Accept, ClearGroup, AddDomain, Return
  <2> QED
    BY <2>1, <2>2 DEF RegisteredIsRouted
<1> QED
  BY <1>1, <1>2

\* b is the package behind a route of its name.
Behind(b) == \/ Holding(b)
             \/ op[b] = "set" /\ pc[b] = "returning"
             \/ op[b] = "clear" /\ pc[b] # "out" /\ pc[b] # "returning"

LEMMA DanglingStep == TypeOK /\ Phases /\ NoDanglingRoute /\ Next => NoDanglingRoute'
<1> SUFFICES ASSUME TypeOK, Phases, NoDanglingRoute, NEW c \in Client,
                    CallSet(c) \/ CallClear(c) \/ Lock(c) \/ Progress(c),
                    NEW d \in Domain, routes'[d] # None
             PROVE \E b \in Client : GroupOf[b] = routes'[d].group /\ Behind(b)'
  BY DEF Next, NoDanglingRoute, Behind
<1> USE ClientAssumption DEF TypeOK, Places
<1>1. CASE Publish(c)
  <2>1. /\ routes' = Promise!Replace(routes, GroupOf[c], asks[c])
        /\ UNCHANGED <<op, asks>>
        /\ pc' = [pc EXCEPT ![c] = "returning"]
        /\ op[c] \in {"set", "clear"}
        /\ op[c] = "clear" => asks[c] = Nothing
    BY <1>1, PublishReplaces DEF Publish, Phases, Phase
  <2>2. CASE routes'[d].group = GroupOf[c]
    <3>1. asks[c][d] # None
      BY <2>1, <2>2 DEF Promise!Replace
    <3>2. op[c] = "set"
      BY <2>1, <3>1 DEF Nothing
    <3> QED
      BY <2>1, <2>2, <3>2 DEF Behind
  <2>3. CASE routes'[d].group # GroupOf[c]
    <3>1. routes'[d] = routes[d]
      BY <2>1, <2>3 DEF Promise!Replace
    <3>2. PICK b \in Client : GroupOf[b] = routes[d].group /\ Behind(b)
      BY <3>1 DEF NoDanglingRoute, Behind
    <3>3. b # c
      BY <2>3, <3>1, <3>2
    <3> QED
      BY <2>1, <3>1, <3>2, <3>3 DEF Behind, Holding
  <2> QED
    BY <2>2, <2>3
<1>2. CASE ~Publish(c)
  <2>1. UNCHANGED routes
    BY <1>2, OnlyPublish
  <2>2. PICK b \in Client : GroupOf[b] = routes[d].group /\ Behind(b)
    BY <2>1 DEF NoDanglingRoute, Behind
  <2>3. Behind(b)'
    BY <1>2, <2>2
    DEF Phases, Phase, Behind, Holding, CallSet, CallClear, Lock, Progress, Refuse,
        Accept, ClearGroup, AddDomain, Return
  <2> QED
    BY <2>1, <2>2, <2>3
<1> QED
  BY <1>1, <1>2

-----------------------------------------------------------------------------
(* The theorems.                                                           *)

LEMMA StutterInv == IInv /\ UNCHANGED vars => IInv'
<1> SUFFICES ASSUME IInv, UNCHANGED vars PROVE IInv'
  OBVIOUS
<1> USE DEF IInv, vars
<1>1. TypeOK' /\ MutexHeld'
  BY DEF TypeOK, MutexHeld, Inside
<1>2. LeaseIndex' /\ PublishedIsCached'
  BY DEF LeaseIndex, PublishedIsCached
<1>3. Phases'
  BY DEF Phases, Phase, Asked, Conflict, Promise!Free, Promise!Replace
<1>4. RegisteredIsRouted' /\ NoDanglingRoute'
  BY DEF RegisteredIsRouted, NoDanglingRoute, Holding, OwnName
<1> QED
  BY <1>1, <1>2, <1>3, <1>4

\* The strengthening of all the safety invariants is an invariant: whatever
\* the packages call, in any interleaving.
THEOREM Invariance == Spec => []IInv
<1>1. IInv /\ [Next]_vars => IInv'
  BY TypeStep, MutexStep, LeaseIndexStep, PublishedStep, PhasesStep,
     RegisteredStep, DanglingStep, StutterInv
  DEF IInv
<1> QED
  BY InitInv, <1>1, PTL DEF Spec

\* The maps, the mutex and the places of the calls keep their types.
THEOREM TypeCorrect == Spec => []TypeOK
<1>1. IInv => TypeOK
  BY DEF IInv
<1> QED
  BY <1>1, Invariance, PTL

\* The index by group and the index by domain of cachedIngress agree at every
\* step of clearGroup and of the loop in Set.
THEOREM IndexesAgree == Spec => []LeaseIndex
<1>1. IInv => LeaseIndex
  BY DEF IInv
<1> QED
  BY <1>1, Invariance, PTL

\* The router serves the cache's table whenever no Set or Clear is halfway.
THEOREM RouterIsCurrent == Spec => []PublishedIsCached
<1>1. IInv => PublishedIsCached
  BY DEF IInv
<1> QED
  BY <1>1, Invariance, PTL

\* A package with a name of its own is routed exactly as it asked, from the
\* return of Set to its call of Clear.
THEOREM HoldersAreRouted == Spec => []HolderIsRouted
<1>1. IInv => HolderIsRouted
  BY DEF IInv, RegisteredIsRouted, HolderIsRouted, Holding
<1> QED
  BY <1>1, Invariance, PTL

\* Behind every route is a package that has not finished its Clear.
THEOREM RoutesAreOwned == Spec => []NoDanglingRoute
<1>1. IInv => NoDanglingRoute
  BY DEF IInv
<1> QED
  BY <1>1, Invariance, PTL

\* What one step does to the table: it stays, or a client inside the mutex
\* replaces the leases of its own group, over domains free for that group.
LEMMA StepOnRoutes ==
  ASSUME IInv, [Next]_vars
  PROVE  \/ UNCHANGED routes
         \/ \E c \in Client :
              /\ lock = c
              /\ asks[c] \in Ask
              /\ routes' = Promise!Replace(routes, GroupOf[c], asks[c])
              /\ \A d \in Asked(c) : Promise!Free(routes, GroupOf[c], d)
<1>1. CASE UNCHANGED vars
  BY <1>1 DEF vars
<1>2. ASSUME NEW c \in Client,
             CallSet(c) \/ CallClear(c) \/ Lock(c) \/ Progress(c), Publish(c)
      PROVE  /\ lock = c /\ asks[c] \in Ask
             /\ routes' = Promise!Replace(routes, GroupOf[c], asks[c])
             /\ \A d \in Asked(c) : Promise!Free(routes, GroupOf[c], d)
  <2>1. lock = c /\ asks[c] \in Ask
    BY <1>2 DEF IInv, MutexHeld, Inside, Publish, TypeOK
  <2> QED
    BY <1>2, <2>1, PublishReplaces DEF IInv
<1> QED
  BY <1>1, <1>2, OnlyPublish DEF Next

\* A route changes only by a call of its own group that asks for something
\* else: no request falls into the gap between clearGroup and updateState.
THEOREM OwnersChange == Spec => OnlyOwnerChanges
<1>1. ASSUME IInv, [Next]_vars, NEW d \in Domain, routes[d] # None, routes'[d] # routes[d]
      PROVE  \E c \in Client : /\ GroupOf[c] = routes[d].group
                               /\ lock = c
                               /\ asks[c][d] # routes[d].list
  <2>1. PICK c \in Client :
           /\ lock = c
           /\ routes' = Promise!Replace(routes, GroupOf[c], asks[c])
           /\ \A e \in Asked(c) : Promise!Free(routes, GroupOf[c], e)
    BY <1>1, StepOnRoutes
  <2>2. routes[d] \in [group : Group, list : Addresses]
    BY <1>1 DEF IInv, TypeOK, Lease
  <2>3. CASE asks[c][d] # None
    <3>1. routes[d].group = GroupOf[c]
      BY <1>1, <2>1, <2>3 DEF Asked, Promise!Free
    <3>2. routes'[d] = [group |-> GroupOf[c], list |-> asks[c][d]]
      BY <2>1, <2>3 DEF Promise!Replace
    <3> QED
      BY <1>1, <2>1, <2>2, <3>1, <3>2
  <2>4. CASE asks[c][d] = None
    <3>1. routes[d].group = GroupOf[c]
      BY <1>1, <2>1, <2>4 DEF Promise!Replace
    <3> QED
      BY <2>1, <2>2, <2>4, <3>1, ClientAssumption
  <2> QED
    BY <2>3, <2>4
<1>2. IInv /\ [Next]_vars =>
        [\A d \in Domain : routes[d] # None /\ routes'[d] # routes[d] =>
          \E c \in Client : /\ GroupOf[c] = routes[d].group
                            /\ lock = c
                            /\ asks[c][d] # routes[d].list]_vars
  BY <1>1
<1> QED
  BY <1>2, Invariance, PTL DEF Spec, OnlyOwnerChanges

\* Set and Clear, with their lock, their two maps, their loop and their
\* publication, implement the atomic replacement of RoutingTable.
THEOREM Refinement == Spec => ImplementsRoutingTable
<1>1. Init => Promise!TableInit
  BY DEF Init, Promise!TableInit
<1>2. IInv /\ [Next]_vars => [Promise!TableNext]_routes
  <2> SUFFICES ASSUME IInv, [Next]_vars, ~UNCHANGED routes
               PROVE Promise!TableNext
    OBVIOUS
  <2>1. PICK c \in Client :
           /\ asks[c] \in Ask
           /\ routes' = Promise!Replace(routes, GroupOf[c], asks[c])
           /\ \A d \in Asked(c) : Promise!Free(routes, GroupOf[c], d)
    BY StepOnRoutes
  <2>2. GroupOf[c] \in Group /\ asks[c] \in Promise!Ask
    BY <2>1, ClientAssumption DEF Ask, Promise!Ask
  <2>3. Promise!Register(GroupOf[c], asks[c])
    BY <2>1 DEF Promise!Register, Promise!Asked, Asked
  <2> QED
    BY <2>2, <2>3 DEF Promise!TableNext
<1> QED
  BY <1>1, <1>2, Invariance, PTL DEF Spec, ImplementsRoutingTable, Promise!TableSpec

\* No domain passes from one group to another in a single table swap.
THEOREM NoDirectHandover == Spec => NoHandover
<1>1. ASSUME IInv, [Next]_vars, NEW d \in Domain, routes[d] # None, routes'[d] # None
      PROVE  routes'[d].group = routes[d].group
  <2>1. CASE UNCHANGED routes
    BY <2>1
  <2>2. CASE ~UNCHANGED routes
    <3>1. PICK c \in Client :
             /\ routes' = Promise!Replace(routes, GroupOf[c], asks[c])
             /\ \A e \in Asked(c) : Promise!Free(routes, GroupOf[c], e)
      BY <1>1, <2>2, StepOnRoutes
    <3> QED
      BY <1>1, <3>1 DEF Asked, Promise!Free, Promise!Replace
  <2> QED
    BY <2>1, <2>2
<1>2. IInv /\ [Next]_vars =>
        [\A d \in Domain :
           routes[d] # None /\ routes'[d] # None => routes'[d].group = routes[d].group]_routes
  BY <1>1
<1> QED
  BY <1>2, Invariance, PTL DEF Spec, NoHandover
=============================================================================
