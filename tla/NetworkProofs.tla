---------------------------- MODULE NetworkProofs ----------------------------
(***************************************************************************)
(* Proofs about Network for any containers, requests and addresses: the    *)
(* cache of the network never sends a request to a container that has left *)
(* and always knows the compositions that have joined.                     *)
(***************************************************************************)
EXTENDS Network, TLAPS

LEMMA InitInv == Init => IInv
<1> SUFFICES ASSUME Init PROVE IInv
  OBVIOUS
<1> USE NetworkAssumption DEF Init, Nowhere
<1>1. TypeOK
  BY DEF TypeOK, Table
<1>2. LockHeld /\ LeftIsForgotten
  BY DEF LockHeld, LeftIsForgotten
<1>3. ViewsAreCurrent /\ ForgottenStay
  BY DEF ViewsAreCurrent, ForgottenStay, Current
<1> QED
  BY <1>1, <1>2, <1>3 DEF IInv

LEMMA StutterInv == IInv /\ UNCHANGED vars => IInv'
<1> SUFFICES ASSUME IInv, UNCHANGED vars PROVE IInv'
  OBVIOUS
<1> USE DEF vars, docker, cache, request
<1>1. TypeOK' /\ LockHeld' /\ LeftIsForgotten'
  BY DEF IInv, TypeOK, LockHeld, LeftIsForgotten
<1>2. ViewsAreCurrent' /\ ForgottenStay'
  BY DEF IInv, ViewsAreCurrent, ForgottenStay, Current
<1> QED
  BY <1>1, <1>2 DEF IInv

-----------------------------------------------------------------------------
(* The steps of a package.                                                 *)

\* Steps that leave the views alone and end where no view is owed anything.
LEMMA QuietStep ==
  ASSUME IInv, NEW c \in Container, NEW place,
         place \in {"joining", "rejoined", "connected", "joined", "started", "disconnected",
                   "stopped", "removed"},
         at' = [at EXCEPT ![c] = place], at[c] # "left",
         linked' \in SUBSET Container, moved' \in SUBSET Container,
         moved \subseteq moved', place = "joined" => c \in moved',
         \/ UNCHANGED ip
         \/ \E a \in IP \cup {None} : ip' = [ip EXCEPT ![c] = a],
         place = "disconnected" => ip'[c] = None,
         UNCHANGED <<published, cache, request>>
  PROVE  IInv'
<1> USE DEF cache, request
<1>1. TypeOK'
  BY DEF IInv, TypeOK, Table
<1>2. LockHeld' /\ LeftIsForgotten'
  BY DEF IInv, LockHeld, LeftIsForgotten
<1>3. \A d \in Container : /\ d # c => at'[d] = at[d] /\ ip'[d] = ip[d]
                           /\ at'[c] = place
                           /\ at'[c] # "left"
                           /\ at'[c] = "joined" => c \in moved'
  BY DEF IInv, TypeOK, Table
<1>4. ForgottenStay'
  BY <1>3 DEF IInv, TypeOK, ForgottenStay
<1>5. ViewsAreCurrent'
  <2>1. Current(ip)'
    BY <1>3 DEF IInv, ViewsAreCurrent, Current
  <2>2. valid' => Current(cached)'
    BY <1>3 DEF IInv, ViewsAreCurrent, Current
  <2>3. ASSUME NEW r \in Request, pc'[r] = "inspected" PROVE Current(seen[r])'
    BY <1>3, <2>3 DEF IInv, ViewsAreCurrent, Current
  <2>4. ASSUME NEW d \in Container, at'[d] = "disconnected" PROVE ip'[d] = None
    BY <1>3, <2>4 DEF IInv, TypeOK, ViewsAreCurrent
  <2> QED
    BY <2>1, <2>2, <2>3, <2>4 DEF ViewsAreCurrent
<1> QED
  BY <1>1, <1>2, <1>4, <1>5 DEF IInv

\* A composition that comes back is forgotten by no request any more.
LEMMA UpStep == ASSUME IInv, NEW c \in Container, Up(c) PROVE IInv'
<1> USE DEF Up, cache
<1>1. /\ at' = [at EXCEPT ![c] = "joining"]
      /\ \/ UNCHANGED ip
         \/ \E a \in IP : ip' = [ip EXCEPT ![c] = a]
      /\ forgotten' = {r \in forgotten : target[r] # c}
  BY DEF Free
<1>2. TypeOK'
  <2>1. at' \in [Container -> {"absent", "joining", "connected", "joined", "rejoined", "started",
                               "disconnected", "left", "stopped", "removed"}]
    BY <1>1 DEF IInv, TypeOK
  <2>2. ip' \in Table
    BY <1>1 DEF IInv, TypeOK, Table
  <2> QED
    BY <1>1, <2>1, <2>2 DEF IInv, TypeOK
<1>3. LockHeld'
  BY DEF IInv, LockHeld
<1>4. \A d \in Container : /\ d # c => at'[d] = at[d] /\ ip'[d] = ip[d]
                           /\ at'[c] = "joining"
  BY <1>1 DEF IInv, TypeOK, Table
<1>6. LeftIsForgotten'
  BY <1>1 DEF IInv, LeftIsForgotten
<1>7. ForgottenStay'
  BY <1>1, <1>4 DEF IInv, TypeOK, ForgottenStay
<1>8. ViewsAreCurrent'
  <2>1. Current(ip)'
    BY <1>4 DEF IInv, ViewsAreCurrent, Current
  <2>2. valid' => Current(cached)'
    BY <1>4 DEF IInv, ViewsAreCurrent, Current
  <2>3. ASSUME NEW r \in Request, pc'[r] = "inspected" PROVE Current(seen[r])'
    BY <1>4, <2>3 DEF IInv, ViewsAreCurrent, Current
  <2>4. ASSUME NEW d \in Container, at'[d] = "disconnected" PROVE ip'[d] = None
    BY <1>4, <2>4 DEF IInv, TypeOK, ViewsAreCurrent
  <2> QED
    BY <2>1, <2>2, <2>3, <2>4 DEF ViewsAreCurrent
<1> QED
  BY <1>2, <1>3, <1>6, <1>7, <1>8 DEF IInv

\* An invalidation makes the cached view owe nothing, and finds no request
\* between its inspection and the cache.
LEMMA InvalidateStep == ASSUME IInv, NEW c \in Container, Invalidate(c) PROVE IInv'
<1> USE DEF Invalidate, docker, request
<1>1. TypeOK'
  BY DEF IInv, TypeOK
<1>2. LockHeld' /\ LeftIsForgotten'
  BY DEF IInv, LockHeld, LeftIsForgotten
<1>3. \A d \in Container : d # c => at'[d] = at[d]
  BY DEF IInv, TypeOK
<1>4. ForgottenStay'
  BY <1>3 DEF IInv, TypeOK, ForgottenStay
<1>5. \A r \in Request : pc[r] # "inspected"
  BY NetworkAssumption DEF IInv, LockHeld
<1>6. at'[c] = "left" => ip[c] = None
  BY DEF IInv, ViewsAreCurrent, TypeOK
<1>7. Current(ip)'
  BY <1>3, <1>6 DEF IInv, ViewsAreCurrent, Current
<1>8. ViewsAreCurrent'
  BY <1>3, <1>5, <1>7 DEF IInv, TypeOK, ViewsAreCurrent
<1> QED
  BY <1>1, <1>2, <1>4, <1>8 DEF IInv

LEMMA PackageKeeps == ASSUME IInv, NEW c \in Container, PackageStep(c) PROVE IInv'
<1>1. CASE Create(c)
  BY <1>1, QuietStep DEF Create, docker, IInv, TypeOK
<1>2. CASE JoinLinked(c)
  BY <1>2, QuietStep DEF JoinLinked, docker, IInv, TypeOK
<1>3. CASE Connect(c)
  BY <1>3, QuietStep DEF Connect, Free, IInv, TypeOK
<1>4. CASE Start(c)
  BY <1>4, QuietStep DEF Start, Free, IInv, TypeOK
<1>5. CASE Exits(c) \/ Restart(c)
  <2> DEFINE place == at[c]
  <2>1. at' = [at EXCEPT ![c] = place] /\ UNCHANGED <<published, linked, cache, request>>
    BY <1>5 DEF Exits, Restart, IInv, TypeOK
  <2>2. place \in {"joining", "rejoined", "connected", "joined", "started"} /\ at[c] # "left"
    BY <1>5 DEF Exits, Restart, Placed, Serves
  <2>3. \E a \in IP \cup {None} : ip' = [ip EXCEPT ![c] = a]
    BY <1>5 DEF Exits, Restart, Free
  <2>4. moved' = moved \cup {c} /\ linked' \in SUBSET Container
    BY <1>5 DEF Exits, Restart, IInv, TypeOK
  <2>5. moved' \in SUBSET Container /\ moved \subseteq moved' /\ c \in moved'
    BY <2>4 DEF IInv, TypeOK
  <2> HIDE DEF place
  <2> QED
    BY <2>1, <2>2, <2>3, <2>4, <2>5, QuietStep
<1>6. CASE Disconnect(c)
  <2>1. ip'[c] = None
    BY <1>6 DEF Disconnect, IInv, TypeOK, Table
  <2> QED
    BY <1>6, <2>1, QuietStep DEF Disconnect, IInv, TypeOK
<1>7. CASE EndLinked(c)
  <2> DEFINE place == IF c \in Plain THEN "removed" ELSE "stopped"
  <2>1. at' = [at EXCEPT ![c] = place] /\ place \in {"removed", "stopped"}
    BY <1>7 DEF EndLinked
  <2>2. linked' \in SUBSET Container /\ moved' \in SUBSET Container /\ at[c] # "left"
    BY <1>7 DEF EndLinked, IInv, TypeOK
  <2> HIDE DEF place
  <2> QED
    BY <1>7, <2>1, <2>2, QuietStep DEF EndLinked
<1>8. CASE Announce(c)
  <2> USE <1>8 DEF Announce, docker, cache, request
  <2>1. TypeOK' /\ LockHeld' /\ LeftIsForgotten'
    BY DEF IInv, TypeOK, LockHeld, LeftIsForgotten
  <2>2. ViewsAreCurrent' /\ ForgottenStay'
    BY DEF IInv, ViewsAreCurrent, ForgottenStay, Current
  <2> QED
    BY <2>1, <2>2 DEF IInv
<1> QED
  BY <1>1, <1>2, <1>3, <1>4, <1>5, <1>6, <1>7, <1>8, UpStep, InvalidateStep DEF PackageStep

-----------------------------------------------------------------------------
(* The steps of a request.                                                 *)

LEMMA BeginStep == ASSUME IInv, NEW r \in Request, Begin(r) PROVE IInv'
<1> USE DEF Begin, docker, cache
<1>1. PICK c \in published :
        /\ target' = [target EXCEPT ![r] = c]
        /\ forgotten' = forgotten \cup {q \in {r} : at[c] = "left"}
  OBVIOUS
<1>2. pc' = [pc EXCEPT ![r] = "check"] /\ c \in Container /\ r \notin forgotten
  BY DEF IInv, TypeOK
<1>3. \A q \in Request : /\ q # r => pc'[q] = pc[q] /\ target'[q] = target[q]
                                      /\ (q \in forgotten' <=> q \in forgotten)
                         /\ pc'[r] = "check" /\ target'[r] = c
                         /\ r \in forgotten' => at[c] = "left"
  BY <1>1, <1>2 DEF IInv, TypeOK
<1>4. TypeOK'
  BY <1>1, <1>2, <1>3 DEF IInv, TypeOK
<1>5. LockHeld'
  BY <1>3 DEF IInv, LockHeld
<1>6. forgotten' \subseteq Request
  BY <1>1 DEF IInv, TypeOK
<1>7. LeftIsForgotten'
  BY <1>3, <1>6 DEF IInv, LeftIsForgotten
<1>8. ForgottenStay'
  BY <1>3, <1>6 DEF IInv, ForgottenStay
<1>9. ViewsAreCurrent'
  BY <1>3 DEF IInv, ViewsAreCurrent, Current
<1> QED
  BY <1>4, <1>5, <1>7, <1>8, <1>9 DEF IInv

LEMMA CheckStep == ASSUME IInv, NEW r \in Request, Check(r) PROVE IInv'
<1> USE DEF Check, docker, cache
<1>1. TypeOK'
  BY DEF IInv, TypeOK
<1>2. \A q \in Request : /\ q # r => pc'[q] = pc[q]
                         /\ pc'[r] = IF valid THEN "hit" ELSE "miss"
  BY DEF IInv, TypeOK
<1>3. LockHeld' /\ LeftIsForgotten'
  BY <1>2 DEF IInv, LockHeld, LeftIsForgotten
<1>4. ForgottenStay'
  BY <1>2 DEF IInv, TypeOK, ForgottenStay, ViewsAreCurrent, Current
<1>5. ViewsAreCurrent'
  BY <1>2 DEF IInv, ViewsAreCurrent, Current
<1> QED
  BY <1>1, <1>3, <1>4, <1>5 DEF IInv

LEMMA LockStep == ASSUME IInv, NEW r \in Request, LockCache(r) PROVE IInv'
<1> USE DEF LockCache, docker
<1>1. TypeOK'
  BY DEF IInv, TypeOK
<1>2. \A q \in Request : (q # r => pc'[q] = pc[q]) /\ pc'[r] = "locked"
  BY DEF IInv, TypeOK
<1>3. LockHeld'
  BY <1>2, NetworkAssumption DEF IInv, LockHeld
<1>4. LeftIsForgotten' /\ ForgottenStay'
  BY <1>2 DEF IInv, LeftIsForgotten, ForgottenStay
<1>5. ViewsAreCurrent'
  BY <1>2 DEF IInv, ViewsAreCurrent, Current
<1> QED
  BY <1>1, <1>3, <1>4, <1>5 DEF IInv

\* Answers: the container of the request is in no view if it was forgotten.
LEMMA AnswerStep ==
  ASSUME IInv, NEW r \in Request, Hit(r) \/ LateHit(r) \/ InspectFails(r)
  PROVE  IInv'
<1> USE DEF Hit, LateHit, InspectFails, docker, cache
<1>1. TypeOK'
  <2>1. cached[target[r]] \in IP \cup {None}
    BY DEF IInv, TypeOK, Table
  <2> QED
    BY <2>1 DEF IInv, TypeOK
<1>2. \A q \in Request : /\ q # r => pc'[q] = pc[q] /\ answer'[q] = answer[q]
                         /\ pc'[r] = "done"
                         /\ answer'[r] \in {cached[target[r]], None}
  BY DEF IInv, TypeOK
<1>3. LockHeld'
  BY <1>2, NetworkAssumption DEF IInv, LockHeld
<1>4. r \in forgotten => answer'[r] = None
  <2>1. CASE Hit(r)
    BY <1>2, <2>1 DEF IInv, ForgottenStay
  <2>2. CASE LateHit(r)
    BY <1>2, <2>2 DEF IInv, TypeOK, ForgottenStay, ViewsAreCurrent, Current
  <2>3. CASE InspectFails(r)
    BY <2>3 DEF IInv, TypeOK
  <2> QED
    BY <2>1, <2>2, <2>3
<1>5. forgotten' = forgotten /\ target' = target /\ forgotten \subseteq Request
  BY DEF IInv, TypeOK
<1>6. LeftIsForgotten' /\ ForgottenStay'
  BY <1>2, <1>4, <1>5 DEF IInv, LeftIsForgotten, ForgottenStay
<1>7. ViewsAreCurrent'
  BY <1>2 DEF IInv, ViewsAreCurrent, Current
<1> QED
  BY <1>1, <1>3, <1>6, <1>7 DEF IInv

LEMMA InspectStep == ASSUME IInv, NEW r \in Request, Inspect(r) PROVE IInv'
<1> USE DEF Inspect, docker, cache
<1>1. TypeOK'
  BY DEF IInv, TypeOK
<1>2. \A q \in Request : /\ q # r => pc'[q] = pc[q] /\ seen'[q] = seen[q]
                         /\ pc'[r] = "inspected" /\ seen'[r] = ip
  BY DEF IInv, TypeOK
<1>3. LockHeld' /\ LeftIsForgotten' /\ ForgottenStay'
  BY <1>2 DEF IInv, LockHeld, LeftIsForgotten, ForgottenStay
<1>4. ViewsAreCurrent'
  BY <1>2 DEF IInv, ViewsAreCurrent, Current
<1> QED
  BY <1>1, <1>3, <1>4 DEF IInv

\* The view that fills the cache is current: the lock has been held since.
LEMMA FillStep == ASSUME IInv, NEW r \in Request, Fill(r) PROVE IInv'
<1> USE DEF Fill, docker
<1>1. seen[r] \in Table /\ target[r] \in Container /\ seen[r][target[r]] \in IP \cup {None}
  BY DEF IInv, TypeOK, Table
<1>2. TypeOK'
  <2>1. Nowhere \in Table
    BY DEF Nowhere, Table
  <2> QED
    BY <1>1, <2>1 DEF IInv, TypeOK
<1>3. \A q \in Request : /\ q # r => pc'[q] = pc[q] /\ answer'[q] = answer[q] /\ seen'[q] = seen[q]
                         /\ pc'[r] = "done" /\ answer'[r] = seen[r][target[r]]
  BY DEF IInv, TypeOK
<1>4. LockHeld'
  BY <1>3, NetworkAssumption DEF IInv, LockHeld
<1>5. Current(seen[r])
  BY DEF IInv, ViewsAreCurrent
<1>6. LeftIsForgotten'
  BY <1>1, <1>3, <1>5 DEF IInv, LeftIsForgotten, ForgottenStay, Current
<1>7. ForgottenStay'
  BY <1>3, <1>5 DEF IInv, TypeOK, ForgottenStay, Current
<1>8. ViewsAreCurrent'
  BY <1>3, <1>5 DEF IInv, ViewsAreCurrent, Current
<1> QED
  BY <1>2, <1>4, <1>6, <1>7, <1>8 DEF IInv

LEMMA FinishStep == ASSUME IInv, NEW r \in Request, Finish(r) PROVE IInv'
<1> USE DEF Finish, docker, cache
<1>1. TypeOK'
  BY DEF IInv, TypeOK
<1>2. \A q \in Request : /\ q # r => pc'[q] = pc[q] /\ answer'[q] = answer[q]
                                      /\ target'[q] = target[q]
                         /\ pc'[r] = "idle" /\ r \notin forgotten'
  BY DEF IInv, TypeOK
<1>3. LockHeld' /\ LeftIsForgotten' /\ ForgottenStay'
  BY <1>2 DEF IInv, LockHeld, LeftIsForgotten, ForgottenStay
<1>4. ViewsAreCurrent'
  BY <1>2 DEF IInv, ViewsAreCurrent, Current
<1> QED
  BY <1>1, <1>3, <1>4 DEF IInv

-----------------------------------------------------------------------------
(* The theorems.                                                           *)

THEOREM Invariance == Spec => []IInv
<1>1. IInv /\ Next => IInv'
  BY PackageKeeps, BeginStep, CheckStep, LockStep, AnswerStep, InspectStep, FillStep,
     FinishStep DEF Next, ResolveStep
<1>2. IInv /\ [Next]_vars => IInv'
  BY <1>1, StutterInv
<1> QED
  BY InitInv, <1>2, PTL DEF Spec

\* The network, its cache and the requests keep their types.
THEOREM TypeCorrect == Spec => []TypeOK
<1>1. IInv => TypeOK
  BY DEF IInv
<1> QED
  BY <1>1, Invariance, PTL

\* Resolve never answers with an address that its container gave up by Leave
\* before the request, although a valid cache is read after the lock is gone.
THEOREM LeftAreForgotten == Spec => []LeftIsForgotten
<1>1. IInv => LeftIsForgotten
  BY DEF IInv
<1> QED
  BY <1>1, Invariance, PTL

\* After Join a valid cache holds the address of the composition's container.
THEOREM ConnectedAreKnown == Spec => []ConnectedIsKnown
<1>1. IInv => ConnectedIsKnown
  BY DEF IInv, ViewsAreCurrent, Current, ConnectedIsKnown, Container
<1> QED
  BY <1>1, Invariance, PTL
=============================================================================
