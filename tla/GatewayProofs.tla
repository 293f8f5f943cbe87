--------------------------- MODULE GatewayProofs ----------------------------
(***************************************************************************)
(* Proofs about Gateway for any Deployments, requests and Sessions: type   *)
(* correctness, create-once, the pinning of Sessions, the leases an        *)
(* archive respects and the policy's targets.                              *)
(***************************************************************************)
EXTENDS Gateway, FiniteSetTheorems, TLAPS

-----------------------------------------------------------------------------
(***************************************************************************)
(* Types                                                                   *)
(***************************************************************************)
Status == {"running", "draining", "stopped", "archiving", "archived"}
Place == {"done", "storing", "binding", "touching", "resolving", "claiming",
          "activating", "waiting", "proxying", "answered", "streaming"}
Targets == UNION {[D -> Status] : D \in SUBSET Deployment}
Route == [revision : Nat, weighted : SUBSET Deployment, targets : Targets]
RequestType ==
    [at : Place, kind : Kinds \cup {"none"}, session : SessionId \cup {NoSessionId},
     route : Route \cup {NoRoute}, pin : Deployment \cup {NoDeployment},
     goal : Deployment \cup {NoDeployment}, held : BOOLEAN, late : BOOLEAN]
ArchiveType ==
    [deployment : Deployment \cup {NoDeployment},
     at : {"idle", "routes", "sessions", "operations", "leases", "decide", "removing"},
     prior : {"none", "running", "draining", "stopped"}, protected : BOOLEAN]

Rows ==
    /\ status \in [Deployment -> Status]
    /\ policy \in [revision : Nat, targets : SUBSET Deployment, weighted : SUBSET Deployment]
    /\ policy.weighted \subseteq policy.targets
    /\ promotion \in Deployment \cup {NoDeployment}
    /\ cache \in Route \cup {NoRoute}
    /\ operationBinding \in [SessionId -> Binding \cup {NoBinding}]
    /\ sessionBinding \in [SessionId -> Binding \cup {NoBinding}]
    /\ home \in [SessionId -> SUBSET Deployment]
    /\ archive \in ArchiveType
    /\ overtaken \subseteq Deployment
    /\ req \in [Request -> RequestType]

\* Where a request may be with what it has.
WithRoute == {"storing", "binding", "touching", "resolving", "claiming"}
Aimed == {"claiming", "activating", "waiting", "proxying", "answered"}
Sent == Aimed \ {"claiming"}

RequestShape(q) ==
    /\ q.at \in WithRoute => q.route \in Route
    /\ q.at \notin {"done", "streaming"} => q.session \in SessionId /\ q.kind # "none"
    /\ q.at \in {"done", "streaming"} => q.kind = "none"
    /\ q.at \in Aimed => q.goal \in Deployment
    /\ q.at = "touching" => q.pin \in Deployment
    /\ q.at \in {"touching", "binding"} => q.kind # "unkeyed"
    /\ q.at = "claiming" => q.kind = "keyed"
    /\ q.held => q.at \in {"waiting", "proxying", "answered", "streaming", "done"}
                 /\ q.goal \in Deployment

Shape == \A r \in Request : RequestShape(req[r])

\* The archive holds its claim until it hands it back or has removed the Deployment.
ArchiveShape ==
    /\ archive.at = "idle" => archive = NoArchive
    /\ archive.at # "idle" => /\ archive.deployment \in Deployment
                              /\ archive.prior # "none"
                              /\ status[archive.deployment] = "archiving"
    /\ archive.at = "removing" => ~ archive.protected

TypeInv == Rows /\ Shape /\ ArchiveShape

-----------------------------------------------------------------------------
(***************************************************************************)
(* Create-once and pinning                                                 *)
(***************************************************************************)
BoundTo(rows, s, d) == rows[s] # NoBinding /\ rows[s].deployment = d

PinnedRequest(q, operations, sessions, homes) ==
    /\ q.at \in {"storing", "binding"} => q.pin = NoDeployment
    /\ q.kind = "keyed" /\ q.pin # NoDeployment => BoundTo(operations, q.session, q.pin)
    /\ q.kind = "keyed" /\ q.at \in Sent => q.pin # NoDeployment
    /\ q.kind = "follow" /\ q.pin # NoDeployment => q.pin \in homes[q.session]
    /\ q.kind = "follow" /\ q.at = "touching" => sessions[q.session] # NoBinding
    /\ q.at \in Sent /\ q.pin # NoDeployment => q.goal = q.pin
    /\ q.at = "answered" => q.goal \in homes[q.session]

PinInv ==
    /\ \A r \in Request : PinnedRequest(req[r], operationBinding, sessionBinding, home)
    /\ \A s \in SessionId :
          sessionBinding[s] # NoBinding => sessionBinding[s].deployment \in home[s]
    /\ "unkeyed" \notin Kinds =>
          \A s \in SessionId : \A d \in home[s] : BoundTo(operationBinding, s, d)

-----------------------------------------------------------------------------
(***************************************************************************)
(* The archive                                                             *)
(***************************************************************************)
\* A Deployment the archive is about to remove, or has removed, has lost its weight,
\* unless a promotion had found it running before.
Retired(d) == status[d] \in {"archiving", "archived"}

RoutesRead ==
    /\ archive.at \in {"sessions", "operations", "leases", "decide", "removing"}
    /\ ~ archive.protected

TargetInv ==
    /\ TargetsAlive
    /\ RoutesRead /\ archive.deployment \in policy.weighted => archive.deployment \in overtaken
    /\ promotion \in Deployment /\ Retired(promotion) => promotion \in overtaken

GatewayInv == TypeInv /\ PinInv /\ GrantedIsKept /\ TargetInv

-----------------------------------------------------------------------------
(***************************************************************************)
(* Type correctness                                                        *)
(***************************************************************************)
LEMMA NoRequestTyped ==
    /\ NoRequest \in RequestType /\ RequestShape(NoRequest)
    /\ NoRequest.at = "done" /\ NoRequest.kind = "none" /\ NoRequest.pin = NoDeployment
    /\ ~ NoRequest.held
BY DEF NoRequest, RequestType, RequestShape, Place, WithRoute, Aimed

\* A request takes a new value and the others keep theirs.
Put(r, q) == req' = [req EXCEPT ![r] = q]

LEMMA PutTyped ==
    ASSUME Rows, Shape, NEW r \in Request, NEW q \in RequestType, RequestShape(q), Put(r, q)
    PROVE  req' \in [Request -> RequestType] /\ Shape'
<1>1. req \in [Request -> RequestType]
  BY DEF Rows
<1>2. req' \in [Request -> RequestType] /\ req'[r] = q
  BY <1>1 DEF Put
<1>3. \A p \in Request : p # r => req'[p] = req[p]
  BY <1>1 DEF Put
<1> QED BY <1>2, <1>3 DEF Shape

LEMMA ProceedsPuts ==
    ASSUME Rows, NEW r \in Request, NEW place \in Place, Proceeds(r, place)
    PROVE  /\ Put(r, [req[r] EXCEPT !.at = place])
           /\ [req[r] EXCEPT !.at = place] \in RequestType
<1>1. req \in [Request -> RequestType] /\ req[r] \in RequestType
  BY DEF Rows
<1> QED BY <1>1 DEF Put, Proceeds, RequestType

LEMMA LeaseTyped ==
    ASSUME Rows, NEW r \in Request, req[r].held => req[r].goal \in Deployment,
           NEW place \in {"streaming", "done"}
    PROVE  /\ Lease(r, place) \in RequestType /\ RequestShape(Lease(r, place))
           /\ Lease(r, place).kind = "none" /\ Lease(r, place).pin = NoDeployment
           /\ Lease(r, place).at = place
           /\ Lease(r, place).goal = req[r].goal /\ Lease(r, place).held = req[r].held
           /\ Lease(r, place).late = req[r].late
<1>1. req[r] \in RequestType
  BY DEF Rows
<1> QED BY <1>1 DEF Lease, NoRequest, RequestType, RequestShape, Place, WithRoute, Aimed

\* What the policy and the rows say makes a route.
LEMMA FoundRouteTyped == Rows => FindRouteByHostname \in Route
<1> SUFFICES ASSUME Rows PROVE FindRouteByHostname \in Route
  OBVIOUS
<1>1. policy.targets \in SUBSET Deployment
  BY DEF Rows
<1>2. [d \in policy.targets |-> status[d]] \in [policy.targets -> Status]
  BY <1>1 DEF Rows
<1>3. [d \in policy.targets |-> status[d]] \in Targets
  BY <1>1, <1>2 DEF Targets
<1>4. policy.revision \in Nat /\ policy.weighted \in SUBSET Deployment
  BY DEF Rows
<1> QED BY <1>3, <1>4 DEF Route, FindRouteByHostname

LEMMA RoutedTyped ==
    ASSUME Rows, Shape, NEW r \in Request, NEW q \in RequestType, NEW route \in Route,
           ~ q.held, q.session \in SessionId, q.kind \in Kinds, Routed(r, q, route)
    PROVE  req' \in [Request -> RequestType] /\ Shape'
<1> DEFINE rt == [route EXCEPT !.revision = 0]
           n == [q EXCEPT !.route = rt,
                          !.at = IF q.kind = "unkeyed" THEN "resolving" ELSE "binding"]
<1>1. rt \in Route
  BY DEF Route
<1> HIDE DEF rt
<1>2. n \in RequestType
  BY <1>1 DEF RequestType, Place
<1>3. RequestShape(n)
  <2>1. "none" \notin Kinds
    BY GatewayAssumption DEF RequestKinds
  <2> QED BY <1>1, <2>1 DEF RequestShape, WithRoute, Aimed, RequestType
<1>4. Put(r, n)
  BY DEF Routed, Put, rt
<1> HIDE DEF n
<1> QED BY <1>2, <1>3, <1>4, PutTyped

LEMMA ArrivedTyped ==
    ASSUME NEW kind \in Kinds, NEW s \in SessionId
    PROVE  /\ Arrived(kind, s) \in RequestType /\ ~ Arrived(kind, s).held
           /\ Arrived(kind, s).session = s /\ Arrived(kind, s).kind = kind
           /\ Arrived(kind, s).pin = NoDeployment
BY DEF Arrived, NoRequest, RequestType, Place

\* Wherever a request is sent, there is a Deployment.
LEMMA CandidatesAreDeployments ==
    ASSUME NEW route \in Route, NEW pin \in Deployment \cup {NoDeployment}
    PROVE  Candidates(route, pin) \subseteq Deployment
<1>1. DOMAIN route.targets \subseteq Deployment
  BY DEF Route, Targets
<1>2. route.weighted \subseteq Deployment
  BY DEF Route
<1> QED BY <1>1, <1>2 DEF Candidates, Eligible

LEMMA TypeInvInit == GatewayInit => TypeInv
<1> SUFFICES ASSUME GatewayInit PROVE TypeInv
  OBVIOUS
<1>1. NoArchive \in ArchiveType
  BY DEF NoArchive, ArchiveType
<1>2. Rows
  BY <1>1, NoRequestTyped DEF GatewayInit, Rows, Status
<1>3. Shape
  BY NoRequestTyped DEF GatewayInit, Shape
<1>4. ArchiveShape
  BY DEF GatewayInit, ArchiveShape, NoArchive
<1> QED BY <1>2, <1>3, <1>4 DEF TypeInv

LEMMA RequestStepTyped ==
    ASSUME TypeInv, NEW r \in Request, RequestStep(r)
    PROVE  req' \in [Request -> RequestType] /\ Shape'
<1> USE DEF TypeInv
<1>0. req[r] \in RequestType /\ RequestShape(req[r]) /\ req \in [Request -> RequestType]
  BY DEF Rows, Shape
<1>a. "none" \notin Kinds
  BY GatewayAssumption DEF RequestKinds
<1>b. NoDeployment \notin Deployment
  BY GatewayAssumption
<1> DEFINE Goal == req' \in [Request -> RequestType] /\ Shape'
<1>1. ASSUME RouteStore(r) PROVE Goal
  <2>1. req[r].at = "storing" /\ Routed(r, req[r], req[r].route)
    BY <1>1 DEF RouteStore
  <2>2. /\ req[r].route \in Route /\ ~ req[r].held
        /\ req[r].session \in SessionId /\ req[r].kind \in Kinds
    BY <1>0, <2>1 DEF RequestShape, WithRoute, RequestType
  <2> QED BY <1>0, <2>1, <2>2, RoutedTyped
<1>e. ASSUME Ends(r) PROVE Goal
  BY <1>e, NoRequestTyped, PutTyped DEF Ends, Put
<1>2. ASSUME NEW rows \in [SessionId -> Binding \cup {NoBinding}],
             req[r].kind # "unkeyed", Found(r, rows)
      PROVE  Goal
  <2> DEFINE b == rows[req[r].session]
  <2>1. req[r].at = "binding" /\ req[r].session \in SessionId /\ req[r].route \in Route
        /\ ~ req[r].held /\ req[r].kind # "none"
    BY <1>0, <1>2 DEF Found, RequestShape, WithRoute, RequestType
  <2>2. CASE b = NoBinding
    <3>1. Proceeds(r, "resolving")
      BY <1>2, <2>2 DEF Found
    <3>2. RequestShape([req[r] EXCEPT !.at = "resolving"])
      BY <1>0, <2>1 DEF RequestShape, RequestType, WithRoute, Aimed
    <3> QED BY <3>1, <3>2, ProceedsPuts, PutTyped DEF Place
  <2>3. CASE b # NoBinding /\ b.idle
    BY <1>2, <2>3, <1>e DEF Found
  <2>4. CASE b # NoBinding /\ ~ b.idle
    <3> DEFINE n == [req[r] EXCEPT !.pin = b.deployment, !.at = "touching"]
    <3>1. Put(r, n)
      BY <1>0, <1>2, <2>4 DEF Found, Put
    <3>2. b.deployment \in Deployment
      BY <1>2, <2>1, <2>4 DEF Binding
    <3>3. n \in RequestType /\ RequestShape(n)
      BY <1>0, <1>2, <2>1, <3>2 DEF RequestShape, RequestType, WithRoute, Aimed, Place
    <3> HIDE DEF n
    <3> QED BY <3>1, <3>3, PutTyped
  <2> QED BY <2>2, <2>3, <2>4
<1>3. ASSUME OperationFinds(r) \/ SessionFinds(r) PROVE Goal
  BY <1>2, <1>3 DEF OperationFinds, SessionFinds, Rows
<1>4. ASSUME OperationTouches(r) \/ SessionTouches(r) PROVE Goal
  <2>1. req[r].at = "touching" /\ Proceeds(r, "resolving")
    BY <1>4 DEF OperationTouches, SessionTouches
  <2>2. RequestShape([req[r] EXCEPT !.at = "resolving"])
    BY <1>0, <2>1 DEF RequestShape, RequestType, WithRoute, Aimed
  <2> QED BY <2>1, <2>2, ProceedsPuts, PutTyped DEF Place
<1>5. ASSUME NEW q \in RequestType, ~ q.held, q.session \in SessionId, q.kind # "none",
             q.goal \in Deployment, Activating(r, q)
      PROVE  Goal
  <2> DEFINE n == [q EXCEPT !.route = NoRoute, !.at = "activating"]
  <2>1. n \in RequestType /\ RequestShape(n)
    BY <1>5 DEF RequestShape, RequestType, WithRoute, Aimed, Place
  <2>2. Put(r, n)
    BY <1>5 DEF Activating, Put
  <2> HIDE DEF n
  <2> QED BY <2>1, <2>2, PutTyped
<1>6. ASSUME ResolveTarget(r) PROVE Goal
  <2>1. /\ req[r].at = "resolving" /\ req[r].route \in Route /\ ~ req[r].held
        /\ req[r].session \in SessionId /\ req[r].kind # "none"
        /\ req[r].pin \in Deployment \cup {NoDeployment}
    BY <1>0, <1>6 DEF ResolveTarget, RequestShape, RequestType, WithRoute
  <2>2. Candidates(req[r].route, req[r].pin) \subseteq Deployment
    BY <2>1, CandidatesAreDeployments
  <2>3. CASE Ends(r)
    BY <2>3, <1>e
  <2>4. CASE ~ Ends(r)
    <3>1. PICK d \in Candidates(req[r].route, req[r].pin) :
             IF req[r].kind = "keyed" /\ req[r].pin = NoDeployment
             THEN req' = [req EXCEPT ![r].goal = d, ![r].at = "claiming"]
             ELSE Activating(r, [req[r] EXCEPT !.goal = d])
      BY <1>6, <2>4 DEF ResolveTarget
    <3>2. d \in Deployment
      BY <2>2, <3>1
    <3>3. CASE req[r].kind = "keyed" /\ req[r].pin = NoDeployment
      <4> DEFINE n == [req[r] EXCEPT !.goal = d, !.at = "claiming"]
      <4>1. Put(r, n)
        BY <1>0, <3>1, <3>3 DEF Put
      <4>2. n \in RequestType /\ RequestShape(n)
        BY <1>0, <2>1, <3>2, <3>3 DEF RequestShape, RequestType, WithRoute, Aimed, Place
      <4> HIDE DEF n
      <4> QED BY <4>1, <4>2, PutTyped
    <3>4. CASE ~ (req[r].kind = "keyed" /\ req[r].pin = NoDeployment)
      <4> DEFINE q == [req[r] EXCEPT !.goal = d]
      <4>1. Activating(r, q)
        BY <3>1, <3>4
      <4>2. q \in RequestType /\ ~ q.held /\ q.session \in SessionId /\ q.kind # "none"
            /\ q.goal \in Deployment
        BY <1>0, <2>1, <3>2 DEF RequestType
      <4> HIDE DEF q
      <4> QED BY <4>1, <4>2, <1>5
    <3> QED BY <3>3, <3>4
  <2> QED BY <2>3, <2>4
<1>7. ASSUME BindOperation(r), operationBinding' \in [SessionId -> Binding \cup {NoBinding}],
             operationBinding'[req[r].session] # NoBinding
      PROVE  Goal
  <2> DEFINE c == operationBinding'[req[r].session].deployment
  <2>1. /\ req[r].at = "claiming" /\ req[r].route \in Route /\ ~ req[r].held
        /\ req[r].session \in SessionId /\ req[r].kind = "keyed"
        /\ req[r].goal \in Deployment
    BY <1>0, <1>7 DEF BindOperation, RequestShape, RequestType, WithRoute, Aimed
  <2>2. c \in Deployment
    BY <1>7, <2>1 DEF Binding
  <2>3. CASE c = req[r].goal
    <3> DEFINE q == [req[r] EXCEPT !.pin = c]
    <3>1. Activating(r, q)
      BY <1>7, <2>3 DEF BindOperation
    <3>2. q \in RequestType /\ ~ q.held /\ q.session \in SessionId /\ q.kind # "none"
          /\ q.goal \in Deployment
      BY <1>0, <2>1, <2>2 DEF RequestType
    <3> HIDE DEF q
    <3> QED BY <3>1, <3>2, <1>5
  <2>4. CASE c # req[r].goal
    <3> DEFINE n == [req[r] EXCEPT !.pin = c, !.at = "resolving"]
    <3>1. Put(r, n)
      BY <1>0, <1>7, <2>4 DEF Put, BindOperation
    <3>2. n \in RequestType /\ RequestShape(n)
      BY <1>0, <2>1, <2>2 DEF RequestShape, RequestType, WithRoute, Aimed, Place
    <3> HIDE DEF n
    <3> QED BY <3>1, <3>2, PutTyped
  <2> QED BY <2>3, <2>4
<1>8. ASSUME ActivationLeases(r) PROVE Goal
  <2> DEFINE n == [req[r] EXCEPT !.held = TRUE, !.late = Overlooked(req[r].goal),
                                 !.at = "waiting"]
  <2>1. Put(r, n)
    BY <1>0, <1>8 DEF ActivationLeases, Put
  <2>2. req[r].at = "activating" /\ Overlooked(req[r].goal) \in BOOLEAN
    BY <1>8 DEF ActivationLeases, Overlooked
  <2>3. n \in RequestType /\ RequestShape(n)
    BY <1>0, <2>2 DEF RequestShape, RequestType, WithRoute, Aimed, Place
  <2> HIDE DEF n
  <2> QED BY <2>1, <2>3, PutTyped
<1>9. ASSUME ActivationGranted(r) PROVE Goal
  <2>1. req[r].at = "waiting" /\ Proceeds(r, "proxying")
    BY <1>9 DEF ActivationGranted
  <2>2. RequestShape([req[r] EXCEPT !.at = "proxying"])
    BY <1>0, <2>1 DEF RequestShape, RequestType, WithRoute, Aimed
  <2> QED BY <2>1, <2>2, ProceedsPuts, PutTyped DEF Place
<1>10. ASSUME ActivationFails(r) \/ BindSessionThrows(r) \/ ResponseEnds(r) PROVE Goal
  BY <1>10, <1>e DEF ActivationFails, BindSessionThrows, ResponseEnds
<1>s. ASSUME Streams(r) PROVE Goal
  <2>1. req[r].held => req[r].goal \in Deployment
    BY <1>0 DEF RequestShape
  <2>2. Lease(r, "streaming") \in RequestType /\ RequestShape(Lease(r, "streaming"))
    BY <2>1, LeaseTyped
  <2> QED BY <1>s, <2>2, PutTyped DEF Streams, Put
<1>11. ASSUME NEW named \in BOOLEAN, ProxyAnswers(r, named) PROVE Goal
  <2>1. CASE Streams(r)
    BY <2>1, <1>s
  <2>2. CASE ~ Streams(r)
    <3>1. req[r].at = "proxying" /\ Proceeds(r, "answered")
      BY <1>11, <2>2 DEF ProxyAnswers
    <3>2. RequestShape([req[r] EXCEPT !.at = "answered"])
      BY <1>0, <3>1 DEF RequestShape, RequestType, WithRoute, Aimed
    <3> QED BY <3>1, <3>2, ProceedsPuts, PutTyped DEF Place
  <2> QED BY <2>1, <2>2
<1>12. ASSUME NEW delivered \in BOOLEAN, ProxyThrows(r, delivered) PROVE Goal
  BY <1>12, <1>e DEF ProxyThrows
<1>13. ASSUME BindSession(r) PROVE Goal
  BY <1>13, <1>s DEF BindSession
<1>14. ASSUME BindOperation(r)
       PROVE  /\ operationBinding' \in [SessionId -> Binding \cup {NoBinding}]
              /\ operationBinding'[req[r].session] # NoBinding
  <2>1. req[r].session \in SessionId /\ req[r].goal \in Deployment
    BY <1>0, <1>14 DEF BindOperation, RequestShape, Aimed
  <2>2. [deployment |-> req[r].goal, idle |-> FALSE] \in Binding
    BY <2>1 DEF Binding
  <2>3. NoBinding \notin Binding
    BY GatewayAssumption
  <2> QED BY <1>14, <2>1, <2>2, <2>3 DEF BindOperation, Rows
<1> QED
  BY <1>1, <1>3, <1>4, <1>6, <1>7, <1>8, <1>9, <1>10, <1>11, <1>12, <1>13, <1>14
     DEF RequestStep

\* What a request's step leaves alone, and the one status it may change.
LEMMA RequestStepKeeps ==
    ASSUME TypeInv, NEW r \in Request, RequestStep(r)
    PROVE  /\ UNCHANGED <<policy, promotion, archive, overtaken>>
           /\ status' \in [Deployment -> Status]
           /\ \A d \in Deployment :
                 status'[d] # status[d] => status[d] = "stopped" /\ status'[d] = "running"
<1>1. CASE ActivationGranted(r)
  <2>1. UNCHANGED <<policy, promotion, archive, overtaken>>
    BY <1>1 DEF ActivationGranted, policyVars, archiveVars
  <2>2. req[r].goal \in Deployment
    BY <1>1 DEF ActivationGranted, TypeInv, Shape, RequestShape, Aimed
  <2> QED BY <1>1, <2>1, <2>2 DEF ActivationGranted, TypeInv, Rows, Status
<1>2. CASE ~ ActivationGranted(r)
  <2>1. UNCHANGED <<policy, promotion, archive, overtaken, status>>
    BY <1>2
       DEF RequestStep, RouteStore, OperationFinds, OperationTouches, SessionFinds, Found,
           SessionTouches, ResolveTarget, BindOperation, ActivationLeases, ActivationFails,
           ProxyAnswers, ProxyThrows, BindSession, BindSessionThrows, ResponseEnds,
           policyVars, archiveVars
  <2> QED BY <2>1 DEF TypeInv, Rows
<1> QED BY <1>1, <1>2

LEMMA TouchTyped ==
    ASSUME NEW rows \in [SessionId -> Binding \cup {NoBinding}], NEW s \in SessionId,
           rows[s] # NoBinding, NEW i \in BOOLEAN
    PROVE  /\ [rows EXCEPT ![s].idle = i] \in [SessionId -> Binding \cup {NoBinding}]
           /\ [rows EXCEPT ![s].idle = i][s] # NoBinding
           /\ [rows EXCEPT ![s].idle = i][s].deployment = rows[s].deployment
           /\ \A t \in SessionId : t # s => [rows EXCEPT ![s].idle = i][t] = rows[t]
<1>1. rows[s] \in Binding
  OBVIOUS
<1>2. [rows[s] EXCEPT !.idle = i] \in Binding
  BY <1>1 DEF Binding
<1>3. [rows[s] EXCEPT !.idle = i].deployment = rows[s].deployment
  BY <1>1 DEF Binding
<1>4. NoBinding \notin Binding
  BY GatewayAssumption
<1> QED BY <1>2, <1>3, <1>4

\* Bindings are kept: an operation's Deployment never changes, a Session's row stays,
\* and a Deployment asked to create a Session stays its home.
BindingsKept ==
    /\ operationBinding' \in [SessionId -> Binding \cup {NoBinding}]
    /\ sessionBinding' \in [SessionId -> Binding \cup {NoBinding}]
    /\ home' \in [SessionId -> SUBSET Deployment]
    /\ \A s \in SessionId, d \in Deployment :
          BoundTo(operationBinding, s, d) => BoundTo(operationBinding', s, d)
    /\ \A s \in SessionId : sessionBinding[s] # NoBinding => sessionBinding'[s] # NoBinding
    /\ \A s \in SessionId : home[s] \subseteq home'[s]

LEMMA UnchangedBindings ==
    ASSUME Rows, UNCHANGED <<operationBinding, sessionBinding, home>> PROVE BindingsKept
BY DEF Rows, BindingsKept, BoundTo

LEMMA DeliveredKeeps ==
    ASSUME Rows, NEW r \in Request, req[r].session \in SessionId, req[r].goal \in Deployment,
           Delivered(r)
    PROVE  /\ home' \in [SessionId -> SUBSET Deployment]
           /\ \A s \in SessionId : home[s] \subseteq home'[s]
           /\ \A s \in SessionId : home'[s] # home[s] =>
                 s = req[r].session /\ req[r].kind # "follow"
                 /\ home'[s] = home[s] \cup {req[r].goal}
           /\ req[r].kind # "follow" => req[r].goal \in home'[req[r].session]
<1>1. home \in [SessionId -> SUBSET Deployment]
  BY DEF Rows
<1>2. CASE req[r].kind = "follow"
  BY <1>1, <1>2 DEF Delivered
<1>3. CASE req[r].kind # "follow"
  <2>1. home' = [home EXCEPT ![req[r].session] = home[req[r].session] \cup {req[r].goal}]
    BY <1>3 DEF Delivered
  <2> QED BY <1>1, <1>3, <2>1
<1> QED BY <1>2, <1>3

LEMMA StepKeepsBindings ==
    ASSUME TypeInv, PinInv, NEW r \in Request, RequestStep(r) PROVE BindingsKept
<1> USE DEF TypeInv
<1>0. req[r] \in RequestType /\ RequestShape(req[r]) 
      /\ PinnedRequest(req[r], operationBinding, sessionBinding, home)
  BY DEF Rows, Shape, PinInv
<1>1. CASE OperationTouches(r)
  <2>1. /\ req[r].session \in SessionId /\ operationBinding[req[r].session] # NoBinding
        /\ operationBinding \in [SessionId -> Binding \cup {NoBinding}]
    BY <1>0, <1>1, GatewayAssumption
       DEF OperationTouches, RequestShape, PinnedRequest, BoundTo, Rows
  <2>2. /\ operationBinding' = [operationBinding EXCEPT ![req[r].session].idle = FALSE]
        /\ UNCHANGED <<sessionBinding, home>>
    BY <1>1 DEF OperationTouches
  <2>3. /\ operationBinding' \in [SessionId -> Binding \cup {NoBinding}]
        /\ operationBinding'[req[r].session] # NoBinding
        /\ operationBinding'[req[r].session].deployment
             = operationBinding[req[r].session].deployment
        /\ \A t \in SessionId : t # req[r].session => operationBinding'[t] = operationBinding[t]
    BY <2>1, <2>2, TouchTyped
  <2> QED BY <2>2, <2>3 DEF BindingsKept, BoundTo, Rows
<1>2. CASE SessionTouches(r)
  <2>1. /\ req[r].session \in SessionId /\ sessionBinding[req[r].session] # NoBinding
        /\ sessionBinding \in [SessionId -> Binding \cup {NoBinding}]
    BY <1>0, <1>2 DEF SessionTouches, RequestShape, PinnedRequest, Rows
  <2>2. /\ sessionBinding' = [sessionBinding EXCEPT ![req[r].session].idle = FALSE]
        /\ UNCHANGED <<operationBinding, home>>
    BY <1>2 DEF SessionTouches
  <2>3. /\ sessionBinding' \in [SessionId -> Binding \cup {NoBinding}]
        /\ sessionBinding'[req[r].session] # NoBinding
        /\ sessionBinding'[req[r].session].deployment = sessionBinding[req[r].session].deployment
        /\ \A t \in SessionId : t # req[r].session => sessionBinding'[t] = sessionBinding[t]
    BY <2>1, <2>2, TouchTyped
  <2> QED BY <2>2, <2>3 DEF BindingsKept, BoundTo, Rows
<1>3. CASE BindOperation(r)
  <2>1. req[r].session \in SessionId /\ req[r].goal \in Deployment
    BY <1>0, <1>3 DEF BindOperation, RequestShape, Aimed
  <2>2. [deployment |-> req[r].goal, idle |-> FALSE] \in Binding
    BY <2>1 DEF Binding
  <2> QED BY <1>3, <2>1, <2>2 DEF BindOperation, Rows, BindingsKept, BoundTo
<1>4. CASE BindSession(r)
  <2>1. req[r].session \in SessionId /\ req[r].goal \in Deployment
    BY <1>0, <1>4 DEF BindSession, RequestShape, Aimed
  <2>2. [deployment |-> req[r].goal, idle |-> FALSE] \in Binding /\ NoBinding \notin Binding
    BY <2>1, GatewayAssumption DEF Binding
  <2> QED BY <1>4, <2>1, <2>2 DEF BindSession, Rows, BindingsKept, BoundTo
<1>5. ASSUME NEW named \in BOOLEAN, ProxyAnswers(r, named) PROVE BindingsKept
  <2>1. /\ req[r].session \in SessionId /\ req[r].goal \in Deployment /\ Delivered(r)
        /\ UNCHANGED <<operationBinding, sessionBinding>>
    BY <1>0, <1>5 DEF ProxyAnswers, RequestShape, Aimed
  <2> QED BY <2>1, DeliveredKeeps DEF BindingsKept, BoundTo, Rows
<1>6. ASSUME NEW delivered \in BOOLEAN, ProxyThrows(r, delivered) PROVE BindingsKept
  <2>1. /\ req[r].session \in SessionId /\ req[r].goal \in Deployment
        /\ UNCHANGED <<operationBinding, sessionBinding>>
        /\ Delivered(r) \/ UNCHANGED home
    BY <1>0, <1>6 DEF ProxyThrows, RequestShape, Aimed
  <2>2. CASE UNCHANGED home
    BY <2>1, <2>2, UnchangedBindings
  <2>3. CASE Delivered(r)
    BY <2>1, <2>3, DeliveredKeeps DEF BindingsKept, BoundTo, Rows
  <2> QED BY <2>1, <2>2, <2>3
<1>7. ASSUME \/ RouteStore(r) \/ OperationFinds(r) \/ SessionFinds(r) \/ ResolveTarget(r)
             \/ ActivationLeases(r) \/ ActivationGranted(r) \/ ActivationFails(r)
             \/ BindSessionThrows(r) \/ ResponseEnds(r)
      PROVE  BindingsKept
  <2>1. UNCHANGED <<operationBinding, sessionBinding, home>>
    BY <1>7
       DEF RouteStore, OperationFinds, SessionFinds, Found, ResolveTarget, ActivationLeases,
           ActivationGranted, ActivationFails, BindSessionThrows, ResponseEnds, bindingVars
  <2> QED BY <2>1, UnchangedBindings
<1> QED BY <1>1, <1>2, <1>3, <1>4, <1>5, <1>6, <1>7 DEF RequestStep

LEMMA TypeInvNext == TypeInv /\ PinInv /\ [GatewayNext]_gatewayVars => TypeInv'
<1> SUFFICES ASSUME TypeInv, PinInv, [GatewayNext]_gatewayVars PROVE TypeInv'
  OBVIOUS
<1> USE DEF TypeInv, policyVars, bindingVars, archiveVars, gatewayVars
<1>a. "none" \notin Kinds
  BY GatewayAssumption DEF RequestKinds
<1>0. UNCHANGED <<status, archive>> => ArchiveShape'
  BY DEF ArchiveShape
<1>1. ASSUME NEW r \in Request, NEW kind \in Kinds, NEW s \in SessionId, RouteHit(r, kind, s)
      PROVE  TypeInv'
  <2>1. /\ cache \in Route /\ Routed(r, Arrived(kind, s), cache)
        /\ UNCHANGED <<status, policyVars, cache, bindingVars, archiveVars>>
    BY <1>1 DEF RouteHit, Rows
  <2>2. req' \in [Request -> RequestType] /\ Shape'
    BY <2>1, RoutedTyped, ArrivedTyped
  <2> QED BY <1>0, <2>1, <2>2 DEF Rows
<1>2. ASSUME NEW r \in Request, NEW kind \in Kinds, NEW s \in SessionId,
             RouteLookup(r, kind, s)
      PROVE  TypeInv'
  <2> DEFINE n == [Arrived(kind, s) EXCEPT !.route = FindRouteByHostname, !.at = "storing"]
  <2>1. n \in RequestType /\ RequestShape(n)
    <3>1. FindRouteByHostname \in Route
      BY FoundRouteTyped
    <3> QED BY <1>a, <3>1
            DEF Arrived, NoRequest, RequestType, RequestShape, Place, WithRoute, Aimed
  <2>2. Put(r, n)
    BY <1>2 DEF RouteLookup, Put
  <2> HIDE DEF n
  <2>3. req' \in [Request -> RequestType] /\ Shape'
    BY <2>1, <2>2, PutTyped
  <2>4. UNCHANGED <<status, policyVars, cache, bindingVars, archiveVars>>
    BY <1>2 DEF RouteLookup
  <2> QED BY <1>0, <2>3, <2>4 DEF Rows
<1>3. ASSUME NEW r \in Request, RequestStep(r) PROVE TypeInv'
  <2>1. req' \in [Request -> RequestType] /\ Shape'
    BY <1>3, RequestStepTyped
  <2>2. BindingsKept
    BY <1>3, StepKeepsBindings
  <2>3. /\ UNCHANGED <<policy, promotion, archive, overtaken>>
        /\ status' \in [Deployment -> Status]
        /\ \A d \in Deployment :
              status'[d] # status[d] => status[d] = "stopped" /\ status'[d] = "running"
    BY <1>3, RequestStepKeeps
  <2>4. cache' \in Route \cup {NoRoute}
    <3>1. CASE RouteStore(r)
      BY <3>1 DEF RouteStore, Rows, Shape, RequestShape, WithRoute
    <3>2. CASE ~ RouteStore(r)
      <4>1. cache' = cache
        BY <1>3, <3>2
           DEF RequestStep, OperationFinds, OperationTouches, SessionFinds, Found,
               SessionTouches, ResolveTarget, BindOperation, ActivationLeases,
               ActivationGranted, ActivationFails, ProxyAnswers, ProxyThrows, BindSession,
               BindSessionThrows, ResponseEnds
      <4> QED BY <4>1 DEF Rows
    <3> QED BY <3>1, <3>2
  <2>5. ArchiveShape'
    BY <2>3 DEF ArchiveShape
  <2>6. Rows'
    BY <2>1, <2>2, <2>3, <2>4 DEF Rows, BindingsKept
  <2> QED BY <2>1, <2>5, <2>6
<1>4. ASSUME NEW r \in Request, LeaseLapses(r) PROVE TypeInv'
  <2>1. req' \in [Request -> RequestType] /\ Shape'
    BY <1>4, NoRequestTyped, PutTyped DEF LeaseLapses, Ends, Put
  <2> QED BY <1>0, <1>4, <2>1 DEF LeaseLapses, Rows
<1>5. ASSUME GatewayDies PROVE TypeInv'
  <2>1. \A r \in Request : req[r].held => req[r].goal \in Deployment
    BY DEF Shape, RequestShape
  <2>2. \A r \in Request : req'[r] \in {Lease(r, "done"), NoRequest}
    BY <1>5 DEF GatewayDies
  <2>3. \A r \in Request : req'[r] \in RequestType /\ RequestShape(req'[r])
    BY <2>1, <2>2, LeaseTyped, NoRequestTyped
  <2>4. req' \in [Request -> RequestType] /\ Shape'
    BY <1>5, <2>3 DEF GatewayDies, Shape
  <2> QED BY <1>0, <1>5, <2>4 DEF GatewayDies, Rows
<1>6. ASSUME CacheExpires PROVE TypeInv'
  BY <1>0, <1>6 DEF CacheExpires, Rows, Shape
<1>7. ASSUME NEW arrives \in BOOLEAN, InvalidateCache(arrives) PROVE TypeInv'
  BY <1>0, <1>7 DEF InvalidateCache, Rows, Shape
<1>8. ASSUME NEW s \in SessionId, OperationIdles(s) PROVE TypeInv'
  <2>1. operationBinding \in [SessionId -> Binding \cup {NoBinding}]
    BY DEF Rows
  <2>2. /\ operationBinding[s] # NoBinding
        /\ operationBinding' = [operationBinding EXCEPT ![s].idle = TRUE]
        /\ UNCHANGED <<status, policyVars, cache, req, sessionBinding, home, archiveVars>>
    BY <1>8 DEF OperationIdles, Idles
  <2>3. operationBinding' \in [SessionId -> Binding \cup {NoBinding}]
    BY <2>1, <2>2, TouchTyped
  <2> QED BY <1>0, <2>2, <2>3 DEF Rows, Shape
<1>9. ASSUME NEW s \in SessionId, SessionIdles(s) PROVE TypeInv'
  <2>1. sessionBinding \in [SessionId -> Binding \cup {NoBinding}]
    BY DEF Rows
  <2>2. /\ sessionBinding[s] # NoBinding
        /\ sessionBinding' = [sessionBinding EXCEPT ![s].idle = TRUE]
        /\ UNCHANGED <<status, policyVars, cache, req, operationBinding, home, archiveVars>>
    BY <1>9 DEF SessionIdles, Idles
  <2>3. sessionBinding' \in [SessionId -> Binding \cup {NoBinding}]
    BY <2>1, <2>2, TouchTyped
  <2> QED BY <1>0, <2>2, <2>3 DEF Rows, Shape
<1>10. ASSUME NEW targets \in SUBSET Deployment, NEW weighted \in SUBSET targets,
              UpdateRouteTargets(targets, weighted)
       PROVE  TypeInv'
  BY <1>0, <1>10 DEF UpdateRouteTargets, NewPolicy, Rows, Shape
<1>11. ASSUME PromotionCommits PROVE TypeInv'
  BY <1>0, <1>11 DEF PromotionCommits, NewPolicy, Rows, Shape
<1>12. ASSUME NEW d \in Deployment, PromotionReads(d) PROVE TypeInv'
  BY <1>0, <1>12 DEF PromotionReads, Rows, Shape
<1>13. ASSUME NEW d \in Deployment, Stops(d) \/ Drains(d) PROVE TypeInv'
  BY <1>13 DEF Stops, Drains, Rows, Shape, ArchiveShape, Status
<1>14. ASSUME NEW d \in Deployment, ArchiveClaims(d) PROVE TypeInv'
  <2>1. /\ archive' = [deployment |-> d, at |-> "routes", prior |-> status[d],
                       protected |-> FALSE]
        /\ status[d] \in {"running", "draining", "stopped"}
        /\ status' = [status EXCEPT ![d] = "archiving"]
        /\ UNCHANGED <<policyVars, cache, req, bindingVars>>
        /\ overtaken' \in {overtaken, overtaken \cup {d}}
    BY <1>14 DEF ArchiveClaims, Serves
  <2>2. archive' \in ArchiveType
    BY <2>1 DEF ArchiveType
  <2>3. Rows' /\ Shape'
    BY <2>1, <2>2 DEF Rows, Shape, Status
  <2>4. ArchiveShape'
    BY <2>1 DEF ArchiveShape, Rows
  <2> QED BY <2>3, <2>4
<1>15. ASSUME NEW from, NEW to \in {"sessions", "operations", "leases", "decide"},
              NEW reason \in BOOLEAN, from # "idle", Retention(from, to, reason)
       PROVE  TypeInv'
  <2>1. /\ archive.at = from /\ archive \in ArchiveType
        /\ archive' = [archive EXCEPT !.at = to, !.protected = archive.protected \/ reason]
        /\ UNCHANGED <<status, policyVars, cache, req, bindingVars, overtaken>>
    BY <1>15 DEF Retention, Rows
  <2>2. archive' \in ArchiveType
    BY <2>1 DEF ArchiveType
  <2>3. Rows' /\ Shape'
    BY <2>1, <2>2 DEF Rows, Shape
  <2>4. ArchiveShape'
    BY <1>15, <2>1 DEF ArchiveShape, ArchiveType
  <2> QED BY <2>3, <2>4
<1>16. ASSUME RetentionReadsRoutes \/ RetentionReadsSessions \/ RetentionReadsOperations
              \/ RetentionReadsLeases
       PROVE  TypeInv'
  <2>1. CASE RetentionReadsRoutes
    <3>1. (archive.deployment \in policy.targets) \in BOOLEAN
      OBVIOUS
    <3> QED BY <1>15, <2>1, <3>1 DEF RetentionReadsRoutes
  <2>2. CASE RetentionReadsSessions
    <3>1. Bound(sessionBinding, archive.deployment) \in BOOLEAN
      BY DEF Bound
    <3> QED BY <1>15, <2>2, <3>1 DEF RetentionReadsSessions
  <2>3. CASE RetentionReadsOperations
    <3>1. Bound(operationBinding, archive.deployment) \in BOOLEAN
      BY DEF Bound
    <3> QED BY <1>15, <2>3, <3>1 DEF RetentionReadsOperations
  <2>4. CASE RetentionReadsLeases
    <3>1. (Held(archive.deployment) # {}) \in BOOLEAN
      OBVIOUS
    <3> QED BY <1>15, <2>4, <3>1 DEF RetentionReadsLeases
  <2> QED BY <1>16, <2>1, <2>2, <2>3, <2>4
<1>17. ASSUME archive.at # "idle", NEW end \in Status,
              status' = [status EXCEPT ![archive.deployment] = end], archive' = NoArchive,
              UNCHANGED <<policyVars, cache, req, bindingVars, overtaken>>
       PROVE  TypeInv'
  <2>1. NoArchive \in ArchiveType
    BY DEF NoArchive, ArchiveType
  <2>2. Rows' /\ Shape'
    BY <1>17, <2>1 DEF Rows, Shape, Status, ArchiveShape
  <2>3. ArchiveShape'
    BY <1>17 DEF ArchiveShape, NoArchive
  <2> QED BY <2>2, <2>3
<1>18. archive.at # "idle" => archive.prior \in Status
  BY DEF Rows, ArchiveShape, ArchiveType, Status
<1>19. ASSUME ArchiveDecides PROVE TypeInv'
  <2>1. CASE archive.protected
    BY <1>17, <1>18, <1>19, <2>1 DEF ArchiveDecides
  <2>2. CASE ~ archive.protected
    <3>1. /\ archive.at = "decide" /\ archive' = [archive EXCEPT !.at = "removing"]
          /\ UNCHANGED <<status, policyVars, cache, req, bindingVars, overtaken>>
      BY <1>19, <2>2 DEF ArchiveDecides
    <3>2. archive' \in ArchiveType
      BY <3>1 DEF ArchiveType, Rows
    <3>3. Rows' /\ Shape'
      BY <3>1, <3>2 DEF Rows, Shape
    <3>4. ArchiveShape'
      BY <2>2, <3>1 DEF ArchiveShape, ArchiveType, Rows
    <3> QED BY <3>3, <3>4
  <2> QED BY <2>1, <2>2
<1>20. ASSUME ArchiveFinishes PROVE TypeInv'
  BY <1>17, <1>20 DEF ArchiveFinishes, Status
<1>21. ASSUME ArchiveThrows PROVE TypeInv'
  <2>1. archive.at # "idle"
    BY <1>21 DEF ArchiveThrows, ArchiveShape
  <2> QED BY <1>17, <1>18, <1>21, <2>1 DEF ArchiveThrows
<1>22. ASSUME UNCHANGED gatewayVars PROVE TypeInv'
  BY <1>22 DEF Rows, Shape, ArchiveShape
<1> QED
  BY <1>1, <1>2, <1>3, <1>4, <1>5, <1>6, <1>7, <1>8, <1>9, <1>10, <1>11, <1>12, <1>13,
     <1>14, <1>16, <1>19, <1>20, <1>21, <1>22
     DEF GatewayNext, ArchiveStep

-----------------------------------------------------------------------------
(***************************************************************************)
(* Bindings decide where requests go                                       *)
(***************************************************************************)
\* What binds a request goes on binding it.
LEMMA StaysPinned ==
    ASSUME BindingsKept, NEW q \in RequestType, RequestShape(q),
           PinnedRequest(q, operationBinding, sessionBinding, home)
    PROVE  PinnedRequest(q, operationBinding', sessionBinding', home')
<1>1. q.kind # "none" => q.session \in SessionId
  BY DEF RequestShape
<1>2. q.pin # NoDeployment => q.pin \in Deployment
  BY DEF RequestType
<1>3. q.kind = "keyed" /\ q.pin # NoDeployment => BoundTo(operationBinding', q.session, q.pin)
  BY <1>1, <1>2 DEF PinnedRequest, BindingsKept
<1>4. q.kind = "follow" => (q.pin # NoDeployment => q.pin \in home'[q.session])
                           /\ (q.at = "touching" => sessionBinding'[q.session] # NoBinding)
  BY <1>1 DEF PinnedRequest, BindingsKept
<1>5. q.at = "answered" => q.goal \in home'[q.session]
  BY DEF PinnedRequest, BindingsKept, RequestShape
<1> QED BY <1>3, <1>4, <1>5 DEF PinnedRequest

RequestsPinned ==
    \A r \in Request : PinnedRequest(req[r], operationBinding, sessionBinding, home)

LEMMA PutPinned ==
    ASSUME TypeInv, PinInv, BindingsKept, NEW r \in Request, NEW q \in RequestType, Put(r, q),
           PinnedRequest(q, operationBinding', sessionBinding', home')
    PROVE  RequestsPinned'
<1>1. req'[r] = q /\ \A p \in Request : p # r => req'[p] = req[p]
  BY DEF Put, TypeInv, Rows
<1>2. \A p \in Request : p # r => PinnedRequest(req'[p], operationBinding', sessionBinding', home')
  BY <1>1, StaysPinned DEF TypeInv, Rows, Shape, PinInv
<1> QED BY <1>1, <1>2 DEF RequestsPinned

LEMMA FreshPinned ==
    ASSUME NEW q \in RequestType, q.at \notin Sent, q.pin = NoDeployment, q.at # "touching",
           NEW operations, NEW sessions, NEW homes
    PROVE  PinnedRequest(q, operations, sessions, homes)
BY DEF PinnedRequest, Sent, Aimed

LEMMA PinnedStep ==
    ASSUME TypeInv, PinInv, NEW r \in Request, RequestStep(r)
    PROVE  RequestsPinned'
<1> USE DEF TypeInv
<1> DEFINE P(q) == PinnedRequest(q, operationBinding, sessionBinding, home)
           N(q) == PinnedRequest(q, operationBinding', sessionBinding', home')
<1>0. /\ req[r] \in RequestType /\ RequestShape(req[r]) /\ req \in [Request -> RequestType]
      /\ P(req[r])
  BY DEF Rows, Shape, PinInv
<1>b. NoDeployment \notin Deployment /\ BindingsKept
  BY GatewayAssumption, StepKeepsBindings
<1>c. req' \in [Request -> RequestType] /\ Shape'
  BY RequestStepTyped
<1>p. ASSUME NEW q \in RequestType, Put(r, q), P(q) PROVE RequestsPinned'
  <2>1. RequestShape(q)
    BY <1>0, <1>c, <1>p DEF Shape, Put
  <2> QED BY <1>b, <1>p, <2>1, StaysPinned, PutPinned
<1>e. ASSUME Ends(r) PROVE RequestsPinned'
  <2>1. P(NoRequest) /\ NoRequest \in RequestType
    BY FreshPinned, NoRequestTyped DEF Sent, Aimed
  <2> QED BY <1>e, <1>p, <2>1 DEF Ends, Put
<1>s. ASSUME Streams(r) PROVE RequestsPinned'
  <2>1. req[r].held => req[r].goal \in Deployment
    BY <1>0 DEF RequestShape
  <2>2. Lease(r, "streaming") \in RequestType
    BY <2>1, LeaseTyped
  <2>3. Lease(r, "streaming").at = "streaming" /\ Lease(r, "streaming").pin = NoDeployment
    BY <2>1, LeaseTyped
  <2>4. P(Lease(r, "streaming"))
    BY <2>2, <2>3, FreshPinned DEF Sent, Aimed
  <2> QED BY <1>s, <1>p, <2>2, <2>4 DEF Streams, Put
<1>1. ASSUME RouteStore(r) PROVE RequestsPinned'
  <2> DEFINE n == [req[r] EXCEPT !.route = [req[r].route EXCEPT !.revision = 0],
                       !.at = IF req[r].kind = "unkeyed" THEN "resolving" ELSE "binding"]
  <2>1. Put(r, n)
    BY <1>1 DEF RouteStore, Routed, Put
  <2>2. n.at \in {"resolving", "binding"} /\ n.pin = NoDeployment
    BY <1>0, <1>1 DEF RequestType, PinnedRequest, RouteStore
  <2>3. req'[r] = n
    BY <1>0, <2>1 DEF Put
  <2> HIDE DEF n
  <2>4. n \in RequestType
    BY <1>c, <2>3
  <2>5. P(n)
    BY <2>2, <2>4, FreshPinned DEF Sent, Aimed
  <2> QED BY <2>1, <2>4, <2>5, <1>p
<1>q. ASSUME NEW place \in Place, Proceeds(r, place), P([req[r] EXCEPT !.at = place])
      PROVE  RequestsPinned'
  BY <1>p, <1>q, ProceedsPuts
<1>2. ASSUME NEW rows \in [SessionId -> Binding \cup {NoBinding}], Found(r, rows),
             rows[req[r].session] # NoBinding =>
                \/ /\ req[r].kind = "keyed"
                   /\ BoundTo(operationBinding, req[r].session, rows[req[r].session].deployment)
                \/ /\ req[r].kind = "follow"
                   /\ rows[req[r].session].deployment \in home[req[r].session]
                   /\ sessionBinding[req[r].session] # NoBinding
      PROVE  RequestsPinned'
  <2> DEFINE b == rows[req[r].session]
  <2>1. req[r].at = "binding" /\ req[r].session \in SessionId
    BY <1>0, <1>2 DEF Found, RequestShape
  <2>2. CASE b = NoBinding
    <3>1. Proceeds(r, "resolving")
      BY <1>2, <2>2 DEF Found
    <3>2. P([req[r] EXCEPT !.at = "resolving"])
      BY <1>0, <2>1 DEF PinnedRequest, RequestType, Sent, Aimed
    <3> QED BY <3>1, <3>2, <1>q DEF Place
  <2>3. CASE b # NoBinding /\ b.idle
    BY <1>2, <2>3, <1>e DEF Found
  <2>4. CASE b # NoBinding /\ ~ b.idle
    <3> DEFINE n == [req[r] EXCEPT !.pin = b.deployment, !.at = "touching"]
    <3>1. Put(r, n)
      BY <1>0, <1>2, <2>4 DEF Found, Put
    <3>2. b.deployment \in Deployment
      BY <1>2, <2>1, <2>4 DEF Binding
    <3>3. n \in RequestType
      BY <1>0, <3>2 DEF RequestType, Place
    <3>4. P(n)
      BY <1>0, <1>2, <2>4 DEF PinnedRequest, RequestType, Sent, Aimed
    <3> HIDE DEF n
    <3> QED BY <3>1, <3>3, <3>4, <1>p
  <2> QED BY <2>2, <2>3, <2>4
<1>3. ASSUME OperationFinds(r) PROVE RequestsPinned'
  BY <1>2, <1>3 DEF OperationFinds, Rows, BoundTo
<1>4. ASSUME SessionFinds(r) PROVE RequestsPinned'
  <2>1. req[r].session \in SessionId
    BY <1>0, <1>4 DEF SessionFinds, Found, RequestShape
  <2> QED BY <1>2, <1>4, <2>1 DEF SessionFinds, Rows, PinInv
<1>5. ASSUME OperationTouches(r) \/ SessionTouches(r) PROVE RequestsPinned'
  <2>1. req[r].at = "touching" /\ Proceeds(r, "resolving")
    BY <1>5 DEF OperationTouches, SessionTouches
  <2>2. P([req[r] EXCEPT !.at = "resolving"])
    BY <1>0, <2>1 DEF PinnedRequest, RequestType, Sent, Aimed
  <2> QED BY <2>1, <2>2, <1>q DEF Place
<1>6. ASSUME ResolveTarget(r) PROVE RequestsPinned'
  <2>1. req[r].at = "resolving" /\ req[r].route \in Route
    BY <1>0, <1>6 DEF ResolveTarget, RequestShape, WithRoute
  <2>2. CASE Ends(r)
    BY <2>2, <1>e
  <2>3. CASE ~ Ends(r)
    <3>1. PICK d \in Candidates(req[r].route, req[r].pin) :
             IF req[r].kind = "keyed" /\ req[r].pin = NoDeployment
             THEN req' = [req EXCEPT ![r].goal = d, ![r].at = "claiming"]
             ELSE Activating(r, [req[r] EXCEPT !.goal = d])
      BY <1>6, <2>3 DEF ResolveTarget
    <3>2. d \in Deployment
      BY <1>0, <2>1, <3>1, CandidatesAreDeployments DEF RequestType
    <3>3. CASE req[r].kind = "keyed" /\ req[r].pin = NoDeployment
      <4> DEFINE n == [req[r] EXCEPT !.goal = d, !.at = "claiming"]
      <4>1. Put(r, n)
        BY <1>0, <3>1, <3>3 DEF Put
      <4>2. n \in RequestType /\ n.pin = NoDeployment /\ n.at = "claiming"
        BY <1>0, <3>2, <3>3 DEF RequestType, Place
      <4> HIDE DEF n
      <4>3. P(n)
        BY <4>2, FreshPinned DEF Sent
      <4> QED BY <4>1, <4>2, <4>3, <1>p
    <3>4. CASE ~ (req[r].kind = "keyed" /\ req[r].pin = NoDeployment)
      <4> DEFINE n == [req[r] EXCEPT !.goal = d, !.route = NoRoute, !.at = "activating"]
      <4>1. Put(r, n)
        BY <1>0, <3>1, <3>4 DEF Activating, Put
      <4>2. req[r].pin # NoDeployment => d = req[r].pin
        BY <3>1 DEF Candidates
      <4>3. n \in RequestType
        BY <1>0, <3>2 DEF RequestType, Place
      <4>4. P(n)
        BY <1>0, <3>4, <4>2 DEF PinnedRequest, RequestType, Sent, Aimed
      <4> HIDE DEF n
      <4> QED BY <4>1, <4>3, <4>4, <1>p
    <3> QED BY <3>3, <3>4
  <2> QED BY <2>2, <2>3
<1>7. ASSUME BindOperation(r) PROVE RequestsPinned'
  <2> DEFINE c == operationBinding'[req[r].session].deployment
  <2>1. /\ req[r].at = "claiming" /\ req[r].session \in SessionId
        /\ req[r].kind = "keyed" /\ req[r].goal \in Deployment
    BY <1>0, <1>7 DEF BindOperation, RequestShape, Aimed
  <2>2. BoundTo(operationBinding', req[r].session, c)
    <3>1. [deployment |-> req[r].goal, idle |-> FALSE] \in Binding /\ NoBinding \notin Binding
      BY <2>1, GatewayAssumption DEF Binding
    <3> QED BY <1>7, <2>1, <3>1 DEF BindOperation, BoundTo, Rows
  <2>3. c \in Deployment
    BY <1>b, <2>1, <2>2 DEF BindingsKept, BoundTo, Binding
  <2>4. CASE c = req[r].goal
    <3> DEFINE n == [req[r] EXCEPT !.pin = c, !.route = NoRoute, !.at = "activating"]
    <3>1. Put(r, n)
      BY <1>0, <1>7, <2>4 DEF BindOperation, Activating, Put
    <3>2. n \in RequestType
      BY <1>0, <2>3 DEF RequestType, Place
    <3>3. N(n)
      <4>1. /\ n.kind = "keyed" /\ n.pin = c /\ n.goal = c /\ n.at = "activating"
            /\ n.session = req[r].session
        BY <1>0, <2>1, <2>4 DEF RequestType
      <4> HIDE DEF n
      <4> QED BY <1>b, <2>2, <2>3, <4>1 DEF PinnedRequest
    <3> HIDE DEF n
    <3> QED BY <1>b, <3>1, <3>2, <3>3, PutPinned
  <2>5. CASE c # req[r].goal
    <3> DEFINE n == [req[r] EXCEPT !.pin = c, !.at = "resolving"]
    <3>1. Put(r, n)
      BY <1>0, <1>7, <2>5 DEF BindOperation, Put
    <3>2. n \in RequestType
      BY <1>0, <2>3 DEF RequestType, Place
    <3>3. N(n)
      <4>1. /\ n.kind = "keyed" /\ n.pin = c /\ n.at = "resolving"
            /\ n.session = req[r].session
        BY <1>0, <2>1 DEF RequestType
      <4> HIDE DEF n
      <4> QED BY <1>b, <2>2, <2>3, <4>1 DEF PinnedRequest, Sent, Aimed
    <3> HIDE DEF n
    <3> QED BY <1>b, <3>1, <3>2, <3>3, PutPinned
  <2> QED BY <2>4, <2>5
<1>8. ASSUME ActivationLeases(r) PROVE RequestsPinned'
  <2> DEFINE n == [req[r] EXCEPT !.held = TRUE, !.late = Overlooked(req[r].goal),
                                 !.at = "waiting"]
  <2>1. Put(r, n) /\ req[r].at = "activating" /\ Overlooked(req[r].goal) \in BOOLEAN
    BY <1>0, <1>8 DEF ActivationLeases, Put, Overlooked
  <2>2. n \in RequestType
    BY <1>0, <2>1 DEF RequestType, Place
  <2>3. P(n)
    BY <1>0, <2>1 DEF PinnedRequest, RequestType, Sent, Aimed
  <2> HIDE DEF n
  <2> QED BY <2>1, <2>2, <2>3, <1>p
<1>9. ASSUME ActivationGranted(r) PROVE RequestsPinned'
  <2>1. req[r].at = "waiting" /\ Proceeds(r, "proxying")
    BY <1>9 DEF ActivationGranted
  <2>2. P([req[r] EXCEPT !.at = "proxying"])
    BY <1>0, <2>1 DEF PinnedRequest, RequestType, Sent, Aimed
  <2> QED BY <2>1, <2>2, <1>q DEF Place
<1>10. ASSUME ActivationFails(r) \/ BindSessionThrows(r) \/ ResponseEnds(r)
       PROVE  RequestsPinned'
  BY <1>10, <1>e DEF ActivationFails, BindSessionThrows, ResponseEnds
<1>11. ASSUME NEW named \in BOOLEAN, ProxyAnswers(r, named) PROVE RequestsPinned'
  <2>1. CASE Streams(r)
    BY <2>1, <1>s
  <2>2. CASE ~ Streams(r)
    <3> DEFINE n == [req[r] EXCEPT !.at = "answered"]
    <3>1. /\ req[r].at = "proxying" /\ req[r].kind # "follow" /\ Delivered(r)
          /\ Proceeds(r, "answered")
      BY <1>11, <2>2 DEF ProxyAnswers
    <3>2. Put(r, n) /\ n \in RequestType
      BY <3>1, ProceedsPuts DEF Place
    <3>3. req[r].goal \in home'[req[r].session]
      BY <1>0, <3>1, DeliveredKeeps DEF RequestShape, Aimed
    <3>4. N(req[r])
      BY <1>0, <1>b, StaysPinned
    <3>5. N(n)
      BY <1>0, <3>1, <3>3, <3>4 DEF PinnedRequest, RequestType, Sent, Aimed
    <3> HIDE DEF n
    <3> QED BY <1>b, <3>2, <3>5, PutPinned
  <2> QED BY <2>1, <2>2
<1>12. ASSUME NEW delivered \in BOOLEAN, ProxyThrows(r, delivered) PROVE RequestsPinned'
  BY <1>12, <1>e DEF ProxyThrows
<1>13. ASSUME BindSession(r) PROVE RequestsPinned'
  BY <1>13, <1>s DEF BindSession
<1> QED
  BY <1>1, <1>3, <1>4, <1>5, <1>6, <1>7, <1>8, <1>9, <1>10, <1>11, <1>12, <1>13
     DEF RequestStep

SessionsBoundHome ==
    \A s \in SessionId : sessionBinding[s] # NoBinding => sessionBinding[s].deployment \in home[s]

HomesBound ==
    \A s \in SessionId : \A d \in home[s] : BoundTo(operationBinding, s, d)

\* A Session is bound to a Deployment that was asked to create it, and without creates
\* that carry no operationId that is the Deployment its operation is bound to.
LEMMA HomesStep ==
    ASSUME TypeInv, PinInv, NEW r \in Request, RequestStep(r)
    PROVE  SessionsBoundHome' /\ ("unkeyed" \notin Kinds => HomesBound')
<1> USE DEF TypeInv
<1>0. /\ req[r] \in RequestType /\ RequestShape(req[r])
      /\ PinnedRequest(req[r], operationBinding, sessionBinding, home)
      /\ SessionsBoundHome /\ ("unkeyed" \notin Kinds => HomesBound)
      /\ home \in [SessionId -> SUBSET Deployment]
      /\ sessionBinding \in [SessionId -> Binding \cup {NoBinding}]
  BY DEF Rows, Shape, PinInv, SessionsBoundHome, HomesBound
<1>b. BindingsKept
  BY StepKeepsBindings
<1>h. UNCHANGED home => ("unkeyed" \notin Kinds => HomesBound')
  BY <1>0, <1>b DEF HomesBound, BindingsKept
<1>s. UNCHANGED sessionBinding => SessionsBoundHome'
  BY <1>0, <1>b DEF SessionsBoundHome, BindingsKept
<1>d. ASSUME req[r].at = "proxying", Delivered(r), UNCHANGED <<operationBinding, sessionBinding>>
      PROVE  SessionsBoundHome' /\ ("unkeyed" \notin Kinds => HomesBound')
  <2>1. req[r].session \in SessionId /\ req[r].goal \in Deployment /\ req[r].kind \in Kinds
    BY <1>0, <1>d DEF RequestShape, RequestType, Aimed
  <2>2. \A s \in SessionId : home'[s] # home[s] =>
           /\ s = req[r].session /\ req[r].kind # "follow"
           /\ home'[s] = home[s] \cup {req[r].goal}
    BY <1>d, <2>1, DeliveredKeeps
  <2>3. ASSUME "unkeyed" \notin Kinds, req[r].kind # "follow"
        PROVE  BoundTo(operationBinding, req[r].session, req[r].goal)
    <3>1. req[r].kind = "keyed"
      BY <2>1, <2>3, GatewayAssumption DEF RequestKinds
    <3> QED BY <1>0, <1>d, <3>1 DEF PinnedRequest, Sent, Aimed
  <2>4. "unkeyed" \notin Kinds => HomesBound'
    BY <1>0, <1>d, <2>2, <2>3 DEF HomesBound
  <2> QED BY <1>d, <1>s, <2>4
<1>1. CASE SessionTouches(r)
  <2>1. req[r].session \in SessionId /\ sessionBinding[req[r].session] # NoBinding
    BY <1>0, <1>1 DEF SessionTouches, RequestShape, PinnedRequest
  <2>2. /\ sessionBinding' = [sessionBinding EXCEPT ![req[r].session].idle = FALSE]
        /\ UNCHANGED <<operationBinding, home>>
    BY <1>1 DEF SessionTouches
  <2>3. /\ sessionBinding'[req[r].session].deployment = sessionBinding[req[r].session].deployment
        /\ \A t \in SessionId : t # req[r].session => sessionBinding'[t] = sessionBinding[t]
    BY <1>0, <2>1, <2>2, TouchTyped
  <2>4. SessionsBoundHome'
    BY <1>0, <2>1, <2>2, <2>3 DEF SessionsBoundHome
  <2> QED BY <1>h, <2>2, <2>4
<1>2. CASE BindSession(r)
  <2>1. /\ req[r].session \in SessionId /\ req[r].goal \in home[req[r].session]
        /\ UNCHANGED <<operationBinding, home>>
        /\ sessionBinding' = [sessionBinding EXCEPT ![req[r].session] =
                                 [deployment |-> req[r].goal, idle |-> FALSE]]
    BY <1>0, <1>2 DEF BindSession, RequestShape, PinnedRequest
  <2>2. SessionsBoundHome'
    BY <1>0, <2>1 DEF SessionsBoundHome
  <2> QED BY <1>h, <2>1, <2>2
<1>3. ASSUME NEW named \in BOOLEAN, ProxyAnswers(r, named)
      PROVE  SessionsBoundHome' /\ ("unkeyed" \notin Kinds => HomesBound')
  BY <1>3, <1>d DEF ProxyAnswers
<1>4. ASSUME NEW delivered \in BOOLEAN, ProxyThrows(r, delivered)
      PROVE  SessionsBoundHome' /\ ("unkeyed" \notin Kinds => HomesBound')
  BY <1>4, <1>d, <1>h, <1>s DEF ProxyThrows
<1>5. ASSUME \/ RouteStore(r) \/ OperationFinds(r) \/ OperationTouches(r) \/ SessionFinds(r)
             \/ ResolveTarget(r) \/ BindOperation(r) \/ ActivationLeases(r)
             \/ ActivationGranted(r) \/ ActivationFails(r) \/ BindSessionThrows(r)
             \/ ResponseEnds(r)
      PROVE  UNCHANGED <<sessionBinding, home>>
  BY <1>5
     DEF RouteStore, OperationFinds, OperationTouches, SessionFinds, Found, ResolveTarget,
         BindOperation, ActivationLeases, ActivationGranted, ActivationFails,
         BindSessionThrows, ResponseEnds, bindingVars
<1> QED BY <1>1, <1>2, <1>3, <1>4, <1>5, <1>h, <1>s DEF RequestStep

LEMMA PinInvNext == TypeInv /\ PinInv /\ [GatewayNext]_gatewayVars => PinInv'
<1> SUFFICES ASSUME TypeInv, PinInv, [GatewayNext]_gatewayVars PROVE PinInv'
  OBVIOUS
<1> USE DEF TypeInv, policyVars, bindingVars, archiveVars, gatewayVars
<1>0. /\ RequestsPinned /\ SessionsBoundHome /\ ("unkeyed" \notin Kinds => HomesBound)
      /\ Rows
  BY DEF PinInv, RequestsPinned, SessionsBoundHome, HomesBound
<1>q. RequestsPinned' /\ SessionsBoundHome' /\ ("unkeyed" \notin Kinds => HomesBound')
        => PinInv'
  BY DEF PinInv, RequestsPinned, SessionsBoundHome, HomesBound
<1>u. ASSUME UNCHANGED bindingVars
      PROVE  SessionsBoundHome' /\ ("unkeyed" \notin Kinds => HomesBound') /\ BindingsKept
  BY <1>0, <1>u, UnchangedBindings DEF SessionsBoundHome, HomesBound, BoundTo
<1>p. ASSUME NEW r \in Request, NEW q \in RequestType, Put(r, q), q.pin = NoDeployment,
             q.at \notin Sent, q.at # "touching", UNCHANGED bindingVars
      PROVE  PinInv'
  BY <1>p, <1>q, <1>u, PutPinned, FreshPinned
<1>k. UNCHANGED req /\ BindingsKept => RequestsPinned'
  BY <1>0, StaysPinned DEF RequestsPinned, Rows, Shape
<1>1. ASSUME NEW r \in Request, NEW kind \in Kinds, NEW s \in SessionId, RouteHit(r, kind, s)
      PROVE  PinInv'
  <2> DEFINE rt == [cache EXCEPT !.revision = 0]
             n == [Arrived(kind, s) EXCEPT !.route = rt,
                     !.at = IF Arrived(kind, s).kind = "unkeyed" THEN "resolving" ELSE "binding"]
  <2>1. Put(r, n) /\ UNCHANGED bindingVars /\ cache \in Route
    BY <1>1 DEF RouteHit, Routed, Put, Rows
  <2>2. rt \in Route
    BY <2>1 DEF Route
  <2> HIDE DEF rt
  <2>3. n \in RequestType /\ n.pin = NoDeployment /\ n.at \in {"resolving", "binding"}
    BY <2>2 DEF Arrived, NoRequest, RequestType, Place
  <2> HIDE DEF n
  <2> QED BY <1>p, <2>1, <2>3 DEF Sent, Aimed
<1>2. ASSUME NEW r \in Request, NEW kind \in Kinds, NEW s \in SessionId,
             RouteLookup(r, kind, s)
      PROVE  PinInv'
  <2> DEFINE n == [Arrived(kind, s) EXCEPT !.route = FindRouteByHostname, !.at = "storing"]
  <2>1. Put(r, n) /\ UNCHANGED bindingVars
    BY <1>2 DEF RouteLookup, Put
  <2>2. FindRouteByHostname \in Route
    BY FoundRouteTyped
  <2>3. n \in RequestType /\ n.pin = NoDeployment /\ n.at = "storing"
    BY <2>2 DEF Arrived, NoRequest, RequestType, Place
  <2> HIDE DEF n
  <2> QED BY <1>p, <2>1, <2>3 DEF Sent, Aimed
<1>3. ASSUME NEW r \in Request, RequestStep(r) PROVE PinInv'
  BY <1>3, <1>q, PinnedStep, HomesStep
<1>4. ASSUME NEW r \in Request, LeaseLapses(r) PROVE PinInv'
  BY <1>4, <1>p, NoRequestTyped DEF LeaseLapses, Ends, Put, Sent, Aimed
<1>5. ASSUME GatewayDies PROVE PinInv'
  <2>1. \A r \in Request : req[r].held => req[r].goal \in Deployment
    BY DEF Shape, RequestShape
  <2>2. \A r \in Request : req'[r] \in {Lease(r, "done"), NoRequest}
    BY <1>5 DEF GatewayDies
  <2>3. \A r \in Request : /\ req'[r] \in RequestType /\ req'[r].at = "done"
                           /\ req'[r].pin = NoDeployment
    BY <2>1, <2>2, LeaseTyped, NoRequestTyped
  <2>4. RequestsPinned'
    BY <2>3, FreshPinned DEF RequestsPinned, Sent, Aimed
  <2> QED BY <1>5, <1>q, <1>u, <2>4 DEF GatewayDies
<1>6. ASSUME NEW s \in SessionId, OperationIdles(s) PROVE PinInv'
  <2>1. operationBinding \in [SessionId -> Binding \cup {NoBinding}]
    BY DEF Rows
  <2>2. /\ operationBinding[s] # NoBinding
        /\ operationBinding' = [operationBinding EXCEPT ![s].idle = TRUE]
        /\ UNCHANGED <<req, sessionBinding, home>>
    BY <1>6 DEF OperationIdles, Idles
  <2>3. /\ operationBinding' \in [SessionId -> Binding \cup {NoBinding}]
        /\ operationBinding'[s] # NoBinding
        /\ operationBinding'[s].deployment = operationBinding[s].deployment
        /\ \A t \in SessionId : t # s => operationBinding'[t] = operationBinding[t]
    BY <2>1, <2>2, TouchTyped
  <2>4. BindingsKept
    BY <2>2, <2>3 DEF BindingsKept, BoundTo, Rows
  <2>5. SessionsBoundHome' /\ ("unkeyed" \notin Kinds => HomesBound')
    BY <1>0, <2>2, <2>3 DEF SessionsBoundHome, HomesBound, BoundTo
  <2> QED BY <1>k, <1>q, <2>2, <2>4, <2>5
<1>7. ASSUME NEW s \in SessionId, SessionIdles(s) PROVE PinInv'
  <2>1. sessionBinding \in [SessionId -> Binding \cup {NoBinding}]
    BY DEF Rows
  <2>2. /\ sessionBinding[s] # NoBinding
        /\ sessionBinding' = [sessionBinding EXCEPT ![s].idle = TRUE]
        /\ UNCHANGED <<req, operationBinding, home>>
    BY <1>7 DEF SessionIdles, Idles
  <2>3. /\ sessionBinding' \in [SessionId -> Binding \cup {NoBinding}]
        /\ sessionBinding'[s] # NoBinding
        /\ sessionBinding'[s].deployment = sessionBinding[s].deployment
        /\ \A t \in SessionId : t # s => sessionBinding'[t] = sessionBinding[t]
    BY <2>1, <2>2, TouchTyped
  <2>4. BindingsKept
    BY <2>2, <2>3 DEF BindingsKept, BoundTo, Rows
  <2>5. SessionsBoundHome' /\ ("unkeyed" \notin Kinds => HomesBound')
    BY <1>0, <2>2, <2>3 DEF SessionsBoundHome, HomesBound, BoundTo
  <2> QED BY <1>k, <1>q, <2>2, <2>4, <2>5
<1>8. ASSUME UNCHANGED <<req, bindingVars>> PROVE PinInv'
  BY <1>8, <1>k, <1>q, <1>u
<1>9. ASSUME CacheExpires \/ (\E arrives \in BOOLEAN : InvalidateCache(arrives))
             \/ (\E targets \in SUBSET Deployment : \E weighted \in SUBSET targets :
                    UpdateRouteTargets(targets, weighted))
             \/ PromotionCommits
      PROVE  PinInv'
  BY <1>8, <1>9 DEF CacheExpires, InvalidateCache, UpdateRouteTargets, PromotionCommits
<1>10. ASSUME NEW d \in Deployment, PromotionReads(d) \/ Stops(d) \/ Drains(d) \/ ArchiveClaims(d)
       PROVE  PinInv'
  BY <1>8, <1>10 DEF PromotionReads, Stops, Drains, ArchiveClaims
<1>11. ASSUME ArchiveStep \/ ArchiveThrows PROVE PinInv'
  BY <1>8, <1>11
     DEF ArchiveStep, ArchiveThrows, RetentionReadsRoutes, RetentionReadsSessions,
         RetentionReadsOperations, RetentionReadsLeases, Retention, ArchiveDecides,
         ArchiveFinishes
<1> QED
  BY <1>1, <1>2, <1>3, <1>4, <1>5, <1>6, <1>7, <1>8, <1>9, <1>10, <1>11 DEF GatewayNext

-----------------------------------------------------------------------------
(***************************************************************************)
(* What an archive may take away                                           *)
(***************************************************************************)
\* Leases are carried on as they are, or taken with what the archive has read by then.
LeasesKept ==
    \A r \in Request : req'[r].held =>
        \/ /\ req[r].held /\ req'[r].goal = req[r].goal /\ req'[r].late = req[r].late
        \/ req'[r].late = Overlooked(req'[r].goal)

LEMMA StepKeepsLeases ==
    ASSUME TypeInv, NEW r \in Request, RequestStep(r) PROVE LeasesKept
<1> USE DEF TypeInv
<1>0. req[r] \in RequestType /\ RequestShape(req[r]) /\ req \in [Request -> RequestType]
  BY DEF Rows, Shape
<1>o. (\A p \in Request : p # r => req'[p] = req[p])
        /\ (req'[r].held => \/ /\ req[r].held /\ req'[r].goal = req[r].goal
                               /\ req'[r].late = req[r].late
                            \/ req'[r].late = Overlooked(req'[r].goal))
      => LeasesKept
  BY DEF LeasesKept
<1>e. Ends(r) => LeasesKept
  BY <1>0, <1>o, NoRequestTyped DEF Ends
<1>p. ASSUME NEW place, Proceeds(r, place) PROVE LeasesKept
  BY <1>0, <1>o, <1>p DEF Proceeds, RequestType
<1>s. ASSUME Streams(r) PROVE LeasesKept
  <2>1. req[r].held => req[r].goal \in Deployment
    BY <1>0 DEF RequestShape
  <2>2. /\ Lease(r, "streaming").goal = req[r].goal /\ Lease(r, "streaming").held = req[r].held
        /\ Lease(r, "streaming").late = req[r].late
    BY <2>1, LeaseTyped
  <2> QED BY <1>0, <1>o, <1>s, <2>2 DEF Streams
<1>1. ASSUME req[r].at \in WithRoute, \A p \in Request : p # r => req'[p] = req[p],
             req'[r].held = req[r].held
      PROVE  LeasesKept
  BY <1>0, <1>o, <1>1 DEF RequestShape, WithRoute
<1>2. ASSUME RouteStore(r) PROVE LeasesKept
  BY <1>0, <1>1, <1>2 DEF RouteStore, Routed, RequestType, WithRoute
<1>3. ASSUME OperationFinds(r) \/ SessionFinds(r) PROVE LeasesKept
  <2>1. CASE \E rows : /\ Found(r, rows) /\ ~ Ends(r)
    BY <1>0, <1>1, <2>1 DEF Found, Proceeds, RequestType, WithRoute
  <2> QED BY <1>3, <1>e, <2>1 DEF OperationFinds, SessionFinds
<1>4. ASSUME OperationTouches(r) \/ SessionTouches(r) PROVE LeasesKept
  BY <1>4, <1>p DEF OperationTouches, SessionTouches
<1>5. ASSUME ResolveTarget(r) PROVE LeasesKept
  <2>1. CASE ~ Ends(r)
    <3>1. PICK d \in Candidates(req[r].route, req[r].pin) :
             \/ req' = [req EXCEPT ![r].goal = d, ![r].at = "claiming"]
             \/ Activating(r, [req[r] EXCEPT !.goal = d])
      BY <1>5, <2>1 DEF ResolveTarget
    <3>2. req[r].at \in WithRoute
      BY <1>5 DEF ResolveTarget, WithRoute
    <3>3. CASE req' = [req EXCEPT ![r].goal = d, ![r].at = "claiming"]
      BY <1>0, <1>1, <3>2, <3>3 DEF RequestType
    <3>4. CASE Activating(r, [req[r] EXCEPT !.goal = d])
      BY <1>0, <1>1, <3>2, <3>4 DEF Activating, RequestType
    <3> QED BY <3>1, <3>3, <3>4
  <2> QED BY <1>e, <2>1
<1>6. ASSUME BindOperation(r) PROVE LeasesKept
  <2> DEFINE c == operationBinding'[req[r].session].deployment
  <2>1. /\ req[r].at \in WithRoute
        /\ \/ Activating(r, [req[r] EXCEPT !.pin = c])
           \/ req' = [req EXCEPT ![r].pin = c, ![r].at = "resolving"]
    BY <1>6 DEF BindOperation, WithRoute
  <2> HIDE DEF c
  <2>2. CASE req' = [req EXCEPT ![r].pin = c, ![r].at = "resolving"]
    BY <1>0, <1>1, <2>1, <2>2 DEF RequestType
  <2>3. CASE Activating(r, [req[r] EXCEPT !.pin = c])
    BY <1>0, <1>1, <2>1, <2>3 DEF Activating, RequestType
  <2> QED BY <2>1, <2>2, <2>3
<1>7. ASSUME ActivationLeases(r) PROVE LeasesKept
  <2>1. /\ req'[r].goal = req[r].goal /\ req'[r].late = Overlooked(req[r].goal)
        /\ \A p \in Request : p # r => req'[p] = req[p]
    BY <1>0, <1>7 DEF ActivationLeases, RequestType
  <2> QED BY <1>o, <2>1
<1>8. ASSUME ActivationGranted(r) PROVE LeasesKept
  BY <1>8, <1>p DEF ActivationGranted
<1>9. ASSUME ActivationFails(r) \/ BindSessionThrows(r) \/ ResponseEnds(r) PROVE LeasesKept
  BY <1>9, <1>e DEF ActivationFails, BindSessionThrows, ResponseEnds
<1>10. ASSUME NEW named \in BOOLEAN, ProxyAnswers(r, named) PROVE LeasesKept
  BY <1>10, <1>s, <1>p DEF ProxyAnswers
<1>11. ASSUME NEW delivered \in BOOLEAN, ProxyThrows(r, delivered) PROVE LeasesKept
  BY <1>11, <1>e DEF ProxyThrows
<1>12. ASSUME BindSession(r) PROVE LeasesKept
  BY <1>12, <1>s DEF BindSession
<1> QED
  BY <1>2, <1>3, <1>4, <1>5, <1>6, <1>7, <1>8, <1>9, <1>10, <1>11, <1>12 DEF RequestStep

\* Nothing is overlooked that was not before.
OverlooksLess == \A d \in Deployment : Overlooked(d)' => Overlooked(d)

LEMMA KeptLeases ==
    ASSUME TypeInv, TypeInv', GrantedIsKept, LeasesKept, OverlooksLess PROVE GrantedIsKept'
<1> SUFFICES ASSUME NEW r \in Request, req'[r].held, ~ req'[r].late
             PROVE  ~ Overlooked(req[r].goal)'
  BY DEF GrantedIsKept
<1>1. req'[r].goal \in Deployment
  BY DEF TypeInv, Shape, RequestShape
<1>2. ~ Overlooked(req'[r].goal)
  BY DEF LeasesKept, GrantedIsKept
<1>3. ~ Overlooked(req'[r].goal) => ~ (status'[req'[r].goal] = "archived") /\ ~
          (archive'.deployment = req'[r].goal /\ archive'.at \in {"decide", "removing"}
           /\ ~ archive'.protected)
  BY <1>1 DEF OverlooksLess, Overlooked
<1> QED BY <1>2, <1>3 DEF Overlooked

LEMMA GrantedNext ==
    TypeInv /\ TypeInv' /\ GrantedIsKept /\ [GatewayNext]_gatewayVars => GrantedIsKept'
<1> SUFFICES ASSUME TypeInv, TypeInv', GrantedIsKept, [GatewayNext]_gatewayVars
             PROVE  GrantedIsKept'
  OBVIOUS
<1> USE DEF policyVars, bindingVars, archiveVars, gatewayVars
<1>0. /\ Rows /\ Shape /\ ArchiveShape /\ req \in [Request -> RequestType]
      /\ status \in [Deployment -> Status]
  BY DEF TypeInv, Rows
<1>k. UNCHANGED req => LeasesKept
  BY DEF LeasesKept
<1>n. UNCHANGED <<status, archive>> => OverlooksLess
  BY DEF OverlooksLess, Overlooked
<1>o. ASSUME UNCHANGED archive,
             \A d \in Deployment : status'[d] # status[d] => status'[d] # "archived"
      PROVE  OverlooksLess
  BY <1>o DEF OverlooksLess, Overlooked
<1>1. ASSUME NEW r \in Request, NEW kind \in Kinds, NEW s \in SessionId,
             RouteHit(r, kind, s) \/ RouteLookup(r, kind, s)
      PROVE  GrantedIsKept'
  <2>1. \A p \in Request : p # r => req'[p] = req[p]
    BY <1>0, <1>1 DEF RouteHit, RouteLookup, Routed
  <2>2. ~ req'[r].held
    <3>1. Arrived(kind, s) \in RequestType /\ ~ Arrived(kind, s).held
      BY ArrivedTyped
    <3>2. CASE RouteHit(r, kind, s)
      BY <1>0, <3>1, <3>2 DEF RouteHit, Routed, RequestType
    <3>3. CASE RouteLookup(r, kind, s)
      BY <1>0, <3>1, <3>3 DEF RouteLookup, RequestType
    <3> QED BY <1>1, <3>2, <3>3
  <2>3. LeasesKept
    BY <2>1, <2>2 DEF LeasesKept
  <2> QED BY <1>1, <1>n, <2>3, KeptLeases DEF RouteHit, RouteLookup
<1>2. ASSUME NEW r \in Request, RequestStep(r) PROVE GrantedIsKept'
  <2>1. OverlooksLess
    <3>1. /\ UNCHANGED archive
          /\ \A d \in Deployment : status'[d] # status[d] => status'[d] = "running"
      BY <1>2, RequestStepKeeps
    <3> QED BY <1>o, <3>1
  <2> QED BY <1>2, <2>1, StepKeepsLeases, KeptLeases
<1>3. ASSUME NEW r \in Request, LeaseLapses(r) PROVE GrantedIsKept'
  <2>1. LeasesKept
    BY <1>0, <1>3, NoRequestTyped DEF LeaseLapses, Ends, LeasesKept
  <2> QED BY <1>3, <1>n, <2>1, KeptLeases DEF LeaseLapses
<1>4. ASSUME GatewayDies PROVE GrantedIsKept'
  <2>1. \A r \in Request : req[r].held => req[r].goal \in Deployment
    BY <1>0 DEF Shape, RequestShape
  <2>2. \A r \in Request : req'[r] = IF req[r].held THEN Lease(r, "done") ELSE NoRequest
    BY <1>4 DEF GatewayDies
  <2>3. \A r \in Request : req'[r].held =>
           req[r].held /\ req'[r].goal = req[r].goal /\ req'[r].late = req[r].late
    BY <1>0, <2>1, <2>2, LeaseTyped, NoRequestTyped
  <2>4. LeasesKept
    BY <2>3 DEF LeasesKept
  <2> QED BY <1>4, <1>n, <2>4, KeptLeases DEF GatewayDies
<1>5. ASSUME \/ CacheExpires \/ (\E arrives \in BOOLEAN : InvalidateCache(arrives))
             \/ (\E s \in SessionId : OperationIdles(s) \/ SessionIdles(s))
             \/ (\E targets \in SUBSET Deployment : \E weighted \in SUBSET targets :
                    UpdateRouteTargets(targets, weighted))
             \/ PromotionCommits \/ (\E d \in Deployment : PromotionReads(d))
             \/ UNCHANGED gatewayVars
      PROVE  GrantedIsKept'
  <2>1. UNCHANGED <<req, status, archive>>
    BY <1>5 DEF CacheExpires, InvalidateCache, OperationIdles, SessionIdles,
                UpdateRouteTargets, PromotionCommits, PromotionReads
  <2> QED BY <1>k, <1>n, <2>1, KeptLeases
<1>6. ASSUME NEW d \in Deployment, Stops(d) \/ Drains(d) PROVE GrantedIsKept'
  <2>1. UNCHANGED <<req, archive>>
    BY <1>6 DEF Stops, Drains
  <2>2. \A e \in Deployment : status'[e] # status[e] => status'[e] # "archived"
    BY <1>0, <1>6 DEF Stops, Drains
  <2> QED BY <1>k, <1>o, <2>1, <2>2, KeptLeases
<1>7. ASSUME NEW d \in Deployment, ArchiveClaims(d) PROVE GrantedIsKept'
  <2>1. OverlooksLess
    BY <1>0, <1>7 DEF ArchiveClaims, OverlooksLess, Overlooked
  <2> QED BY <1>7, <1>k, <2>1, KeptLeases DEF ArchiveClaims
<1>8. ASSUME RetentionReadsRoutes \/ RetentionReadsSessions \/ RetentionReadsOperations
      PROVE  GrantedIsKept'
  <2>1. /\ archive'.at \in {"sessions", "operations", "leases"}
        /\ archive \in ArchiveType /\ UNCHANGED <<req, status>>
    BY <1>0, <1>8 DEF RetentionReadsRoutes, RetentionReadsSessions, RetentionReadsOperations,
                Retention, Rows, ArchiveType
  <2>2. OverlooksLess
    BY <2>1 DEF OverlooksLess, Overlooked
  <2> QED BY <1>k, <2>1, <2>2, KeptLeases
<1>9. ASSUME RetentionReadsLeases PROVE GrantedIsKept'
  <2>1. /\ archive'.deployment = archive.deployment /\ UNCHANGED <<req, status>>
        /\ Held(archive.deployment) # {} => archive'.protected
    BY <1>0, <1>9 DEF RetentionReadsLeases, Retention, Rows, ArchiveType
  <2> SUFFICES ASSUME NEW r \in Request, req[r].held, ~ req[r].late
               PROVE  ~ Overlooked(req[r].goal)'
    BY <2>1 DEF GrantedIsKept
  <2>2. status[req[r].goal] # "archived"
    BY DEF GrantedIsKept, Overlooked
  <2>3. archive.deployment = req[r].goal => archive'.protected
    BY <2>1 DEF Held
  <2> QED BY <2>1, <2>2, <2>3 DEF Overlooked
<1>10. ASSUME ArchiveDecides PROVE GrantedIsKept'
  <2>1. archive.at = "decide" /\ UNCHANGED req /\ archive \in ArchiveType
    BY <1>0, <1>10 DEF ArchiveDecides, Rows
  <2>2. CASE archive.protected
    <3>1. archive.deployment \in Deployment /\ archive.prior # "archived"
      BY <1>0, <2>1 DEF ArchiveShape, ArchiveType
    <3>2. /\ archive' = NoArchive
          /\ status' = [status EXCEPT ![archive.deployment] = archive.prior]
      BY <1>10, <2>2 DEF ArchiveDecides
    <3>3. OverlooksLess
      BY <1>0, <3>1, <3>2 DEF OverlooksLess, Overlooked, NoArchive
    <3> QED BY <1>k, <2>1, <3>3, KeptLeases
  <2>3. CASE ~ archive.protected
    <3>1. archive' = [archive EXCEPT !.at = "removing"] /\ UNCHANGED status
      BY <1>10, <2>3 DEF ArchiveDecides
    <3>2. OverlooksLess
      BY <2>1, <2>3, <3>1 DEF OverlooksLess, Overlooked, ArchiveType
    <3> QED BY <1>k, <2>1, <3>2, KeptLeases
  <2> QED BY <2>2, <2>3
<1>11. ASSUME ArchiveFinishes PROVE GrantedIsKept'
  <2>1. /\ archive.at = "removing" /\ ~ archive.protected /\ archive.deployment \in Deployment
        /\ status' = [status EXCEPT ![archive.deployment] = "archived"]
        /\ archive' = NoArchive /\ UNCHANGED req
    BY <1>0, <1>11 DEF ArchiveFinishes, ArchiveShape
  <2>2. OverlooksLess
    BY <1>0, <2>1 DEF OverlooksLess, Overlooked, NoArchive
  <2> QED BY <1>k, <2>1, <2>2, KeptLeases
<1>12. ASSUME ArchiveThrows PROVE GrantedIsKept'
  <2>1. archive.at # "idle" /\ archive \in ArchiveType
    BY <1>0, <1>12 DEF ArchiveThrows, ArchiveShape, Rows
  <2>2. archive.deployment \in Deployment /\ archive.prior # "archived"
    BY <1>0, <2>1 DEF ArchiveShape, ArchiveType
  <2>3. /\ archive' = NoArchive /\ UNCHANGED req
        /\ status' = [status EXCEPT ![archive.deployment] = archive.prior]
    BY <1>12 DEF ArchiveThrows
  <2>4. OverlooksLess
    BY <1>0, <2>2, <2>3 DEF OverlooksLess, Overlooked, NoArchive
  <2> QED BY <1>k, <2>3, <2>4, KeptLeases
<1> QED
  BY <1>1, <1>2, <1>3, <1>4, <1>5, <1>6, <1>7, <1>8, <1>9, <1>10, <1>11, <1>12
     DEF GatewayNext, ArchiveStep

\* The policy, the promotion and the archive rest; no Deployment becomes retired.
LEMMA TargetsRest ==
    ASSUME Rows, TargetInv, UNCHANGED <<policy, promotion, archive, overtaken>>,
           \A d \in Deployment : Retired(d)' => status'[d] = status[d]
    PROVE  TargetInv'
<1>1. policy.weighted \subseteq Deployment
  BY DEF Rows
<1>2. TargetsAlive'
  BY <1>1 DEF TargetInv, TargetsAlive, Retired
<1> QED BY <1>2 DEF TargetInv, RoutesRead, Retired

\* The archive gives up its claim with the Deployment in some status.
LEMMA ClaimEnds ==
    ASSUME Rows, ArchiveShape, TargetInv, archive.at # "idle", NEW end \in Status,
           status' = [status EXCEPT ![archive.deployment] = end], archive' = NoArchive,
           UNCHANGED <<policy, promotion, overtaken>>,
           end = "archived" => RoutesRead, end # "archiving"
    PROVE  TargetInv'
<1>1. archive.deployment \in Deployment /\ Retired(archive.deployment)
  BY DEF ArchiveShape, Retired
<1>2. \A d \in Deployment : Retired(d)' => Retired(d)
  BY <1>1 DEF Retired, Rows
<1>3. TargetsAlive'
  <2> SUFFICES ASSUME NEW d \in policy.weighted, status'[d] = "archived" PROVE d \in overtaken
    BY DEF TargetsAlive
  <2>1. d \in Deployment
    BY DEF Rows
  <2>2. CASE d = archive.deployment
    BY <1>1, <2>2 DEF TargetInv, Rows
  <2>3. CASE d # archive.deployment
    BY <2>1, <2>3 DEF TargetInv, TargetsAlive, Rows
  <2> QED BY <2>2, <2>3
<1>4. ~ RoutesRead'
  BY DEF RoutesRead, NoArchive
<1>5. promotion \in Deployment /\ Retired(promotion)' => promotion \in overtaken
  BY <1>2 DEF TargetInv
<1> QED BY <1>3, <1>4, <1>5 DEF TargetInv, Retired

LEMMA TargetNext == TypeInv /\ TargetInv /\ [GatewayNext]_gatewayVars => TargetInv'
<1> SUFFICES ASSUME TypeInv, TargetInv, [GatewayNext]_gatewayVars PROVE TargetInv'
  OBVIOUS
<1> USE DEF policyVars, bindingVars, archiveVars, gatewayVars
<1>0. /\ Rows /\ ArchiveShape /\ status \in [Deployment -> Status]
      /\ policy.weighted \subseteq policy.targets /\ policy.targets \subseteq Deployment
      /\ archive \in ArchiveType
  BY DEF TypeInv, Rows
<1>u. ASSUME UNCHANGED <<status, policy, promotion, archive, overtaken>> PROVE TargetInv'
  BY <1>0, <1>u, TargetsRest DEF Retired
<1>1. ASSUME NEW r \in Request, RequestStep(r) PROVE TargetInv'
  <2>1. /\ UNCHANGED <<policy, promotion, archive, overtaken>>
        /\ \A d \in Deployment : status'[d] # status[d] => status'[d] = "running"
    BY <1>1, RequestStepKeeps
  <2> QED BY <1>0, <2>1, TargetsRest DEF Retired
<1>2. ASSUME NEW r \in Request, NEW kind \in Kinds, NEW s \in SessionId,
             RouteHit(r, kind, s) \/ RouteLookup(r, kind, s)
      PROVE  TargetInv'
  BY <1>2, <1>u DEF RouteHit, RouteLookup
<1>3. ASSUME \/ CacheExpires \/ (\E arrives \in BOOLEAN : InvalidateCache(arrives))
             \/ (\E s \in SessionId : OperationIdles(s) \/ SessionIdles(s))
             \/ GatewayDies \/ (\E r \in Request : LeaseLapses(r))
             \/ UNCHANGED gatewayVars
      PROVE  TargetInv'
  BY <1>3, <1>u DEF CacheExpires, InvalidateCache, OperationIdles, SessionIdles,
                    GatewayDies, LeaseLapses
<1>4. ASSUME NEW targets \in SUBSET Deployment, NEW weighted \in SUBSET targets,
             UpdateRouteTargets(targets, weighted)
      PROVE  TargetInv'
  <2>1. /\ policy'.weighted = weighted /\ UNCHANGED <<status, promotion, archive, overtaken>>
        /\ \A d \in weighted : status[d] = "running"
    BY <1>4 DEF UpdateRouteTargets, NewPolicy
  <2>2. TargetsAlive'
    BY <2>1 DEF TargetsAlive
  <2>3. RoutesRead => archive.deployment \notin weighted
    BY <1>0, <2>1 DEF ArchiveShape, RoutesRead
  <2> QED BY <2>1, <2>2, <2>3 DEF TargetInv, RoutesRead, Retired
<1>5. ASSUME NEW d \in Deployment, PromotionReads(d) PROVE TargetInv'
  <2>1. promotion' = d /\ status[d] = "running" /\ UNCHANGED <<status, policy, archive, overtaken>>
    BY <1>5 DEF PromotionReads
  <2> QED BY <2>1 DEF TargetInv, TargetsAlive, RoutesRead, Retired
<1>6. ASSUME PromotionCommits PROVE TargetInv'
  <2>1. /\ promotion \in Deployment /\ policy'.weighted = {promotion}
        /\ promotion' = NoDeployment /\ UNCHANGED <<status, archive, overtaken>>
    BY <1>0, <1>6 DEF PromotionCommits, NewPolicy, Rows
  <2>2. TargetsAlive'
    BY <2>1 DEF TargetInv, TargetsAlive, Retired
  <2>3. RoutesRead => Retired(archive.deployment)
    BY <1>0 DEF ArchiveShape, RoutesRead, Retired
  <2>4. promotion' \notin Deployment
    BY <2>1, GatewayAssumption
  <2> QED BY <2>1, <2>2, <2>3, <2>4 DEF TargetInv, RoutesRead
<1>7. ASSUME NEW d \in Deployment, Stops(d) \/ Drains(d) PROVE TargetInv'
  <2>1. /\ UNCHANGED <<policy, promotion, archive, overtaken>>
        /\ \A e \in Deployment : status'[e] # status[e] => status'[e] \in {"stopped", "draining"}
    BY <1>0, <1>7 DEF Stops, Drains
  <2> QED BY <1>0, <2>1, TargetsRest DEF Retired
<1>8. ASSUME NEW d \in Deployment, ArchiveClaims(d) PROVE TargetInv'
  <2>1. /\ archive'.at = "routes" /\ status' = [status EXCEPT ![d] = "archiving"]
        /\ overtaken \subseteq overtaken' /\ (promotion = d => d \in overtaken')
        /\ UNCHANGED <<policy, promotion>>
    BY <1>8 DEF ArchiveClaims
  <2>2. TargetsAlive'
    BY <1>0, <2>1 DEF TargetInv, TargetsAlive
  <2>3. promotion \in Deployment /\ Retired(promotion)' => promotion \in overtaken'
    BY <1>0, <2>1 DEF TargetInv, Retired
  <2> QED BY <2>1, <2>2, <2>3 DEF TargetInv, RoutesRead, Retired
<1>9. ASSUME RetentionReadsRoutes PROVE TargetInv'
  <2>1. /\ archive'.deployment = archive.deployment
        /\ archive.deployment \in policy.targets => archive'.protected
        /\ UNCHANGED <<status, policy, promotion, overtaken>>
    BY <1>0, <1>9 DEF RetentionReadsRoutes, Retention, ArchiveType
  <2>2. RoutesRead' => archive'.deployment \notin policy.weighted
    BY <1>0, <2>1 DEF RoutesRead
  <2> QED BY <2>1, <2>2 DEF TargetInv, TargetsAlive, Retired
<1>10. ASSUME RetentionReadsSessions \/ RetentionReadsOperations \/ RetentionReadsLeases
       PROVE  TargetInv'
  <2>1. /\ archive'.deployment = archive.deployment
        /\ archive.at \in {"sessions", "operations", "leases"}
        /\ archive.protected => archive'.protected
        /\ UNCHANGED <<status, policy, promotion, overtaken>>
    BY <1>0, <1>10 DEF RetentionReadsSessions, RetentionReadsOperations, RetentionReadsLeases,
                       Retention, ArchiveType
  <2>2. RoutesRead' => RoutesRead
    BY <2>1 DEF RoutesRead
  <2> QED BY <2>1, <2>2 DEF TargetInv, TargetsAlive, Retired
<1>p. archive.at # "idle" => archive.prior \in {"running", "draining", "stopped"}
  BY <1>0 DEF ArchiveShape, ArchiveType
<1>11. ASSUME ArchiveDecides PROVE TargetInv'
  <2>1. CASE archive.protected
    BY <1>0, <1>11, <1>p, <2>1, ClaimEnds DEF ArchiveDecides, Status
  <2>2. CASE ~ archive.protected
    <3>1. /\ archive.at = "decide" /\ archive' = [archive EXCEPT !.at = "removing"]
          /\ UNCHANGED <<status, policy, promotion, overtaken>>
      BY <1>11, <2>2 DEF ArchiveDecides
    <3>2. RoutesRead /\ archive'.deployment = archive.deployment
      BY <1>0, <2>2, <3>1 DEF RoutesRead, ArchiveType
    <3> QED BY <3>1, <3>2 DEF TargetInv, TargetsAlive, Retired
  <2> QED BY <2>1, <2>2
<1>12. ASSUME ArchiveFinishes PROVE TargetInv'
  <2>1. archive.at = "removing" /\ RoutesRead
    BY <1>0, <1>12 DEF ArchiveFinishes, ArchiveShape, RoutesRead
  <2> QED BY <1>0, <1>12, <2>1, ClaimEnds DEF ArchiveFinishes, Status
<1>13. ASSUME ArchiveThrows PROVE TargetInv'
  <2>1. archive.at # "idle"
    BY <1>0, <1>13 DEF ArchiveThrows, ArchiveShape
  <2> QED BY <1>0, <1>13, <1>p, <2>1, ClaimEnds DEF ArchiveThrows, Status
<1> QED
  BY <1>1, <1>2, <1>3, <1>4, <1>5, <1>6, <1>7, <1>8, <1>9, <1>10, <1>11, <1>12, <1>13
     DEF GatewayNext, ArchiveStep

-----------------------------------------------------------------------------
(***************************************************************************)
(* Theorems                                                                *)
(***************************************************************************)
LEMMA GatewayInvInit == GatewayInit => GatewayInv
<1> SUFFICES ASSUME GatewayInit PROVE GatewayInv
  OBVIOUS
<1>1. TypeInv
  BY TypeInvInit
<1>2. PinInv
  <2>1. \A r \in Request : PinnedRequest(req[r], operationBinding, sessionBinding, home)
    BY NoRequestTyped, FreshPinned DEF GatewayInit, Sent, Aimed
  <2> QED BY <2>1 DEF GatewayInit, PinInv
<1>3. GrantedIsKept
  BY NoRequestTyped DEF GatewayInit, GrantedIsKept
<1>4. TargetInv
  <2>1. \A d \in Deployment : status[d] = "running"
    BY DEF GatewayInit
  <2>2. policy.weighted \subseteq Deployment /\ archive = NoArchive /\ promotion = NoDeployment
    BY DEF GatewayInit
  <2> QED BY <2>1, <2>2 DEF TargetInv, TargetsAlive, RoutesRead, NoArchive, Retired
<1> QED BY <1>1, <1>2, <1>3, <1>4 DEF GatewayInv

LEMMA GatewayInvNext == GatewayInv /\ [GatewayNext]_gatewayVars => GatewayInv'
BY TypeInvNext, PinInvNext, GrantedNext, TargetNext DEF GatewayInv

\* The inductive invariant of the Gateway: types, bindings, leases and targets.
THEOREM GatewayInvariant == GatewaySpec => []GatewayInv
BY GatewayInvInit, GatewayInvNext, PTL DEF GatewaySpec

\* Rows and requests keep their types.
THEOREM GatewayTypeCorrect == GatewaySpec => []GatewayTypeOK
<1>1. GatewayInv => GatewayTypeOK
  BY DEF GatewayInv, TypeInv, Rows, Shape, RequestShape, RequestType, ArchiveType, GatewayTypeOK,
         Status
<1> QED BY <1>1, GatewayInvariant, PTL

\* Create-once: as long as every create carries an operationId, one Deployment is asked to
\* create a Session, for any policy changes, crashes, archives and retries.
THEOREM CreateOnce ==
    ASSUME "unkeyed" \notin Kinds
    PROVE  GatewaySpec => []OneDeploymentPerOperation
<1>1. GatewayInv => OneDeploymentPerOperation
  <2> SUFFICES ASSUME GatewayInv, NEW s \in SessionId PROVE Cardinality(home[s]) <= 1
    BY DEF OneDeploymentPerOperation
  <2>1. \A d, e \in home[s] : d = e
    BY DEF GatewayInv, PinInv, BoundTo
  <2>2. home[s] = {} \/ \E d : home[s] = {d}
    BY <2>1
  <2>3. CASE home[s] = {}
    <3>1. Cardinality(home[s]) = 0
      BY <2>3, FS_EmptySet
    <3> QED BY <3>1
  <2>4. ASSUME NEW d, home[s] = {d} PROVE Cardinality(home[s]) <= 1
    <3>1. Cardinality({d}) = 1
      BY FS_Singleton
    <3> QED BY <2>4, <3>1
  <2> QED BY <2>2, <2>3, <2>4
<1> QED BY <1>1, GatewayInvariant, PTL

\* No migration: a bound Session is at home where its binding says, and requests that
\* found a binding are proxied there and nowhere else.
THEOREM SessionsStayPinned == GatewaySpec => []SessionStaysPinned
<1>1. GatewayInv => SessionStaysPinned
  BY DEF GatewayInv, PinInv, PinnedRequest, SessionStaysPinned, Sent, Aimed
<1> QED BY <1>1, GatewayInvariant, PTL

\* A lease that was there when the archive read the leases keeps its Deployment.
THEOREM GrantsKept == GatewaySpec => []GrantedIsKept
<1>1. GatewayInv => GrantedIsKept
  BY DEF GatewayInv
<1> QED BY <1>1, GatewayInvariant, PTL

\* The policy weighs no archived Deployment but one a promotion had already found.
THEOREM TargetsStayAlive == GatewaySpec => []TargetsAlive
<1>1. GatewayInv => TargetsAlive
  BY DEF GatewayInv, TargetInv
<1> QED BY <1>1, GatewayInvariant, PTL
=============================================================================
