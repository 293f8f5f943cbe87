------------------------------- MODULE Gateway ------------------------------
(***************************************************************************)
(* One hostname of the Agent Gateway: its route cache, the requests it     *)
(* proxies, the durable bindings that pin operations and Sessions to a     *)
(* Deployment, the routing policy the API changes, and the archive job     *)
(* that removes Deployments nothing is pinned to.                          *)
(*                                                                         *)
(* An action is the code between two awaits.  Times are abstracted to      *)
(* whether they have passed: a cache entry's TTL, a binding's idle TTL.    *)
(* Starting and stopping a Deployment's process is RuntimeActivation's     *)
(* business; here a granted lease has a running process.                   *)
(***************************************************************************)
EXTENDS Naturals, FiniteSets

CONSTANTS
    Deployment,
    Request,        \* requests in flight together
    Kinds,          \* what requests may be, see below
    SessionId,        \* Eve Sessions; a keyed create always names the same one
    NoDeployment, NoRoute, NoBinding, NoSessionId,
    MaxEvents       \* bound: what happens around the requests: changes of the policy
                    \* or a status, idle TTLs, archive jobs, crashes of the Gateway

\* A create with an operationId, one without, and a request that names a Session.
RequestKinds == {"keyed", "unkeyed", "follow"}

\* A row of operationBindings or sessionBindings.
Binding == [deployment : Deployment, idle : BOOLEAN]

ASSUME GatewayAssumption ==
    /\ Kinds \subseteq RequestKinds
    /\ NoDeployment \notin Deployment
    /\ NoBinding \notin Binding
    /\ MaxEvents \in Nat

VARIABLES
    status,             \* deployments.status
    policy,             \* agentRoutes.policyRevision with its routeTargets
    promotion,          \* the Deployment an open promotion has found running
    notify,             \* an invalidation is on its way to the Gateway
    cache,              \* the route that routeCache.read returns for the hostname
    req,                \* the requests in flight
    operationBinding,   \* operationBindings, by operation key
    sessionBinding,     \* sessionBindings, by Eve session id
    home,               \* history: Deployments that were asked to create the Session
    archive,            \* the archive job's handler
    overtaken,          \* history: claimed for archive while a promotion was open
    events

bindingVars == <<operationBinding, sessionBinding, home>>
policyVars == <<policy, promotion, notify>>
archiveVars == <<archive, overtaken>>
gatewayVars == <<status, policyVars, cache, req, bindingVars, archiveVars, events>>

\* at: where it is; route: what it resolved; pin: its binding's Deployment;
\* goal: target.deploymentId; held: it holds an activation lease; late: history, an
\* archive of its goal did not see the lease.
NoRequest == [at |-> "done", kind |-> "none", session |-> NoSessionId, route |-> NoRoute,
              pin |-> NoDeployment, goal |-> NoDeployment, held |-> FALSE, late |-> FALSE]

Held(d) == {r \in Request : req[r].held /\ req[r].goal = d}
Event == events < MaxEvents /\ events' = events + 1
Proceeds(r, place) == req' = [req EXCEPT ![r].at = place]
Ends(r) == req' = [req EXCEPT ![r] = NoRequest]

\* What is left of a request that has been answered: its lease.
Lease(r, place) ==
    [NoRequest EXCEPT !.at = place, !.goal = req[r].goal, !.held = req[r].held,
                      !.late = req[r].late]
Streams(r) == req' = [req EXCEPT ![r] = Lease(r, "streaming")]

\* A free slot takes a request.
Arrived(kind, s) == [NoRequest EXCEPT !.kind = kind, !.session = s]

-----------------------------------------------------------------------------
(***************************************************************************)
(* The route cache                                                         *)
(***************************************************************************)
\* findRouteByHostname: the policy with its targets' statuses.
FindRouteByHostname ==
    [revision |-> policy.revision, weighted |-> policy.weighted,
     targets |-> [d \in policy.targets |-> status[d]]]

\* To the request the revision is only salt for its affinity hash.  A create without
\* an operationId has no binding to look up.
Routed(r, request, found) ==
    req' = [req EXCEPT ![r] =
               [request EXCEPT !.route = [found EXCEPT !.revision = 0],
                               !.at = IF request.kind = "unkeyed" THEN "resolving" ELSE "binding"]]

RouteHit(r, kind, s) ==
    /\ req[r] = NoRequest
    /\ cache # NoRoute
    /\ Routed(r, Arrived(kind, s), cache)
    /\ UNCHANGED <<status, policyVars, cache, bindingVars, archiveVars, events>>

\* A miss looks the route up ...
RouteLookup(r, kind, s) ==
    /\ req[r] = NoRequest
    /\ cache = NoRoute
    /\ req' = [req EXCEPT ![r] = [Arrived(kind, s) EXCEPT !.route = FindRouteByHostname,
                                                             !.at = "storing"]]
    /\ UNCHANGED <<status, policyVars, cache, bindingVars, archiveVars, events>>

\* ... and stores what it found, even after an invalidation.
RouteStore(r) ==
    /\ req[r].at = "storing"
    /\ cache' = req[r].route
    /\ Routed(r, req[r], req[r].route)
    /\ UNCHANGED <<status, policyVars, bindingVars, archiveVars, events>>

\* read: an entry past its TTL is a miss.
CacheExpires_stillServed == cache # NoRoute /\ UNCHANGED gatewayVars

CacheExpires ==
    /\ cache # NoRoute
    /\ cache' = NoRoute
    /\ UNCHANGED <<status, policyVars, req, bindingVars, archiveVars, events>>

\* POST /internal/cache/invalidate, sent once after a change; it may not arrive.
InvalidateCache(arrives) ==
    /\ notify
    /\ notify' = FALSE
    /\ cache' = IF arrives THEN NoRoute ELSE cache
    /\ UNCHANGED <<status, policy, promotion, req, bindingVars, archiveVars, events>>

-----------------------------------------------------------------------------
(***************************************************************************)
(* A request                                                               *)
(***************************************************************************)
\* A binding's find and idle check: an active one is touched next, an expired one
\* ends the request with 410.
Found(r, rows) ==
    LET b == rows[req[r].session]
    IN  /\ req[r].at = "binding"
        /\ IF b = NoBinding THEN Proceeds(r, "resolving")
           ELSE IF b.idle THEN Ends(r)
           ELSE req' = [req EXCEPT ![r].pin = b.deployment, ![r].at = "touching"]
        /\ UNCHANGED <<status, policyVars, cache, bindingVars, archiveVars, events>>

\* resolveGatewayOperationBinding
OperationFinds(r) == req[r].kind = "keyed" /\ Found(r, operationBinding)

OperationTouches(r) ==
    /\ req[r].at = "touching" /\ req[r].kind = "keyed"
    /\ operationBinding' = [operationBinding EXCEPT ![req[r].session].idle = FALSE]
    /\ Proceeds(r, "resolving")
    /\ UNCHANGED <<status, policyVars, cache, sessionBinding, home, archiveVars, events>>

\* resolveGatewaySessionBinding
SessionFinds(r) == req[r].kind = "follow" /\ Found(r, sessionBinding)

SessionTouches(r) ==
    /\ req[r].at = "touching" /\ req[r].kind = "follow"
    /\ sessionBinding' = [sessionBinding EXCEPT ![req[r].session].idle = FALSE]
    /\ Proceeds(r, "resolving")
    /\ UNCHANGED <<status, policyVars, cache, operationBinding, home, archiveVars, events>>

\* resolveTarget.  Pinned: the bound Deployment, by the route's word or, failing
\* that, the row's.  Unpinned: the weighted choice, or the survivor of a pair.
Serves(s) == s \in {"running", "draining", "stopped"}
RoutedOrAlive(targets, d) == (d \in DOMAIN targets /\ Serves(targets[d])) \/ Serves(status[d])
Eligible(targets) == {d \in DOMAIN targets : targets[d] \in {"running", "stopped"}}

Candidates_survivor(route, pin) ==
    IF pin # NoDeployment /\ pin \in DOMAIN route.targets THEN {pin}
    ELSE Eligible(route.targets)

Candidates(route, pin) ==
    IF pin # NoDeployment THEN {d \in {pin} : RoutedOrAlive(route.targets, d)}
    ELSE IF Eligible(route.targets) = DOMAIN route.targets THEN route.weighted
    ELSE Eligible(route.targets)

\* The route is not looked at any more.
Activating(r, with) ==
    req' = [req EXCEPT ![r] = [with EXCEPT !.route = NoRoute, !.at = "activating"]]

ResolveTarget(r) ==
    LET found == Candidates(req[r].route, req[r].pin)
        claims == req[r].kind = "keyed" /\ req[r].pin = NoDeployment
    IN  /\ req[r].at = "resolving"
        /\ \/ found = {} /\ Ends(r)
           \/ \E d \in found :
                 IF claims THEN req' = [req EXCEPT ![r].goal = d, ![r].at = "claiming"]
                 ELSE Activating(r, [req[r] EXCEPT !.goal = d])
        /\ UNCHANGED <<status, policyVars, cache, bindingVars, archiveVars, events>>

\* bindOperation: the first writer wins; a loser resolves the winner's Deployment.
BindOperation_lastWins(r) ==
    /\ req[r].at = "claiming"
    /\ operationBinding' = [operationBinding EXCEPT ![req[r].session] =
                               [deployment |-> req[r].goal, idle |-> FALSE]]
    /\ Activating(r, [req[r] EXCEPT !.pin = req[r].goal])
    /\ UNCHANGED <<status, policyVars, cache, sessionBinding, home, archiveVars, events>>

BindOperation(r) ==
    LET key == req[r].session
        claimed == operationBinding'[key].deployment
    IN  /\ req[r].at = "claiming"
        /\ operationBinding' = IF operationBinding[key] # NoBinding THEN operationBinding
              ELSE [operationBinding EXCEPT ![key] =
                       [deployment |-> req[r].goal, idle |-> FALSE]]
        /\ IF claimed = req[r].goal THEN Activating(r, [req[r] EXCEPT !.pin = claimed])
           ELSE req' = [req EXCEPT ![r].pin = claimed, ![r].at = "resolving"]
        /\ UNCHANGED <<status, policyVars, cache, sessionBinding, home, archiveVars, events>>

\* activationClient.activate: the route refuses an archived Deployment, though not one
\* that is being archived, and takes the lease (RuntimeActivation has the two steps
\* apart).  `late': the archive has read the leases by then.
Overlooked(d) ==
    \/ status[d] = "archived"
    \/ archive.deployment = d /\ archive.at \in {"decide", "removing"} /\ ~ archive.protected

ActivationLeases(r) ==
    /\ req[r].at = "activating"
    /\ status[req[r].goal] # "archived"
    /\ req' = [req EXCEPT ![r].held = TRUE, ![r].late = Overlooked(req[r].goal),
                          ![r].at = "waiting"]
    /\ UNCHANGED <<status, policyVars, cache, bindingVars, archiveVars, events>>

\* waitForRuntimeActivation: a ready instance answers at once; a stopped Deployment
\* is started, which the ensure job refuses once an archive has claimed it.
ReadyRow(d) == status[d] # "stopped" /\ (status[d] = "archiving" => archive.prior # "stopped")

ActivationGranted(r) ==
    /\ req[r].at = "waiting"
    /\ status[req[r].goal] = "stopped" \/ ReadyRow(req[r].goal)
    /\ status' = [status EXCEPT ![req[r].goal] = IF @ = "stopped" THEN "running" ELSE @]
    /\ Proceeds(r, "proxying")
    /\ UNCHANGED <<policyVars, cache, bindingVars, archiveVars, events>>

\* It is refused, fails, or is aborted by the client.
ActivationFails(r) ==
    /\ req[r].at \in {"activating", "waiting"}
    /\ Ends(r)
    /\ UNCHANGED <<status, policyVars, cache, bindingVars, archiveVars, events>>

\* proxyToDeployment reaches the Agent.  An answer that names a new Session is bound,
\* any other goes straight to the client.
\* A process is there until the archive has stopped it.
Listening(d) ==
    /\ status[d] \notin {"stopped", "archived"}
    /\ ~ (archive.deployment = d /\ archive.at = "removing")

Delivered(r) ==
    home' = [home EXCEPT ![req[r].session] = IF req[r].kind = "follow" THEN @
                                             ELSE @ \cup {req[r].goal}]

ProxyAnswers(r, named) ==
    /\ req[r].at = "proxying" /\ Listening(req[r].goal)
    /\ Delivered(r)
    /\ IF req[r].kind # "follow" /\ named THEN Proceeds(r, "answered") ELSE Streams(r)
    /\ UNCHANGED <<status, policyVars, cache, operationBinding, sessionBinding, archiveVars,
                   events>>

\* It throws on an error, an abort or the idle timeout, whether or not the Agent got
\* the request: the lease is released.
ProxyThrows_keepsLease(r, delivered) ==
    /\ req[r].at = "proxying" /\ (delivered => Listening(req[r].goal))
    /\ IF delivered THEN Delivered(r) ELSE UNCHANGED home
    /\ Proceeds(r, "leaked")
    /\ UNCHANGED <<status, policyVars, cache, operationBinding, sessionBinding, archiveVars,
                   events>>

ProxyThrows(r, delivered) ==
    /\ req[r].at = "proxying" /\ (delivered => Listening(req[r].goal))
    /\ IF delivered THEN Delivered(r) ELSE UNCHANGED home
    /\ Ends(r)
    /\ UNCHANGED <<status, policyVars, cache, operationBinding, sessionBinding, archiveVars,
                   events>>

\* applyGatewaySessionResponse: bindSession overwrites an earlier row.
BindSession(r) ==
    /\ req[r].at = "answered"
    /\ sessionBinding' = [sessionBinding EXCEPT ![req[r].session] =
                             [deployment |-> req[r].goal, idle |-> FALSE]]
    /\ Streams(r)
    /\ UNCHANGED <<status, policyVars, cache, operationBinding, home, archiveVars, events>>

\* cancelUpstreamAndReleaseActivation
BindSessionThrows(r) ==
    /\ req[r].at = "answered"
    /\ Ends(r)
    /\ UNCHANGED <<status, policyVars, cache, bindingVars, archiveVars, events>>

\* manageActivationResponse: the end, an error or a cancel of the body releases once.
ResponseEnds(r) ==
    /\ req[r].at = "streaming"
    /\ Ends(r)
    /\ UNCHANGED <<status, policyVars, cache, bindingVars, archiveVars, events>>

\* The Gateway dies with its requests and its cache; their leases run out.
GatewayDies ==
    /\ Event
    /\ req' = [r \in Request |-> IF req[r].held THEN Lease(r, "done") ELSE NoRequest]
    /\ cache' = NoRoute
    /\ UNCHANGED <<status, policyVars, bindingVars, archiveVars>>

LeaseLapses(r) ==
    /\ req[r].at = "done" /\ req[r].held
    /\ Ends(r)
    /\ UNCHANGED <<status, policyVars, cache, bindingVars, archiveVars, events>>

\* A binding's idle TTL passes.
Idles(rows, s) == rows[s] # NoBinding /\ ~ rows[s].idle

OperationIdles(s) ==
    /\ Event
    /\ Idles(operationBinding, s)
    /\ operationBinding' = [operationBinding EXCEPT ![s].idle = TRUE]
    /\ UNCHANGED <<status, policyVars, cache, req, sessionBinding, home, archiveVars>>

SessionIdles(s) ==
    /\ Event
    /\ Idles(sessionBinding, s)
    /\ sessionBinding' = [sessionBinding EXCEPT ![s].idle = TRUE]
    /\ UNCHANGED <<status, policyVars, cache, req, operationBinding, home, archiveVars>>

-----------------------------------------------------------------------------
(***************************************************************************)
(* The policy and the Deployments                                          *)
(***************************************************************************)
NewPolicy(targets, weighted) ==
    [revision |-> policy.revision + 1, targets |-> targets, weighted |-> weighted]

\* updateRouteTargets: one or two targets; a weighted one must be running.
UpdateRouteTargets(targets, weighted) ==
    /\ Event
    /\ Cardinality(targets) \in {1, 2}
    /\ weighted \subseteq targets /\ weighted # {}
    /\ \A d \in weighted : status[d] = "running"
    /\ policy' = NewPolicy(targets, weighted)
    /\ notify' = TRUE
    /\ UNCHANGED <<status, promotion, cache, req, bindingVars, archiveVars>>

\* promoteDeployment reads the Deployment without locking it ...
PromotionReads(d) ==
    /\ Event
    /\ promotion = NoDeployment
    /\ status[d] = "running"
    /\ promotion' = d
    /\ UNCHANGED <<status, policy, notify, cache, req, bindingVars, archiveVars>>

\* ... and then makes it the only target.
PromotionCommits ==
    /\ promotion # NoDeployment
    /\ policy' = NewPolicy({promotion}, {promotion})
    /\ promotion' = NoDeployment
    /\ notify' = TRUE
    /\ UNCHANGED <<status, cache, req, bindingVars, archiveVars, events>>

\* The idle reaper, or the end of a drain, stops what holds no lease.
Stops(d) ==
    /\ Event
    /\ status[d] \in {"running", "draining"}
    /\ Held(d) = {}
    /\ status' = [status EXCEPT ![d] = "stopped"]
    /\ UNCHANGED <<policyVars, cache, req, bindingVars, archiveVars>>

Drains(d) ==
    /\ Event
    /\ status[d] = "running"
    /\ status' = [status EXCEPT ![d] = "draining"]
    /\ UNCHANGED <<policyVars, cache, req, bindingVars, archiveVars>>

-----------------------------------------------------------------------------
(***************************************************************************)
(* handleArchiveDeploymentJob with getDeploymentRetention, whose queries   *)
(* are separate statements                                                 *)
(***************************************************************************)
NoArchive == [deployment |-> NoDeployment, at |-> "idle", prior |-> "none", protected |-> FALSE]

ArchiveClaims(d) ==
    /\ Event
    /\ archive = NoArchive
    /\ Serves(status[d])
    /\ archive' = [deployment |-> d, at |-> "routes", prior |-> status[d], protected |-> FALSE]
    /\ status' = [status EXCEPT ![d] = "archiving"]
    /\ overtaken' = IF promotion = d THEN overtaken \cup {d} ELSE overtaken
    /\ UNCHANGED <<policyVars, cache, req, bindingVars>>

Retention(from, to, reason) ==
    /\ archive.at = from
    /\ archive' = [archive EXCEPT !.at = to, !.protected = @ \/ reason]
    /\ UNCHANGED <<status, policyVars, cache, req, bindingVars, overtaken, events>>
Bound(rows, d) ==
    \E s \in SessionId : rows[s] # NoBinding /\ ~ rows[s].idle /\ rows[s].deployment = d

RetentionReadsRoutes_skipped == Retention("routes", "sessions", FALSE)

RetentionReadsRoutes ==
    Retention("routes", "sessions", archive.deployment \in policy.targets)

RetentionReadsSessions ==
    Retention("sessions", "operations", Bound(sessionBinding, archive.deployment))

RetentionReadsOperations ==
    Retention("operations", "leases", Bound(operationBinding, archive.deployment))

RetentionReadsLeases_skipped == Retention("leases", "decide", FALSE)

RetentionReadsLeases == Retention("leases", "decide", Held(archive.deployment) # {})

\* Hand the claim back when it is protected, or stop the process ...
ArchiveDecides ==
    /\ archive.at = "decide"
    /\ IF archive.protected
       THEN /\ status' = [status EXCEPT ![archive.deployment] = archive.prior]
            /\ archive' = NoArchive
       ELSE archive' = [archive EXCEPT !.at = "removing"] /\ UNCHANGED status
    /\ UNCHANGED <<policyVars, cache, req, bindingVars, overtaken, events>>

\* ... and remove what it ran.
ArchiveFinishes ==
    /\ archive.at = "removing"
    /\ status' = [status EXCEPT ![archive.deployment] = "archived"]
    /\ archive' = NoArchive
    /\ UNCHANGED <<policyVars, cache, req, bindingVars, overtaken, events>>

\* One of the handler's calls throws: the claim is handed back.
ArchiveThrows ==
    /\ archive # NoArchive
    /\ status' = [status EXCEPT ![archive.deployment] = archive.prior]
    /\ archive' = NoArchive
    /\ UNCHANGED <<policyVars, cache, req, bindingVars, overtaken, events>>

-----------------------------------------------------------------------------
GatewayInit ==
    /\ status = [d \in Deployment |-> "running"]
    /\ \E d \in Deployment : policy = [revision |-> 0, targets |-> {d}, weighted |-> {d}]
    /\ promotion = NoDeployment
    /\ notify = FALSE
    /\ cache = NoRoute
    /\ req = [r \in Request |-> NoRequest]
    /\ operationBinding = [s \in SessionId |-> NoBinding]
    /\ sessionBinding = [s \in SessionId |-> NoBinding]
    /\ home = [s \in SessionId |-> {}]
    /\ archive = NoArchive
    /\ overtaken = {}
    /\ events = 0

RequestStep(r) ==
    \/ RouteStore(r) \/ OperationFinds(r) \/ OperationTouches(r)
    \/ SessionFinds(r) \/ SessionTouches(r)
    \/ ResolveTarget(r) \/ BindOperation(r)
    \/ ActivationLeases(r) \/ ActivationGranted(r) \/ ActivationFails(r)
    \/ \E named \in BOOLEAN : ProxyAnswers(r, named)
    \/ \E delivered \in BOOLEAN : ProxyThrows(r, delivered)
    \/ BindSession(r) \/ BindSessionThrows(r) \/ ResponseEnds(r)

ArchiveStep ==
    \/ RetentionReadsRoutes \/ RetentionReadsSessions \/ RetentionReadsOperations
    \/ RetentionReadsLeases \/ ArchiveDecides \/ ArchiveFinishes

GatewayNext ==
    \/ \E r \in Request : \/ \E kind \in Kinds, s \in SessionId :
                                RouteHit(r, kind, s) \/ RouteLookup(r, kind, s)
                          \/ RequestStep(r) \/ LeaseLapses(r)
    \/ GatewayDies
    \/ CacheExpires
    \/ \E arrives \in BOOLEAN : InvalidateCache(arrives)
    \/ \E s \in SessionId : OperationIdles(s) \/ SessionIdles(s)
    \/ \E targets \in SUBSET Deployment : \E weighted \in SUBSET targets :
          UpdateRouteTargets(targets, weighted)
    \/ \E d \in Deployment : PromotionReads(d) \/ Stops(d) \/ Drains(d) \/ ArchiveClaims(d)
    \/ PromotionCommits
    \/ ArchiveStep
    \/ ArchiveThrows

\* A request's awaits end (the upstream hop has an idle timeout), its client or its
\* upstream ends the body, and TTLs pass.
GatewayFairness ==
    /\ \A r \in Request : WF_gatewayVars(RequestStep(r)) /\ WF_gatewayVars(LeaseLapses(r))
    /\ WF_gatewayVars(CacheExpires)

GatewaySpec == GatewayInit /\ [][GatewayNext]_gatewayVars /\ GatewayFairness

-----------------------------------------------------------------------------
(***************************************************************************)
(* Properties                                                              *)
(***************************************************************************)
\* Rows and requests have their types, and a held lease names its Deployment.
GatewayTypeOK ==
    /\ status \in [Deployment -> {"running", "draining", "stopped", "archiving", "archived"}]
    /\ policy.targets \subseteq Deployment /\ policy.weighted \subseteq policy.targets
    /\ promotion \in Deployment \cup {NoDeployment}
    /\ operationBinding \in [SessionId -> Binding \cup {NoBinding}]
    /\ sessionBinding \in [SessionId -> Binding \cup {NoBinding}]
    /\ home \in [SessionId -> SUBSET Deployment]
    /\ archive.deployment \in Deployment \cup {NoDeployment}
    /\ \A r \in Request : /\ req[r].pin \in Deployment \cup {NoDeployment}
                          /\ req[r].held => req[r].goal \in Deployment

\* Create-once: all creates with one operationId reach one Deployment, whatever happens
\* to the policy, the cache, the Deployments and the Gateway between a try and its
\* retry (bindOperation, resolveGatewayOperationBinding).
OneDeploymentPerOperation == \A s \in SessionId : Cardinality(home[s]) <= 1

\* docs/en/reference/routing.md, "No migration": a binding names the Deployment that
\* created the Session, and a request that found one goes there and nowhere else.
SessionStaysPinned ==
    /\ \A s \in SessionId :
          sessionBinding[s] # NoBinding => sessionBinding[s].deployment \in home[s]
    /\ \A r \in Request : req[r].at = "proxying" /\ req[r].pin # NoDeployment =>
          /\ req[r].goal = req[r].pin
          /\ req[r].kind = "follow" => req[r].goal \in home[req[r].session]

\* A lease keeps its Deployment: "an activation that raced in is ... visible to the
\* re-check" (archive-deployment.ts), so a request whose lease was there when the
\* archive read the leases is never left with a Deployment that is torn down.
GrantedIsKept ==
    \A r \in Request : req[r].held /\ ~ req[r].late => ~ Overlooked(req[r].goal)

\* The policy weighs an archived Deployment only if a promotion had found it running
\* before the archive claimed it (promoteDeployment takes no lock).
TargetsAlive ==
    \A d \in policy.weighted : status[d] = "archived" => d \in overtaken

\* Every lease is let go of: by the request, on whichever path it ends, or by its expiry
\* when the Gateway died.
LeasesReleased == \A r \in Request : req[r].held ~> ~ req[r].held

\* Once the policy rests, the cache stops serving an older one, although invalidations
\* get lost and a lookup may store what it read before one.
CacheCatchesUp == <>[](cache # NoRoute => cache.revision = policy.revision)
=============================================================================
