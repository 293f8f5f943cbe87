------------------------- MODULE RuntimeActivation -------------------------
(***************************************************************************)
(* The life of one Deployment's process: the deployments row, its          *)
(* RuntimeInstance generations and ActivationLeases, the host process, and *)
(* the actors that move them:                                              *)
(*                                                                         *)
(*   - API requests and scheduler prewarms, which take leases;             *)
(*   - the lane: the one Deployment-scoped job at a time that claimNextJob *)
(*     admits (JobQueue!ScopeExclusion): ensure_deployment_running,        *)
(*     trigger_schedule, restart_deployment, archive_deployment;           *)
(*   - the worker tick, whose idle reaper and reconciler run beside the    *)
(*     lane and beside each other, and the orphan sweep;                   *)
(*   - the operator: drain, promote, route weights, restart, archive.      *)
(*                                                                         *)
(* One action is one transaction or statement, or one call to the runtime  *)
(* adapter, with the code up to it: every await of a handler is a point    *)
(* where the others may step in.  Time appears only as the freedom of      *)
(* timeouts, idle TTLs and lease expiry to happen.                         *)
(***************************************************************************)
EXTENDS Naturals, FiniteSets

CONSTANTS
    Client,         \* activation requests, one ownerId each
    Prewarm,        \* the clients that are planner prewarms: they never wait
    Port,           \* loopback ports an instance may be given
    HostPort,       \* deployments.host_port
    None,
    InitDep,        \* the Deployment's status the runs start from
    Ops,            \* the operations and faults a run mixes
    MaxOps,         \* bound: how many of them happen
    MaxGen          \* bound: RuntimeInstance generations

Op == {"restart", "trigger", "drain", "archive", "sweep", "promote", "orphan",
       "fault", "crash"}
Gen == 1..MaxGen
Run == "run"                \* the owner of trigger_schedule's lease
Owner == Client \cup {Run}

ASSUME ClientAssumption == Prewarm \subseteq Client /\ Run \notin Client
ASSUME PortAssumption == HostPort \in Port /\ None \notin Port
ASSUME InitAssumption == InitDep \in {"running", "draining", "stopped"}
ASSUME BoundAssumption == MaxGen \in Nat \ {0} /\ MaxOps \in Nat /\ Ops \subseteq Op

VARIABLES
    dep,        \* deployments.status
    artifacts,  \* the release image and build directory exist
    routed,     \* a project route targets the Deployment
    proc,       \* the port the host process listens on, None when down
    inst,       \* runtime_instances.status by generation
    endpoint,   \* runtime_instances.endpoint_port by generation
    latest,     \* the highest generation
    lease,      \* activation_leases by owner
    cpc, cgen,  \* where a request is, and the generation it was given
    jobs,       \* the Deployment's queued jobs
    lane,       \* the running one
    reaper, reconciler, orphan, operator,
    hooks,      \* by generation, the failed ensure jobs whose onFailure is still to run
    overruled,  \* history: one of them wrote over an instance that a sweep had claimed
    spent       \* how many of Ops have happened

depVars == <<dep, artifacts, routed>>
instVars == <<inst, endpoint, latest>>
clientVars == <<lease, cpc, cgen>>
sweepVars == <<reaper, reconciler, orphan>>
hookVars == <<hooks, overruled>>
vars == <<dep, artifacts, routed, proc, inst, endpoint, latest, lease, cpc, cgen,
          jobs, lane, reaper, reconciler, orphan, operator, hooks, overruled, spent>>

Live == {"starting", "ready", "draining"}
Retired == {"archiving", "archived"}
NoHooks == [g \in Gen |-> 0]
Idle == [kind |-> "none", gen |-> 0, pc |-> "idle", prior |-> "none"]

Spend(op) == op \in Ops /\ spent < MaxOps /\ spent' = spent + 1

ActiveLeases == {o \in Owner : lease[o] = "active"}

\* transitionDeploymentStatus: a compare-and-set on the status.
transitionDeploymentStatus(to, from) == dep' = IF dep \in from THEN to ELSE dep

\* runtime_instances_live_port_idx: a live row may not take another's port.
PortFree(g, p) == \A h \in Gen \ {g} : inst[h] \in Live => endpoint[h] # p

-----------------------------------------------------------------------------
(***************************************************************************)
(* Leases                                                                  *)
(***************************************************************************)
\* acquireActivationLease, under the Deployment and latest-instance row locks:
\* join a starting or ready instance, or create the next generation.  Not
\* enabled while the latest instance drains (RuntimeInstanceDrainingError).
LatestIn(S) == latest > 0 /\ inst[latest] \in S
Joinable == LatestIn({"starting", "ready"})

acquireActivationLease_noJoin(o) ==
    /\ ~LatestIn({"draining"})
    /\ lease' = [lease EXCEPT ![o] = "active"]
    /\ latest < MaxGen
    /\ latest' = latest + 1
    /\ inst' = [inst EXCEPT ![latest + 1] = "starting"]
    /\ UNCHANGED endpoint

acquireActivationLease_whileDraining(o) ==
    /\ lease' = [lease EXCEPT ![o] = "active"]
    /\ IF LatestIn(Live)
       THEN UNCHANGED instVars
       ELSE /\ latest < MaxGen
            /\ latest' = latest + 1
            /\ inst' = [inst EXCEPT ![latest + 1] = "starting"]
            /\ UNCHANGED endpoint

acquireActivationLease(o) ==
    /\ ~LatestIn({"draining"})
    /\ lease' = [lease EXCEPT ![o] = "active"]
    /\ IF Joinable
       THEN UNCHANGED instVars
       ELSE /\ latest < MaxGen
            /\ latest' = latest + 1
            /\ inst' = [inst EXCEPT ![latest + 1] = "starting"]
            /\ UNCHANGED endpoint

\* A lease outlives every live holder's wait and is renewed while its request
\* is served, so it expires only on a holder that is gone.
HolderGone(o) ==
    \/ o = Run /\ lane.kind # "trigger"
    \/ o \in Client /\ cpc[o] \in {"dead", "done"}

LeaseExpires(o) ==
    /\ lease[o] = "active"
    /\ HolderGone(o)
    /\ lease' = [lease EXCEPT ![o] = "expired"]
    /\ UNCHANGED <<hookVars, depVars, proc, instVars, cpc, cgen, jobs, lane, sweepVars,
                   operator, spent>>

\* enqueueDeploymentActivation: at most one active job per instance.
EnsureJob(g) == [kind |-> "ensure", gen |-> g]
enqueueDeploymentActivation(g) ==
    jobs' = IF lane.kind = "ensure" /\ lane.gen = g THEN jobs
            ELSE jobs \cup {EnsureJob(g)}

-----------------------------------------------------------------------------
(***************************************************************************)
(* API requests: POST /internal/runtime/activations and the planner        *)
(***************************************************************************)
\* The route reads the Deployment and refuses an archived or failed one; the
\* planner does not look.
RequestChecks(c) ==
    /\ cpc[c] = "idle"
    /\ cpc' = [cpc EXCEPT ![c] =
                 IF c \notin Prewarm /\ dep \in {"archived", "failed"}
                 THEN "done" ELSE "checked"]
    /\ UNCHANGED <<hookVars, depVars, proc, instVars, lease, cgen, jobs, lane, sweepVars,
                   operator, spent>>

RequestAcquires(c) ==
    /\ cpc[c] = "checked"
    /\ acquireActivationLease(c)
    /\ cgen' = [cgen EXCEPT ![c] = latest']
    /\ cpc' = [cpc EXCEPT ![c] = IF inst'[latest'] = "starting" THEN "enqueue"
                                 ELSE IF c \in Prewarm THEN "done" ELSE "wait"]
    /\ UNCHANGED <<hookVars, depVars, proc, jobs, lane, sweepVars, operator, spent>>

\* HTTP 425 until the caller gives up; the planner skips a draining target.
RequestGivesUp(c) ==
    /\ cpc[c] = "checked"
    /\ LatestIn({"draining"})
    /\ cpc' = [cpc EXCEPT ![c] = "done"]
    /\ UNCHANGED <<hookVars, depVars, proc, instVars, lease, cgen, jobs, lane, sweepVars,
                   operator, spent>>

RequestEnqueues(c) ==
    /\ cpc[c] = "enqueue"
    /\ enqueueDeploymentActivation(cgen[c])
    /\ cpc' = [cpc EXCEPT ![c] = IF c \in Prewarm THEN "done" ELSE "wait"]
    /\ UNCHANGED <<hookVars, depVars, proc, instVars, lease, cgen, lane, sweepVars,
                   operator, spent>>

\* waitForRuntimeActivation sees the instance ready, and the route requires a
\* published endpoint.
RequestGranted(c) ==
    /\ cpc[c] = "wait"
    /\ inst[cgen[c]] = "ready"
    /\ cpc' = [cpc EXCEPT ![c] = IF endpoint[cgen[c]] # None THEN "active"
                                 ELSE "error"]
    /\ UNCHANGED <<hookVars, depVars, proc, instVars, lease, cgen, jobs, lane, sweepVars,
                   operator, spent>>

\* The instance ended, or the wait timed out or was aborted.
RequestFails(c) ==
    /\ cpc[c] = "wait"
    /\ inst[cgen[c]] # "ready"
    /\ cpc' = [cpc EXCEPT ![c] = "error"]
    /\ UNCHANGED <<hookVars, depVars, proc, instVars, lease, cgen, jobs, lane, sweepVars,
                   operator, spent>>

\* releaseActivationLease, after an error or when the proxied request ends.
RequestReleases(c) ==
    /\ cpc[c] \in {"error", "active"}
    /\ lease' = [lease EXCEPT ![c] = IF @ = "active" THEN "released" ELSE @]
    /\ cpc' = [cpc EXCEPT ![c] = "done"]
    /\ UNCHANGED <<hookVars, depVars, proc, instVars, cgen, jobs, lane, sweepVars,
                   operator, spent>>

\* The API process dies anywhere in the request: its lease stays behind.
RequestDies(c) ==
    /\ cpc[c] \in {"checked", "enqueue", "wait", "error", "active"}
    /\ Spend("crash")
    /\ cpc' = [cpc EXCEPT ![c] = "dead"]
    /\ UNCHANGED <<hookVars, depVars, proc, instVars, lease, cgen, jobs, lane, sweepVars,
                   operator>>

-----------------------------------------------------------------------------
(***************************************************************************)
(* The lane: claiming a job and ensure_deployment_running                  *)
(***************************************************************************)
FirstStep(kind) ==
    CASE kind = "ensure" -> "check"
      [] kind = "trigger" -> "acquire"
      [] kind = "restart" -> "r_check"
      [] kind \in {"archive", "sweep"} -> "a_read"

\* claimNextJob, for the one Deployment-scoped slot.
ClaimJob(j) ==
    /\ lane = Idle
    /\ jobs' = jobs \ {j}
    /\ lane' = [kind |-> j.kind, gen |-> j.gen, pc |-> FirstStep(j.kind), prior |-> "none"]
    /\ UNCHANGED <<hookVars, depVars, proc, instVars, clientVars, sweepVars, operator, spent>>

At(kinds, pc) == lane.kind \in kinds /\ lane.pc = pc
Goto(pc) == lane' = [lane EXCEPT !.pc = pc]
EndJob == lane' = Idle

\* handleEnsureDeploymentRunningJob: an archive that won the race fails the
\* instance.  The Release is one that may launch.
EnsureChecks_resurrects ==
    /\ At({"ensure"}, "check")
    /\ Goto("open")
    /\ UNCHANGED <<hookVars, depVars, proc, instVars, clientVars, jobs, sweepVars, operator,
                   spent>>

EnsureChecks ==
    /\ At({"ensure"}, "check")
    /\ IF dep \in Retired
       THEN EndJob /\ inst' = [inst EXCEPT ![lane.gen] = "failed"]
       ELSE Goto("open") /\ UNCHANGED inst
    /\ UNCHANGED <<hookVars, depVars, proc, endpoint, latest, clientVars, jobs, sweepVars,
                   operator, spent>>

\* processJob: failJob commits and frees the lane; what the failure means for the
\* instance is a later statement, FailureHook.
EnsureFails ==
    /\ EndJob
    /\ hooks' = [hooks EXCEPT ![lane.gen] = @ + 1]

\* Preparing the launch (source, secrets, sandbox) throws, whatever the instance is.
EnsureThrows ==
    /\ At({"ensure"}, "open")
    /\ Spend("fault")
    /\ EnsureFails
    /\ UNCHANGED <<overruled, depVars, proc, instVars, clientVars, jobs, sweepVars,
                   operator>>

\* ensure_deployment_running's onFailure: "failed", without looking at what the
\* instance has become since.
FailureHook(g) ==
    /\ hooks[g] > 0
    /\ hooks' = [hooks EXCEPT ![g] = @ - 1]
    /\ inst' = [inst EXCEPT ![g] = "failed"]
    /\ overruled' = (overruled \/ inst[g] = "draining")
    /\ UNCHANGED <<depVars, proc, endpoint, latest, clientVars, jobs, lane, sweepVars,
                   operator, spent>>

-----------------------------------------------------------------------------
(***************************************************************************)
(* startRuntimeInstance, shared by ensure_deployment_running and a         *)
(* trigger_schedule that is the starter                                    *)
(***************************************************************************)
Starters == {"ensure", "trigger"}
AfterReady == IF lane.kind = "ensure" THEN "settle" ELSE "mark"

\* Where the starter goes when startRuntimeInstance throws: both catch blocks
\* write "failed" without looking, a trigger gives its lease back, and an ensure
\* job fails.
StartFails ==
    /\ inst' = [inst EXCEPT ![lane.gen] = "failed"]
    /\ IF lane.kind = "ensure"
       THEN EnsureFails /\ UNCHANGED lease
       ELSE /\ EndJob
            /\ lease' = [lease EXCEPT ![Run] = "released"]
            /\ UNCHANGED hooks

StartOpens ==
    /\ At(Starters, "open")
    /\ \/ /\ inst[lane.gen] = "ready"
          /\ Goto(AfterReady)
          /\ UNCHANGED <<inst, lease, hooks>>
       \/ /\ inst[lane.gen] = "starting"
          /\ Goto("port")
          /\ UNCHANGED <<inst, lease, hooks>>
       \/ /\ inst[lane.gen] \notin {"ready", "starting"}
          /\ IF lane.kind = "trigger" THEN StartFails
             ELSE EnsureFails /\ UNCHANGED <<inst, lease>>
    /\ UNCHANGED <<overruled, depVars, proc, endpoint, latest, cpc, cgen, jobs,
                   sweepVars, operator, spent>>

\* The port the newest other generation ran on, or deployments.host_port.
PreferredPort(g, p) ==
    \/ p = HostPort /\ \A h \in Gen \ {g} : endpoint[h] = None
    \/ \E h \in Gen \ {g} :
          /\ p = endpoint[h] /\ p # None
          /\ \A k \in Gen \ {g} : k > h => endpoint[k] = None

\* resolveInstancePort: persist the port before anything binds it.  The preferred
\* port is kept while our own unit holds it; else systemd may be given another,
\* and Docker, which cannot rebind, fails when it is taken.
reserveRuntimeInstancePort ==
    /\ At(Starters, "port")
    /\ \/ /\ endpoint[lane.gen] # None
          /\ Goto("start")
          /\ UNCHANGED <<inst, endpoint, lease, hooks>>
       \/ \E preferred \in Port :
             /\ endpoint[lane.gen] = None
             /\ PreferredPort(lane.gen, preferred)
             /\ \/ \E p \in Port :
                      /\ PortFree(lane.gen, p)
                      /\ proc = preferred /\ PortFree(lane.gen, preferred) => p = preferred
                      /\ endpoint' = [endpoint EXCEPT ![lane.gen] = p]
                      /\ Goto("start")
                      /\ UNCHANGED <<inst, lease, hooks>>
                \/ /\ ~PortFree(lane.gen, preferred)
                   /\ StartFails
                   /\ UNCHANGED endpoint
    /\ UNCHANGED <<overruled, depVars, proc, latest, cpc, cgen, jobs, sweepVars,
                   operator, spent>>

\* ensureProcess: reuse the unit that holds the port, or (re)start it there.
\* Without the release artifacts there is nothing to start.
StartProcess ==
    /\ At(Starters, "start")
    /\ \/ /\ artifacts \/ proc = endpoint[lane.gen]
          /\ proc' = endpoint[lane.gen]
          /\ Goto("health")
          /\ UNCHANGED <<inst, lease, hooks, spent>>
       \/ /\ ~artifacts /\ proc # endpoint[lane.gen]
          /\ StartFails
          /\ proc' = None
          /\ UNCHANGED spent
       \/ /\ Spend("fault")
          /\ StartFails
          /\ proc' \in {proc, None}
    /\ UNCHANGED <<overruled, depVars, endpoint, latest, cpc, cgen, jobs, sweepVars, operator>>

\* waitForOwnedHttpHealth, then the unguarded "ready" or "failed" write.  A
\* process that failed its probe is spent running.
StartSettles ==
    /\ At(Starters, "health")
    /\ \/ /\ proc = endpoint[lane.gen]
          /\ PortFree(lane.gen, endpoint[lane.gen])
          /\ inst' = [inst EXCEPT ![lane.gen] = "ready"]
          /\ Goto(AfterReady)
          /\ UNCHANGED <<lease, hooks, spent>>
       \/ /\ proc # endpoint[lane.gen] \/ ~PortFree(lane.gen, endpoint[lane.gen])
          /\ StartFails
          /\ UNCHANGED spent
       \/ /\ Spend("fault")
          /\ StartFails
    /\ UNCHANGED <<overruled, depVars, proc, endpoint, latest, cpc, cgen, jobs, sweepVars,
                   operator>>

EnsureSettles_overDrain ==
    /\ At({"ensure"}, "settle")
    /\ transitionDeploymentStatus("running", {"running", "draining", "stopped", "failed"})
    /\ EndJob
    /\ UNCHANGED <<hookVars, artifacts, routed, proc, instVars, clientVars, jobs, sweepVars,
                   operator, spent>>

\* settleDeploymentStatus(running): never over a drain or an archive.
EnsureSettles ==
    /\ At({"ensure"}, "settle")
    /\ transitionDeploymentStatus("running", {"running", "stopped", "failed"})
    /\ EndJob
    /\ UNCHANGED <<hookVars, artifacts, routed, proc, instVars, clientVars, jobs, sweepVars,
                   operator, spent>>

-----------------------------------------------------------------------------
(***************************************************************************)
(* trigger_schedule: ensureDeploymentActive and the dispatch               *)
(***************************************************************************)
TriggerAcquires ==
    /\ At({"trigger"}, "acquire")
    /\ acquireActivationLease(Run)
    /\ lane' = [lane EXCEPT !.gen = latest',
                            !.pc = "guard",
                            !.prior = IF Joinable THEN inst[latest] ELSE "starter"]
    /\ UNCHANGED <<hookVars, depVars, proc, cpc, cgen, jobs, sweepVars, operator, spent>>

\* "timed out waiting for draining to finish": the run fails.
TriggerGivesUp ==
    /\ At({"trigger"}, "acquire")
    /\ LatestIn({"draining"})
    /\ EndJob
    /\ UNCHANGED <<hookVars, depVars, proc, instVars, clientVars, jobs, sweepVars, operator,
                   spent>>

\* "Ordered against the archive claim": refuse a Deployment being archived.
\* Otherwise start the new instance, wait for one that another is starting, or
\* take a ready one as it was when the lease was acquired.
TriggerGuards ==
    /\ At({"trigger"}, "guard")
    /\ IF dep \in Retired
       THEN /\ inst' = [inst EXCEPT ![lane.gen] =
                          IF lane.prior = "starter" THEN "failed" ELSE @]
            /\ lease' = [lease EXCEPT ![Run] = "released"]
            /\ EndJob
       ELSE /\ Goto(IF lane.prior = "starter" THEN "open"
                    ELSE IF lane.prior = "starting" THEN "poll" ELSE "mark")
            /\ UNCHANGED <<inst, lease>>
    /\ UNCHANGED <<hookVars, depVars, proc, endpoint, latest, cpc, cgen, jobs, sweepVars,
                   operator, spent>>

TriggerPolls ==
    /\ At({"trigger"}, "poll")
    /\ \/ inst[lane.gen] = "ready" /\ Goto("mark") /\ UNCHANGED lease
       \/ /\ inst[lane.gen] # "ready"     \* ended, or the wait timed out
          /\ lease' = [lease EXCEPT ![Run] = "released"]
          /\ EndJob
    /\ UNCHANGED <<hookVars, depVars, proc, instVars, cpc, cgen, jobs, sweepVars, operator, spent>>

\* updateDeploymentStatus(deployment.id, "running"), without a guard.
TriggerMarks ==
    /\ At({"trigger"}, "mark")
    /\ dep' = "running"
    /\ Goto("dispatch")
    /\ UNCHANGED <<hookVars, artifacts, routed, proc, instVars, clientVars, jobs, sweepVars,
                   operator, spent>>

\* The Scheduler Channel call to deployment.hostPort: the lease is handed to a
\* Session that goes on, or released.
TriggerDispatches ==
    /\ At({"trigger"}, "dispatch")
    /\ \/ UNCHANGED lease
       \/ lease' = [lease EXCEPT ![Run] = "released"]
    /\ EndJob
    /\ UNCHANGED <<hookVars, depVars, proc, instVars, cpc, cgen, jobs, sweepVars, operator, spent>>

-----------------------------------------------------------------------------
(***************************************************************************)
(* restart_deployment                                                      *)
(***************************************************************************)
\* "A queued restart that lost the race to an archive must not resurrect it";
\* and what a restart loads may be missing before it touches the process.
RestartChecks ==
    /\ At({"restart"}, "r_check")
    /\ \/ dep \notin Retired /\ Goto("r_stop")
       \/ EndJob
    /\ UNCHANGED <<hookVars, depVars, proc, instVars, clientVars, jobs, sweepVars, operator,
                   spent>>

RestartStops ==
    /\ At({"restart"}, "r_stop")
    /\ \/ proc' = None /\ Goto("r_retire") /\ UNCHANGED spent
       \/ Spend("fault") /\ EndJob /\ UNCHANGED proc
    /\ UNCHANGED <<hookVars, depVars, instVars, clientVars, jobs, sweepVars, operator>>

\* Retire every live instance and its endpoint claim.
RestartRetires ==
    /\ At({"restart"}, "r_retire")
    /\ inst' = [g \in Gen |-> IF inst[g] \in Live THEN "stopped" ELSE inst[g]]
    /\ endpoint' = [g \in Gen |-> IF inst[g] \in Live THEN None ELSE endpoint[g]]
    /\ Goto("r_start")
    /\ UNCHANGED <<hookVars, depVars, proc, latest, clientVars, jobs, sweepVars, operator, spent>>

\* startProcess on deployment.hostPort; a failure settles "stopped".
RestartStarts ==
    /\ At({"restart"}, "r_start")
    /\ \/ /\ artifacts
          /\ proc' = HostPort
          /\ Goto("r_health")
          /\ UNCHANGED <<dep, spent>>
       \/ /\ \/ ~artifacts /\ UNCHANGED spent
             \/ Spend("fault")
          /\ transitionDeploymentStatus("stopped", {"running", "stopped", "failed"})
          /\ EndJob
          /\ UNCHANGED proc
    /\ UNCHANGED <<hookVars, artifacts, routed, instVars, clientVars, jobs, sweepVars, operator>>

\* Health, then settleDeploymentStatus; a process that fails is stopped.
RestartSettles ==
    /\ At({"restart"}, "r_health")
    /\ \/ /\ proc = HostPort
          /\ transitionDeploymentStatus("running", {"running", "stopped", "failed"})
          /\ UNCHANGED <<proc, spent>>
       \/ /\ \/ proc # HostPort /\ UNCHANGED spent
             \/ Spend("fault")
          /\ proc' = None
          /\ transitionDeploymentStatus("stopped", {"running", "stopped", "failed"})
    /\ EndJob
    /\ UNCHANGED <<hookVars, artifacts, routed, instVars, clientVars, jobs, sweepVars, operator>>

-----------------------------------------------------------------------------
(***************************************************************************)
(* archive_deployment, requested ("archive") or by the release sweep       *)
(***************************************************************************)
Archives == {"archive", "sweep"}
Claimable ==
    IF lane.kind = "sweep" THEN {"stopped", "archiving"}
    ELSE {"running", "draining", "stopped", "failed", "archiving"}

ArchiveReads ==
    /\ At(Archives, "a_read")
    /\ IF dep \in Claimable
       THEN lane' = [lane EXCEPT !.pc = "a_claim", !.prior = dep]
       ELSE EndJob
    /\ UNCHANGED <<hookVars, depVars, proc, instVars, clientVars, jobs, sweepVars, operator,
                   spent>>

\* The claim: a compare-and-set from the status just read.
ArchiveClaims ==
    /\ At(Archives, "a_claim")
    /\ transitionDeploymentStatus("archiving", {lane.prior})
    /\ IF dep = lane.prior
       THEN lane' = [lane EXCEPT !.pc = "a_retain",
                                 !.prior = IF @ = "archiving" THEN "stopped" ELSE @]
       ELSE EndJob
    /\ UNCHANGED <<hookVars, artifacts, routed, proc, instVars, clientVars, jobs, sweepVars,
                   operator, spent>>

\* getDeploymentRetention, re-checked after the claim: a route target or an
\* active lease protects, and so may a session, a workflow run or recency.
Protected == routed \/ ActiveLeases # {}

ArchiveRetains ==
    /\ At(Archives, "a_retain")
    /\ \/ ~Protected /\ Goto("a_stop")
       \/ Goto("a_revert")
    /\ UNCHANGED <<hookVars, depVars, proc, instVars, clientVars, jobs, sweepVars, operator, spent>>

ArchiveStops ==
    /\ At(Archives, "a_stop")
    /\ \/ /\ proc' = IF lane.prior \in {"running", "draining"} THEN None ELSE proc
          /\ Goto("a_remove")
          /\ UNCHANGED spent
       \/ /\ lane.prior \in {"running", "draining"}
          /\ Spend("fault")
          /\ Goto("a_revert")
          /\ UNCHANGED proc
    /\ UNCHANGED <<hookVars, depVars, instVars, clientVars, jobs, sweepVars, operator>>

ArchiveRemoves ==
    /\ At(Archives, "a_remove")
    /\ \/ artifacts' = FALSE /\ Goto("a_finish") /\ UNCHANGED spent
       \/ Spend("fault") /\ Goto("a_revert") /\ artifacts' \in {artifacts, FALSE}
    /\ UNCHANGED <<hookVars, dep, routed, proc, instVars, clientVars, jobs, sweepVars, operator>>

ArchiveFinishes ==
    /\ At(Archives, "a_finish")
    /\ transitionDeploymentStatus("archived", {"archiving"})
    /\ IF dep = "archiving" THEN EndJob ELSE Goto("a_revert")
    /\ UNCHANGED <<hookVars, artifacts, routed, proc, instVars, clientVars, jobs, sweepVars,
                   operator, spent>>

ArchiveReverts_keepsClaim ==
    /\ At(Archives, "a_revert")
    /\ EndJob
    /\ UNCHANGED <<hookVars, depVars, proc, instVars, clientVars, jobs, sweepVars, operator,
                   spent>>

ArchiveReverts ==
    /\ At(Archives, "a_revert")
    /\ transitionDeploymentStatus(lane.prior, {"archiving"})
    /\ EndJob
    /\ UNCHANGED <<hookVars, artifacts, routed, proc, instVars, clientVars, jobs, sweepVars,
                   operator, spent>>

-----------------------------------------------------------------------------
(***************************************************************************)
(* The worker tick: recovery of starting instances and the idle reaper     *)
(***************************************************************************)
\* recoverStartingRuntimeInstances: re-enqueue what no job is starting.
recoverStartingRuntimeInstances(g) ==
    /\ inst[g] = "starting"
    /\ enqueueDeploymentActivation(g)
    /\ UNCHANGED <<hookVars, depVars, proc, instVars, clientVars, lane, sweepVars, operator,
                   spent>>

NoSweep == [pc |-> "idle", todo |-> {}, gen |-> 0]
SchedulePending == lane.kind = "trigger" \/ \E j \in jobs : j.kind = "trigger"

\* claimIdleRuntimeInstances: draining leftovers, and ready instances whose
\* Deployment has no active lease and no schedule run, past the idle TTL.
IdleCandidates ==
    {g \in Gen : inst[g] = "ready" /\ ActiveLeases = {} /\ ~SchedulePending}

ReaperClaims_readyOnly ==
    /\ reaper = NoSweep
    /\ \E claimed \in SUBSET IdleCandidates :
          /\ claimed # {}
          /\ inst' = [g \in Gen |-> IF g \in claimed THEN "draining" ELSE inst[g]]
          /\ reaper' = [pc |-> "next", todo |-> claimed, gen |-> 0]
    /\ UNCHANGED <<hookVars, depVars, proc, endpoint, latest, clientVars, jobs, lane,
                   reconciler, orphan, operator, spent>>

ReaperClaims ==
    /\ reaper = NoSweep
    /\ \E idle \in SUBSET IdleCandidates :
          LET claimed == idle \cup {g \in Gen : inst[g] = "draining"}
          IN  /\ claimed # {}
              /\ inst' = [g \in Gen |-> IF g \in claimed THEN "draining" ELSE inst[g]]
              /\ reaper' = [pc |-> "next", todo |-> claimed, gen |-> 0]
    /\ UNCHANGED <<hookVars, depVars, proc, endpoint, latest, clientVars, jobs, lane,
                   reconciler, orphan, operator, spent>>

ReaperNext ==
    /\ reaper.pc = "next"
    /\ \/ \E g \in reaper.todo :
             reaper' = [pc |-> "leases", todo |-> reaper.todo \ {g}, gen |-> g]
       \/ reaper.todo = {} /\ reaper' = NoSweep
    /\ UNCHANGED <<hookVars, depVars, proc, instVars, clientVars, jobs, lane, reconciler,
                   orphan, operator, spent>>

ReaperAt(pc) == reaper.pc = pc
ReaperGoto(pc) == reaper' = [reaper EXCEPT !.pc = pc]

\* hasActiveActivationLeases and hasRunningSessionsObservedBy, re-checked
\* after the claim: either hands the instance back.
ReaperChecks ==
    /\ ReaperAt("leases")
    /\ \/ ActiveLeases = {} /\ ReaperGoto("confirm")
       \/ ReaperGoto("restore")
    /\ UNCHANGED <<hookVars, depVars, proc, instVars, clientVars, jobs, lane, reconciler,
                   orphan, operator, spent>>

\* The unguarded "ready" write; the live-port index may reject it, which ends
\* the sweep.
ReaperRestores ==
    /\ ReaperAt("restore")
    /\ IF endpoint[reaper.gen] = None \/ PortFree(reaper.gen, endpoint[reaper.gen])
       THEN inst' = [inst EXCEPT ![reaper.gen] = "ready"] /\ ReaperGoto("next")
       ELSE reaper' = NoSweep /\ UNCHANGED inst
    /\ UNCHANGED <<hookVars, depVars, proc, endpoint, latest, clientVars, jobs, lane,
                   reconciler, orphan, operator, spent>>

ReaperConfirms ==
    /\ ReaperAt("confirm")
    /\ ReaperGoto(IF inst[reaper.gen] = "draining" THEN "stop" ELSE "next")
    /\ UNCHANGED <<hookVars, depVars, proc, instVars, clientVars, jobs, lane, reconciler,
                   orphan, operator, spent>>

ReaperStops ==
    /\ ReaperAt("stop")
    /\ \/ proc' = None /\ ReaperGoto("stopped") /\ UNCHANGED spent
       \/ Spend("fault") /\ ReaperGoto("failed") /\ UNCHANGED proc
    /\ UNCHANGED <<hookVars, depVars, instVars, clientVars, jobs, lane, reconciler, orphan,
                   operator>>

\* The instance row, then the Deployment row.
ReaperReports ==
    /\ reaper.pc \in {"stopped", "failed"}
    /\ inst' = [inst EXCEPT ![reaper.gen] = reaper.pc]
    /\ reaper' = [reaper EXCEPT !.pc = IF @ = "stopped" THEN "settle" ELSE "settle_failed"]
    /\ UNCHANGED <<hookVars, depVars, proc, endpoint, latest, clientVars, jobs, lane,
                   reconciler, orphan, operator, spent>>

ReaperSettles ==
    /\ reaper.pc \in {"settle", "settle_failed"}
    /\ transitionDeploymentStatus(IF reaper.pc = "settle" THEN "stopped" ELSE "failed",
                                  {"running", "draining"})
    /\ ReaperGoto("next")
    /\ UNCHANGED <<hookVars, artifacts, routed, proc, instVars, clientVars, jobs, lane,
                   reconciler, orphan, operator, spent>>

-----------------------------------------------------------------------------
(***************************************************************************)
(* reconcileRuntimeInstances and the orphan sweep                          *)
(***************************************************************************)
NoCheck == [pc |-> "idle", gen |-> 0, verdict |-> "none"]

\* Inspect the process of an instance listed as ready.  A port served by a
\* foreign process is a failure too.
ReconcilerInspects(g) ==
    /\ reconciler = NoCheck
    /\ inst[g] = "ready"
    /\ \E v \in {"stopped", "failed"} :
          /\ \/ proc = None /\ UNCHANGED spent
             \/ proc # None /\ v = "failed" /\ Spend("fault")
          /\ reconciler' = [pc |-> "recheck", gen |-> g, verdict |-> v]
    /\ UNCHANGED <<hookVars, depVars, proc, instVars, clientVars, jobs, lane, reaper, orphan,
                   operator>>

\* stillReadyRuntimeInstance.
ReconcilerRechecks ==
    /\ reconciler.pc = "recheck"
    /\ reconciler' = IF inst[reconciler.gen] = "ready"
                     THEN [reconciler EXCEPT !.pc = "write"] ELSE NoCheck
    /\ UNCHANGED <<hookVars, depVars, proc, instVars, clientVars, jobs, lane, reaper, orphan,
                   operator, spent>>

ReconcilerWrites ==
    /\ reconciler.pc = "write"
    /\ inst' = [inst EXCEPT ![reconciler.gen] = reconciler.verdict]
    /\ reconciler' = [reconciler EXCEPT !.pc = "settle"]
    /\ UNCHANGED <<hookVars, depVars, proc, endpoint, latest, clientVars, jobs, lane, reaper,
                   orphan, operator, spent>>

ReconcilerSettles ==
    /\ reconciler.pc = "settle"
    /\ transitionDeploymentStatus(reconciler.verdict, {"running", "draining"})
    /\ reconciler' = NoCheck
    /\ UNCHANGED <<hookVars, artifacts, routed, proc, instVars, clientVars, jobs, lane, reaper,
                   orphan, operator, spent>>

\* sweepProcess: a process without a lease or a live instance is adopted when
\* the Deployment may run, and stopped when it may not.
OrphanReads ==
    /\ orphan = "idle"
    /\ Spend("orphan")
    /\ proc # None /\ ActiveLeases = {} /\ \A g \in Gen : inst[g] \notin Live
    /\ orphan' = IF dep \in {"running", "draining"} THEN "adopt" ELSE "stop"
    /\ UNCHANGED <<hookVars, depVars, proc, instVars, clientVars, jobs, lane, reaper,
                   reconciler, operator>>

adoptRuntimeInstance ==
    /\ orphan = "adopt"
    /\ orphan' = "idle"
    /\ IF LatestIn(Live) \/ ~PortFree(latest + 1, HostPort)
       THEN UNCHANGED instVars
       ELSE /\ latest < MaxGen
            /\ latest' = latest + 1
            /\ inst' = [inst EXCEPT ![latest + 1] = "ready"]
            /\ endpoint' = [endpoint EXCEPT ![latest + 1] = HostPort]
    /\ UNCHANGED <<hookVars, depVars, proc, clientVars, jobs, lane, reaper, reconciler,
                   operator, spent>>

OrphanStops ==
    /\ orphan = "stop"
    /\ orphan' = "idle"
    /\ proc' = None
    /\ UNCHANGED <<hookVars, depVars, instVars, clientVars, jobs, lane, reaper, reconciler,
                   operator, spent>>

-----------------------------------------------------------------------------
(***************************************************************************)
(* The operator, the clock of schedules, and what fails                    *)
(***************************************************************************)
enqueueJob(kind) ==
    /\ Spend(kind)
    /\ jobs' = jobs \cup {[kind |-> kind, gen |-> 0]}

EnqueueRestart ==
    /\ enqueueJob("restart")
    /\ UNCHANGED <<hookVars, depVars, proc, instVars, clientVars, lane, sweepVars, operator>>

EnqueueTrigger ==
    /\ enqueueJob("trigger")
    /\ UNCHANGED <<hookVars, depVars, proc, instVars, clientVars, lane, sweepVars, operator>>

\* The archive route and sweepReleaseRetention look at retention first, and
\* enqueueDeploymentArchive keeps one active job.
NoArchiveJob == lane.kind \notin Archives /\ \A j \in jobs : j.kind \notin Archives

EnqueueArchive ==
    /\ ~Protected /\ NoArchiveJob
    /\ \/ enqueueJob("archive")
       \/ dep = "stopped" /\ enqueueJob("sweep")
    /\ UNCHANGED <<hookVars, depVars, proc, instVars, clientVars, lane, sweepVars, operator>>

\* POST .../drain reads the route targets, then writes without a guard.
DrainReads ==
    /\ operator = "none" /\ ~routed
    /\ Spend("drain")
    /\ operator' = "drain"
    /\ UNCHANGED <<hookVars, depVars, proc, instVars, clientVars, jobs, lane, sweepVars>>

DrainWrites ==
    /\ operator = "drain"
    /\ dep' = "draining"
    /\ operator' = "none"
    /\ UNCHANGED <<hookVars, artifacts, routed, proc, instVars, clientVars, jobs, lane,
                   sweepVars, spent>>

\* promoteDeployment reads a running Deployment without locking its row and
\* commits the route later.
PromoteReads ==
    /\ operator = "none" /\ dep = "running" /\ ~routed
    /\ Spend("promote")
    /\ operator' = "promote"
    /\ UNCHANGED <<hookVars, depVars, proc, instVars, clientVars, jobs, lane, sweepVars>>

PromoteCommits ==
    /\ operator = "promote"
    /\ routed' = TRUE
    /\ operator' = "none"
    /\ UNCHANGED <<hookVars, dep, artifacts, proc, instVars, clientVars, jobs, lane, sweepVars,
                   spent>>

\* updateRouteTargets, or the promotion of another Deployment.
Unroute ==
    /\ routed
    /\ routed' = FALSE
    /\ UNCHANGED <<hookVars, dep, artifacts, proc, instVars, clientVars, jobs, lane, sweepVars,
                   operator, spent>>

ProcessDies ==
    /\ proc # None
    /\ Spend("fault")
    /\ proc' = None
    /\ UNCHANGED <<hookVars, depVars, instVars, clientVars, jobs, lane, sweepVars, operator>>

\* The worker dies: sweeps end where they are and the running job goes back to
\* the queue, except that a schedule run claimed once is not claimed again; what
\* onFailure had still to write is lost.
WorkerCrash ==
    /\ Spend("crash")
    /\ lane # Idle \/ reaper # NoSweep \/ reconciler # NoCheck \/ hooks # NoHooks
    /\ hooks' = NoHooks
    /\ lane' = Idle /\ reaper' = NoSweep /\ reconciler' = NoCheck /\ orphan' = "idle"
    /\ jobs' = IF lane.kind \in {"none", "trigger"} THEN jobs
               ELSE jobs \cup {[kind |-> lane.kind,
                                gen |-> IF lane.kind = "ensure" THEN lane.gen ELSE 0]}
    /\ UNCHANGED <<overruled, depVars, proc, instVars, clientVars, operator>>

-----------------------------------------------------------------------------
\* A Deployment as build_deploy leaves it (running on its port, no instance),
\* or as a drain or an idle stop spent it.
Init ==
    /\ dep = InitDep /\ artifacts = TRUE /\ routed \in BOOLEAN
    /\ proc = IF InitDep = "stopped" THEN None ELSE HostPort
    /\ inst = [g \in Gen |-> "absent"]
    /\ endpoint = [g \in Gen |-> None]
    /\ latest = 0
    /\ lease = [o \in Owner |-> "none"]
    /\ cpc = [c \in Client |-> "idle"] /\ cgen = [c \in Client |-> 0]
    /\ jobs = {} /\ lane = Idle
    /\ reaper = NoSweep /\ reconciler = NoCheck /\ orphan = "idle"
    /\ operator = "none"
    /\ hooks = NoHooks /\ overruled = FALSE
    /\ spent = 0

Request(c) ==
    \/ RequestChecks(c) \/ RequestAcquires(c) \/ RequestGivesUp(c)
    \/ RequestEnqueues(c) \/ RequestGranted(c) \/ RequestFails(c)
    \/ RequestReleases(c)

StartSteps == StartOpens \/ reserveRuntimeInstancePort \/ StartProcess \/ StartSettles
EnsureSteps == EnsureChecks \/ EnsureSettles
TriggerSteps ==
    \/ TriggerAcquires \/ TriggerGivesUp \/ TriggerGuards \/ TriggerPolls
    \/ TriggerMarks \/ TriggerDispatches
RestartSteps ==
    \/ RestartChecks \/ RestartStops \/ RestartRetires \/ RestartStarts
    \/ RestartSettles
ArchiveSteps ==
    \/ ArchiveReads \/ ArchiveClaims \/ ArchiveRetains \/ ArchiveStops
    \/ ArchiveRemoves \/ ArchiveFinishes \/ ArchiveReverts
LaneStep ==
    \/ StartSteps \/ EnsureSteps \/ TriggerSteps \/ RestartSteps \/ ArchiveSteps

ReaperStep ==
    \/ ReaperNext \/ ReaperChecks \/ ReaperRestores \/ ReaperConfirms \/ ReaperStops
    \/ ReaperReports \/ ReaperSettles
ReconcilerStep == ReconcilerRechecks \/ ReconcilerWrites \/ ReconcilerSettles
OrphanStep == adoptRuntimeInstance \/ OrphanStops
OperatorStep ==
    \/ EnqueueRestart \/ EnqueueTrigger \/ EnqueueArchive
    \/ DrainReads \/ DrainWrites \/ PromoteReads \/ PromoteCommits \/ Unroute

Next ==
    \/ \E c \in Client : Request(c) \/ RequestDies(c)
    \/ \E o \in Owner : LeaseExpires(o)
    \/ \E j \in jobs : ClaimJob(j)
    \/ LaneStep \/ EnsureThrows
    \/ \E g \in Gen : \/ FailureHook(g)
                      \/ recoverStartingRuntimeInstances(g) \/ ReconcilerInspects(g)
    \/ ReaperClaims \/ ReaperStep
    \/ ReconcilerStep
    \/ OrphanReads \/ OrphanStep
    \/ OperatorStep
    \/ ProcessDies \/ WorkerCrash

Spec == Init /\ [][Next]_vars

\* The pump claims what is claimable and every handler reaches its end; the
\* worker tick recovers, reaps and reconciles over and over.  Requests, operator
\* and faults owe nothing.
Fairness ==
    /\ WF_vars(\E j \in jobs : ClaimJob(j))
    /\ WF_vars(LaneStep)
    /\ \A g \in Gen : /\ WF_vars(FailureHook(g))
                     /\ WF_vars(recoverStartingRuntimeInstances(g))
    /\ WF_vars(ReaperClaims)
    /\ WF_vars(ReaperStep)

FairSpec == Spec /\ Fairness

-----------------------------------------------------------------------------
(***************************************************************************)
(* Properties                                                              *)
(***************************************************************************)
InstStatus == {"absent", "starting", "ready", "draining", "stopped", "failed"}
DepStatus == {"running", "draining", "stopped", "failed", "archiving", "archived"}

Kind == {"ensure", "trigger", "restart"} \cup Archives
LanePC == {"idle", "check", "open", "port", "start", "health", "settle",
           "acquire", "guard", "poll", "mark", "dispatch",
           "r_check", "r_stop", "r_retire", "r_start", "r_health",
           "a_read", "a_claim", "a_retain", "a_stop", "a_remove", "a_finish", "a_revert"}
Prior == DepStatus \cup {"none", "starter", "starting", "ready"}
LaneType == [kind : Kind \cup {"none"}, gen : 0..MaxGen, pc : LanePC, prior : Prior]
ReconcilerType == [pc : {"idle", "recheck", "write", "settle"}, gen : 0..MaxGen,
                   verdict : {"none", "stopped", "failed"}]
LeaseStatus == {"none", "active", "expired", "released"}

\* The rows and the in-memory state keep their shape.
TypeOK ==
    /\ dep \in DepStatus
    /\ inst \in [Gen -> InstStatus]
    /\ endpoint \in [Gen -> Port \cup {None}]
    /\ latest \in 0..MaxGen
    /\ lease \in [Owner -> LeaseStatus]
    /\ cgen \in [Client -> 0..MaxGen]
    /\ jobs \subseteq [kind : Kind, gen : 0..MaxGen]
    /\ lane \in LaneType
    /\ hooks \in [Gen -> Nat] /\ overruled \in BOOLEAN
    /\ reconciler \in ReconcilerType
    /\ reconciler.pc # "idle" => reconciler.verdict # "none"

\* "exactly one starter per dormant deployment" (spec.md): however requests,
\* prewarms, schedules, sweeps and crashes interleave, at most one generation
\* is starting and it is the newest.
SingleStarter == \A g \in Gen : inst[g] = "starting" => g = latest

\* "A queued activation that lost the race to an archive must not resurrect the
\* deployment", nor may a restart or a schedule: no job starts the process of a
\* Deployment that an archive holds or has finished with, even when a crash
\* leaves the claim behind.
Starting == lane.pc \in {"port", "start", "health", "r_stop", "r_retire", "r_start", "r_health"}
StartNotArchived == Starting => dep \notin Retired

\* A Deployment is never stranded in "archiving": whatever fails or crashes, some
\* archive job holds the claim or is queued to take it up again.
ArchivingHasOwner ==
    dep = "archiving" => \/ lane.kind \in Archives
                         \/ \E j \in jobs : j.kind \in Archives

\* An activation lease keeps the idle reaper away: while a request is proxied, its
\* process goes on listening where its instance says, even when its row is failed
\* under it and another generation is started.  Let off is what follows a late
\* onFailure that marks an instance failed while a sweep holds it: the next
\* generation is granted and the sweep's stop takes its process away.
LeaseProtects ==
    overruled \/ \A c \in Client : cpc[c] = "active" => proc = endpoint[cgen[c]]

\* An instance left in "starting" by a crash, of the lane or between a failed launch's
\* failJob and its onFailure, is taken up again until it is ready or ended; one left in
\* "draining" by a sweep that never finished is reaped by a later one, and until then
\* every activation is refused.
InstancesSettle ==
    \A g \in Gen : /\ inst[g] = "starting" ~> inst[g] # "starting"
                   /\ inst[g] = "draining" ~> inst[g] # "draining"

\* "Draining and archived are control-plane decisions that a concurrent restart
\* or activation must retain" (deployment-status.ts).  Two writes without a guard
\* are let off: trigger_schedule's "running" over a drain, and the drain route's
\* own write over an archive.
DecisionsRetained ==
    [][/\ dep = "draining" /\ dep' = "running" => At({"trigger"}, "mark")
       /\ dep = "archived" /\ dep' # dep => operator = "drain"]_vars
=============================================================================
