---------------------------- MODULE BuildDeploy -----------------------------
(***************************************************************************)
(* From a request to a Deployment in production, for one git project: the  *)
(* API routes that queue imports and deploys, the import_source and        *)
(* build_deploy handlers with the attempts that run beside each other      *)
(* after a stale recovery, the host ports and the processes on them, and   *)
(* the three pointers of a project: its Deployment, its stable route and   *)
(* its scheduler target.                                                   *)
(*                                                                         *)
(* An action is the code between two awaits that touch this state.  Every  *)
(* attempt of a deploy makes a Deployment of its own, so attempts name     *)
(* Deployments.  Claims, deletion and settlement are JobQueue's business,  *)
(* here a claim is one step; a Deployment's later life is                  *)
(* RuntimeActivation's, weighted routes are Gateway's.                     *)
(***************************************************************************)
EXTENDS Naturals, FiniteSets

CONSTANTS
    MaxRows,        \* bound: jobs ever queued
    MaxTries,       \* bound: attempts ever started
    Ports,          \* EVELAND_DEPLOYMENT_PORT and what follows, in order
    HasSchedules,   \* the source declares schedules
    Requests,       \* what users ask for, see RequestKinds
    MaxMishaps      \* bound: throws, late heartbeats, worker crashes, processes that
                    \* stop listening, promotions by hand

RequestKinds == {"upload", "sync", "deploy", "promote"}

ASSUME BuildDeployAssumption ==
    /\ MaxRows \in Nat /\ MaxTries \in Nat /\ MaxMishaps \in Nat
    /\ Ports \subseteq Nat \ {0} /\ IsFiniteSet(Ports)
    /\ HasSchedules \in BOOLEAN
    /\ Requests \subseteq RequestKinds

JobId == 1..MaxRows
Try == 1..MaxTries
NoId == 0

VARIABLES
    rows,           \* the project's import_source and build_deploy rows
    queued,         \* how many there are
    source,         \* projects.sourceRevisionId: its origin and the job that recorded it
    production,     \* projects.deploymentId
    stable,         \* the target of the project's stable route
    scheduler,      \* the project's scheduler target
    tries,          \* the attempts, as their handlers know themselves
    recorded,       \* the Deployments that have a row
    inFlight,       \* inFlightPorts
    proc,           \* the attempts' processes
    lapsed,         \* history: Deployments whose process has stopped listening
    mishaps

tableVars == <<rows, queued>>
pointers == <<production, stable, scheduler>>
hostVars == <<inFlight, proc, lapsed>>
deployVars == <<tableVars, source, pointers, tries, recorded, hostVars, mishaps>>

NoRevision == [origin |-> "none", by |-> NoId]
\* confirmed: the request said replaceHotfix; drifting: history, it was made in a drift.
NoRow == [kind |-> "none", chain |-> FALSE, promote |-> FALSE, confirmed |-> FALSE,
          drifting |-> FALSE, parent |-> NoId, status |-> "absent", attempt |-> NoId,
          deployment |-> NoId]
\* first: previousDeployment was null; revision: what it builds or has fetched;
\* reserved: the ports it was told of; replaced: history, production before it promoted.
NoTry == [job |-> NoId, at |-> "unborn", first |-> FALSE, revision |-> NoRevision,
          reserved |-> {}, port |-> NoId, replaced |-> NoId]

Row(a) == rows[tries[a].job]
Alive(a) == tries[a].at \notin {"unborn", "over"}
\* The attempt fence of heartbeatJob, replaceJobPayload, completeJob and failJob.
Holds(a) == Row(a).status = "running" /\ Row(a).attempt = a
Mishap == mishaps < MaxMishaps /\ mishaps' = mishaps + 1
Goes(a, place) == tries' = [tries EXCEPT ![a].at = place]

\* A port that was not claimed yet is not let go of either.
Fails(a) ==
    tries' = [tries EXCEPT ![a].at = "failing",
                           ![a].port = IF tries[a].at \in {"scanning", "probing"} THEN NoId
                                       ELSE @]

\* What is left of an attempt: its Deployment, or the port its process may have.
Ended(a) == IF a \in recorded THEN [tries[a] EXCEPT !.at = "over"]
            ELSE [NoTry EXCEPT !.job = tries[a].job, !.port = tries[a].port, !.at = "over"]

-----------------------------------------------------------------------------
(***************************************************************************)
(* The API                                                                 *)
(***************************************************************************)
\* getProjectHotfixDrift
Drift == production # NoId /\ tries[production].revision.origin = "upload"

InsertJob(row) ==
    /\ queued < MaxRows
    /\ queued' = queued + 1
    /\ rows' = [rows EXCEPT ![queued + 1] = row]

Asked(kind, chain, promote, confirmed) ==
    [NoRow EXCEPT !.kind = kind, !.chain = chain, !.promote = promote,
                  !.confirmed = confirmed, !.drifting = Drift, !.status = "queued"]

\* POST sync-source with an archive; any project takes one.
UploadSource(chain, promote) ==
    /\ promote => chain
    /\ InsertJob(Asked("upload", chain, promote, FALSE))
    /\ UNCHANGED <<source, pointers, tries, recorded, hostVars, mishaps>>

\* POST sync-source: promoting what comes from git wants replaceHotfix in a drift.
SyncSource(chain, promote, replaceHotfix) ==
    /\ promote => chain
    /\ promote /\ ~replaceHotfix => ~Drift
    /\ InsertJob(Asked("sync", chain, promote, replaceHotfix))
    /\ UNCHANGED <<source, pointers, tries, recorded, hostVars, mishaps>>

\* POST build-deploy: so does promoting a current revision that came from git.
RequestDeploy(promote, replaceHotfix) ==
    /\ promote /\ ~replaceHotfix => ~ (Drift /\ source.origin = "git-sync")
    /\ InsertJob(Asked("deploy", FALSE, promote, replaceHotfix))
    /\ UNCHANGED <<source, pointers, tries, recorded, hostVars, mishaps>>

\* promoteDeployment: one transaction moves the three.
MovePointers(d) ==
    /\ stable # NoId
    /\ production' = d /\ stable' = d /\ scheduler' = d

\* POST promote, a rollback included.
PromoteDeployment(d) ==
    /\ d \in recorded
    /\ Mishap
    /\ MovePointers(d)
    /\ UNCHANGED <<tableVars, source, tries, recorded, hostVars>>

\* reconcileAgentRoutes, when the API starts.
ReconcileAgentRoutes ==
    /\ production # NoId /\ stable = NoId
    /\ stable' = production
    /\ UNCHANGED <<tableVars, source, production, scheduler, tries, recorded, hostVars, mishaps>>

-----------------------------------------------------------------------------
(***************************************************************************)
(* Attempts                                                                *)
(***************************************************************************)
\* claimNextJob: the oldest queued row, one of the two types at a time per project; while
\* the builds of other projects use up the heavy cap, an import is claimed before older
\* deploys.
Overtakes(j, i) == rows[j].kind # "deploy" /\ rows[i].kind = "deploy"

Claim(j, a) ==
    /\ rows[j].status = "queued"
    /\ \A i \in JobId :
          /\ rows[i].status # "running"
          /\ i < j /\ rows[i].status = "queued" => Overtakes(j, i)
    /\ tries[a] = NoTry /\ (a > 1 => tries[a - 1] # NoTry)
    /\ rows' = [rows EXCEPT ![j].status = "running", ![j].attempt = a]
    /\ tries' = [tries EXCEPT ![a].job = j,
                              ![a].at = IF rows[j].kind = "deploy" THEN "preparing"
                                        ELSE "fetching"]
    /\ UNCHANGED <<queued, source, pointers, recorded, hostVars, mishaps>>

\* recoverStaleJobs: the attempt is gone, or its heartbeats were late.
RecoverStaleJob(j) ==
    /\ rows[j].status = "running"
    /\ IF Alive(rows[j].attempt) THEN Mishap ELSE UNCHANGED mishaps
    /\ rows' = [rows EXCEPT ![j].status = "queued"]
    /\ UNCHANGED <<queued, source, pointers, tries, recorded, hostVars>>

\* runWithJobHeartbeat: a refused heartbeat raises the signal, which a handler looks at
\* before these steps; it may have been refused by then, or not yet.
Checkpoints == {"fetching", "revising", "chaining", "building", "starting", "recording",
                "targeting", "promoting"}

ThrowIfAborted(a) ==
    /\ tries[a].at \in Checkpoints /\ ~Holds(a)
    /\ Goes(a, "failing")
    /\ UNCHANGED <<tableVars, source, pointers, recorded, hostVars, mishaps>>

\* Any other call of a handler throws: the source cannot be fetched or scanned, the
\* dispatcher is not ready, the build or the model validation fails, a statement fails.
HandlerThrows(a) ==
    /\ Alive(a) /\ tries[a].at # "failing"
    /\ Mishap
    /\ Fails(a)
    /\ UNCHANGED <<tableVars, source, pointers, recorded, hostVars>>

\* The worker dies: its processes stay.
WorkerDies ==
    /\ \E a \in Try : Alive(a)
    /\ Mishap
    /\ tries' = [a \in Try |-> IF Alive(a) THEN Ended(a) ELSE tries[a]]
    /\ inFlight' = {}
    /\ UNCHANGED <<tableVars, source, pointers, recorded, proc, lapsed>>

\* The handler's finally lets go of its port, then completeJob.
CompleteJob(a) ==
    /\ tries[a].at = "settling"
    /\ rows' = IF Holds(a) THEN [rows EXCEPT ![tries[a].job].status = "completed"] ELSE rows
    /\ inFlight' = inFlight \ {tries[a].port}
    /\ tries' = [tries EXCEPT ![a] = Ended(a)]
    /\ UNCHANGED <<queued, source, pointers, recorded, proc, lapsed, mishaps>>

-----------------------------------------------------------------------------
(***************************************************************************)
(* handleImportSourceJob                                                   *)
(***************************************************************************)
\* materializeGitSource, or the uploaded tree, and the scan.
FetchSource(a) ==
    /\ tries[a].at = "fetching"
    /\ tries' = [tries EXCEPT ![a].revision =
                    [origin |-> IF Row(a).kind = "sync" THEN "git-sync" ELSE "upload",
                     by |-> tries[a].job],
                    ![a].at = "revising"]
    /\ UNCHANGED <<tableVars, source, pointers, recorded, hostVars, mishaps>>

\* recordSourceRevision repoints the project.
RecordSourceRevision(a) ==
    /\ tries[a].at = "revising"
    /\ source' = tries[a].revision
    /\ Goes(a, IF Row(a).chain THEN "chaining" ELSE "settling")
    /\ UNCHANGED <<tableVars, pointers, recorded, hostVars, mishaps>>

\* deployAfterImport
EnqueueDeploy(a) ==
    /\ tries[a].at = "chaining"
    /\ InsertJob([Asked("deploy", FALSE, Row(a).promote, Row(a).confirmed)
                   EXCEPT !.parent = tries[a].job])
    /\ Goes(a, "settling")
    /\ UNCHANGED <<source, pointers, recorded, hostVars, mishaps>>

-----------------------------------------------------------------------------
(***************************************************************************)
(* handleBuildDeployJob                                                    *)
(***************************************************************************)
\* It takes the project's current revision and notes whether it has a Deployment.
PrepareDeploy(a) ==
    /\ tries[a].at = "preparing"
    /\ IF source = NoRevision THEN Goes(a, "failing")
       ELSE tries' = [tries EXCEPT ![a].revision = source, ![a].first = (production = NoId),
                                   ![a].at = "building"]
    /\ UNCHANGED <<tableVars, source, pointers, recorded, hostVars, mishaps>>

\* buildRelease, the model validation and recordScheduleVersions (SchedulePlanner), then
\* listReservedDeploymentHostPorts.
BuildRelease(a) ==
    /\ tries[a].at = "building"
    /\ tries' = [tries EXCEPT ![a].reserved = {tries[d].port : d \in recorded},
                              ![a].at = "scanning"]
    /\ UNCHANGED <<tableVars, source, pointers, recorded, hostVars, mishaps>>

\* allocateAvailableHostPort: the next port that is neither reserved nor in flight is
\* probed; with none left the attempt fails.
Holder(p) == {d \in Try : proc[d] = "listening" /\ tries[d].port = p}

ScanPorts(a) ==
    LET left == {p \in Ports : p > tries[a].port /\ p \notin tries[a].reserved \cup inFlight}
        next == CHOOSE p \in left : \A q \in left : p <= q
    IN  /\ tries[a].at = "scanning"
        /\ IF left = {} THEN Fails(a)
           ELSE tries' = [tries EXCEPT ![a].port = next, ![a].at = "probing"]
        /\ UNCHANGED <<tableVars, source, pointers, recorded, hostVars, mishaps>>

\* isTcpPortAvailable; a probe of another attempt may be in the way for a moment.
ProbePort(a, free) ==
    LET p == tries[a].port
        probed == \E b \in Try \ {a} : tries[b].at = "probing" /\ tries[b].port = p
    IN  /\ tries[a].at = "probing"
        /\ IF free THEN Holder(p) = {} ELSE Holder(p) # {} \/ probed
        /\ tries' = IF free THEN [tries EXCEPT ![a].reserved = {}, ![a].at = "starting"]
                    ELSE [tries EXCEPT ![a].at = "scanning"]
        /\ inFlight' = IF free THEN inFlight \cup {p} ELSE inFlight
        /\ UNCHANGED <<tableVars, source, pointers, recorded, proc, lapsed, mishaps>>

StartProcess(a) ==
    /\ tries[a].at = "starting"
    /\ proc' = [proc EXCEPT ![a] = "started"]
    /\ Goes(a, "owning")
    /\ UNCHANGED <<tableVars, source, pointers, recorded, inFlight, lapsed, mishaps>>

\* waitForOwnedHttpHealth: verifyPortOwnership fails on a foreign holder and, at the
\* deadline, on an unbound port ...
VerifyPortOwnership_answersOnly(a) ==
    /\ tries[a].at = "owning"
    /\ Goes(a, IF Holder(tries[a].port) # {} THEN "answering" ELSE "failing")
    /\ UNCHANGED <<tableVars, source, pointers, recorded, hostVars, mishaps>>

VerifyPortOwnership(a) ==
    /\ tries[a].at = "owning"
    /\ Goes(a, IF a \in Holder(tries[a].port) THEN "answering" ELSE "failing")
    /\ UNCHANGED <<tableVars, source, pointers, recorded, hostVars, mishaps>>

\* ... and then any answer over HTTP will do.
WaitForHttpHealth(a) ==
    /\ tries[a].at = "answering"
    /\ Goes(a, IF Holder(tries[a].port) # {} THEN "recording" ELSE "failing")
    /\ UNCHANGED <<tableVars, source, pointers, recorded, hostVars, mishaps>>

\* recordDeployment: the first one becomes the project's Deployment.
RecordDeployment(a) ==
    /\ tries[a].at = "recording"
    /\ recorded' = recorded \cup {a}
    /\ production' = IF production = NoId THEN a ELSE production
    /\ Goes(a, "naming")
    /\ UNCHANGED <<tableVars, source, stable, scheduler, hostVars, mishaps>>

\* replaceJobPayload, fenced
ReplaceJobPayload_unfenced(a) ==
    /\ tries[a].at = "naming"
    /\ rows' = [rows EXCEPT ![tries[a].job].deployment = a]
    /\ Goes(a, "targeting")
    /\ UNCHANGED <<queued, source, pointers, recorded, hostVars, mishaps>>

ReplaceJobPayload(a) ==
    /\ tries[a].at = "naming"
    /\ rows' = IF Holds(a) THEN [rows EXCEPT ![tries[a].job].deployment = a] ELSE rows
    /\ Goes(a, "targeting")
    /\ UNCHANGED <<queued, source, pointers, recorded, hostVars, mishaps>>

\* setProjectSchedulerTarget for a first Deployment with schedules.
TargetSchedules(a) ==
    /\ tries[a].at = "targeting"
    /\ scheduler' = IF tries[a].first /\ HasSchedules THEN a ELSE scheduler
    /\ Goes(a, "routing")
    /\ UNCHANGED <<tableVars, source, production, stable, recorded, hostVars, mishaps>>

\* ensureDeploymentRoutes: the stable route keeps the target it has.
EnsureDeploymentRoutes_retargets(a) ==
    /\ tries[a].at = "routing"
    /\ stable' = a
    /\ Goes(a, IF Row(a).promote THEN "promoting" ELSE "settling")
    /\ UNCHANGED <<tableVars, source, production, scheduler, recorded, hostVars, mishaps>>

EnsureDeploymentRoutes(a) ==
    /\ tries[a].at = "routing"
    /\ stable' = IF stable = NoId THEN a ELSE stable
    /\ Goes(a, IF Row(a).promote THEN "promoting" ELSE "settling")
    /\ UNCHANGED <<tableVars, source, production, scheduler, recorded, hostVars, mishaps>>

PromoteAfterDeploy(a) ==
    /\ tries[a].at = "promoting"
    /\ MovePointers(a)
    /\ tries' = [tries EXCEPT ![a].replaced = production, ![a].at = "settling"]
    /\ UNCHANGED <<tableVars, source, recorded, hostVars, mishaps>>

\* stopStartedProcessOnFailure, whose own failure is only logged.
StopStartedProcess(a, stops) ==
    /\ IF stops THEN UNCHANGED mishaps ELSE Mishap /\ proc[a] # "none"
    /\ proc' = IF stops THEN [proc EXCEPT ![a] = "none"] ELSE proc
    /\ lapsed' = IF stops /\ proc[a] = "listening" THEN lapsed \cup {a} ELSE lapsed

\* The catch: what was started is stopped and the port is let go; then failJob, whose hook
\* writes projects.status, which decides nothing.
FailJob(a, stops) ==
    /\ tries[a].at = "failing"
    /\ StopStartedProcess(a, stops)
    /\ inFlight' = inFlight \ {tries[a].port}
    /\ rows' = IF Holds(a) THEN [rows EXCEPT ![tries[a].job].status = "failed"] ELSE rows
    /\ tries' = [tries EXCEPT ![a] = Ended(a)]
    /\ UNCHANGED <<queued, source, pointers, recorded>>

-----------------------------------------------------------------------------
(***************************************************************************)
(* External: the processes                                                 *)
(***************************************************************************)
\* A unit that finds its port taken is restarted until it gets it.
ProcessBinds(a) ==
    /\ proc[a] = "started" /\ Holder(tries[a].port) = {}
    /\ proc' = [proc EXCEPT ![a] = "listening"]
    /\ UNCHANGED <<tableVars, source, pointers, tries, recorded, inFlight, lapsed, mishaps>>

\* A process exits and is restarted, or is stopped when its Deployment falls idle.
ProcessLapses(a, as) ==
    /\ proc[a] = "listening"
    /\ Mishap
    /\ proc' = [proc EXCEPT ![a] = as]
    /\ lapsed' = lapsed \cup {a}
    /\ UNCHANGED <<tableVars, source, pointers, tries, recorded, inFlight>>

\* reapOrphanProcesses: no Deployment row owns it.
ReapOrphan(a) ==
    /\ proc[a] # "none" /\ a \notin recorded /\ tries[a].at = "over"
    /\ proc' = [proc EXCEPT ![a] = "none"]
    /\ UNCHANGED <<tableVars, source, pointers, tries, recorded, inFlight, lapsed, mishaps>>

-----------------------------------------------------------------------------
\* A new project, or one that has been imported.
DeployInit ==
    /\ rows = [j \in JobId |-> NoRow] /\ queued = 0
    /\ source \in {NoRevision, [origin |-> "git-sync", by |-> NoId]}
    /\ production = NoId /\ stable = NoId /\ scheduler = NoId
    /\ tries = [a \in Try |-> NoTry]
    /\ recorded = {} /\ inFlight = {} /\ lapsed = {}
    /\ proc = [a \in Try |-> "none"]
    /\ mishaps = 0

RequestArrives ==
    \E promote, confirmed \in BOOLEAN :
      /\ confirmed => promote
      /\ \/ "deploy" \in Requests /\ RequestDeploy(promote, confirmed)
         \/ \E chain \in BOOLEAN :
               \/ "upload" \in Requests /\ ~confirmed /\ UploadSource(chain, promote)
               \/ "sync" \in Requests /\ SyncSource(chain, promote, confirmed)

ImportStep(a) == FetchSource(a) \/ RecordSourceRevision(a) \/ EnqueueDeploy(a)
DeployStep(a) ==
    \/ PrepareDeploy(a) \/ BuildRelease(a) \/ ScanPorts(a)
    \/ \E free \in BOOLEAN : ProbePort(a, free)
    \/ StartProcess(a) \/ VerifyPortOwnership(a) \/ WaitForHttpHealth(a)
    \/ RecordDeployment(a) \/ ReplaceJobPayload(a) \/ TargetSchedules(a)
    \/ EnsureDeploymentRoutes(a) \/ PromoteAfterDeploy(a)
ProcessStep(a) ==
    \/ ProcessBinds(a) \/ ReapOrphan(a)
    \/ \E as \in {"started", "none"} : ProcessLapses(a, as)

DeployNext ==
    \/ RequestArrives \/ ReconcileAgentRoutes \/ WorkerDies
    \/ \E j \in JobId : RecoverStaleJob(j) \/ \E a \in Try : Claim(j, a)
    \/ \E a \in Try :
          \/ ThrowIfAborted(a) \/ HandlerThrows(a)
          \/ CompleteJob(a) \/ \E stops \in BOOLEAN : FailJob(a, stops)
          \/ ImportStep(a) \/ DeployStep(a) \/ ProcessStep(a)
          \/ "promote" \in Requests /\ PromoteDeployment(a)

DeploySpec == DeployInit /\ [][DeployNext]_deployVars

-----------------------------------------------------------------------------
(***************************************************************************)
(* Properties                                                              *)
(***************************************************************************)
\* The rows, attempts, pointers, ports and processes have the shape their tables and
\* handlers give them; a pointer names a recorded Deployment.
DeployTypeOK ==
    /\ queued \in 0..MaxRows /\ mishaps \in 0..MaxMishaps
    /\ rows \in [JobId ->
          [kind: {"none", "upload", "sync", "deploy"}, chain: BOOLEAN, promote: BOOLEAN,
           confirmed: BOOLEAN, drifting: BOOLEAN, parent: JobId \cup {NoId},
           status: {"absent", "queued", "running", "completed", "failed"},
           attempt: Try \cup {NoId}, deployment: recorded \cup {NoId}]]
    /\ source.origin \in {"none", "git-sync", "upload"} /\ source.by \in JobId \cup {NoId}
    /\ {production, stable, scheduler} \subseteq recorded \cup {NoId}
    /\ \A a \in Try : /\ tries[a].port \in Ports \cup {NoId}
                      /\ tries[a].at = "unborn" <=> tries[a].job = NoId
    /\ recorded \subseteq Try /\ lapsed \subseteq Try /\ inFlight \subseteq Ports
    /\ proc \in [Try -> {"none", "started", "listening"}]

\* "Only an owned socket may go on to prove itself over HTTP"
\* (waitForOwnedHttpHealth): the in-flight set lets two attempts find the same port
\* free, yet no Deployment is recorded on a port another one is listening on, unless
\* one of the two has stopped listening since.
NoForeignTraffic ==
    \A d, e \in recorded :
        d # e /\ tries[d].port = tries[e].port => {d, e} \cap lapsed # {}

TriedTwice(j) == \E a, b \in Try : a # b /\ tries[a].job = j /\ tries[b].job = j

\* "The CLI reports the deployment its own build job produced" (reference/cli.md): a
\* completed deploy names the Deployment of the attempt that completed it, although an
\* attempt that was given up for dead may record another one and name it late.  What it
\* built is no older than the import that asked for it, unless an older import was
\* attempted twice.
JobDelivers ==
    \A j \in JobId : rows[j].kind = "deploy" /\ rows[j].status = "completed" =>
        /\ rows[j].deployment = rows[j].attempt
        /\ rows[j].deployment \in recorded
        /\ \/ tries[rows[j].deployment].revision.by >= rows[j].parent
           \/ \E i \in JobId : i < rows[j].parent /\ TriedTwice(i)

\* A project's three pointers name one Deployment once its first deploy has completed,
\* whatever later deploys, promotions and crashes do, if no job up to that one was tried
\* twice: "old and new versions must be able to run concurrently until an explicit
\* promote/drain decision is made" (handleBuildDeployJob).
FirstDeploys == {d \in recorded : tries[d].first}
Undisturbed(d) == Row(d).status = "completed" /\ \A j \in 1..tries[d].job : ~TriedTwice(j)
PointersAgree ==
    (\E d \in FirstDeploys : FirstDeploys = {d} /\ Undisturbed(d))
        => stable = production /\ (HasSchedules => scheduler = production)

\* "While in drift, promoting a revision that came from git retires the hotfix, so [it]
\* requires an explicit confirmation" (agents/releases-routing.md): a deploy asked for in
\* a drift replaces an upload in production by a revision from git only if its request
\* said replaceHotfix.
HotfixKept ==
    \A a \in Try :
        /\ tries[a].replaced # NoId /\ Row(a).drifting
        /\ tries[tries[a].replaced].revision.origin = "upload"
        /\ tries[a].revision.origin = "git-sync"
        => Row(a).confirmed
=============================================================================
