# eveland: TLA+ models and proofs

eveland builds Agents from source, runs each release as a *Deployment* (a
process or container on the host), wakes it on demand, routes requests and
schedules to it, and lets it sleep again. Almost everything that is hard to get
right sits between processes that share one Postgres database: the API, the
gateway, the worker with its pump loops and its periodic tick, and the schedule
planner. Handlers keep what they read across awaits, jobs outlive their worker,
and the sweeps act on rows that somebody else is moving.

This directory models that core, checks it with TLC on small instances and
proves the most important invariants with TLAPS for every value of the
constants. Paths below are relative to the repository root (`src/` here).

- [Inventory](#inventory)
- [Modules and how they correspond to the code](#modules-and-how-they-correspond-to-the-code)
- [Runs](#runs)
- [Bounds, and why they are enough](#bounds-and-why-they-are-enough)
- [Fairness](#fairness)
- [Proofs](#proofs)
- [Where the code and its documents disagree](#where-the-code-and-its-documents-disagree)
- [What is only model-checked, and what is not modelled](#what-is-only-model-checked-and-what-is-not-modelled)
- [Plan](#plan)

## Inventory

| Component | State it keeps | Operations | Talks to | What is hard, and what makes it correct |
|---|---|---|---|---|
| Job queue (`packages/db/src/postgres-job-source-store.ts`, `postgres-project-store.ts`, `packages/core/src/jobs.ts`, `apps/worker/src/jobs/process.ts`) | `jobs` rows: status, payload, `attempts` (the fence), `locked_at` | enqueue, claim (snapshot, then commit), heartbeat, complete, fail, quarantine, stale recovery, deletion request | API and planner insert, the pump claims | Snapshot claims, executions that outlive their lease, crashes between two statements. Conflicting jobs never run together; a superseded execution can change no row; every attempt and every deletion ends |
| Job pump (`apps/worker/src/runtime/job-pump.ts`) | wake version, claim chain, loops, stop flag | claim, run, sleep, wake, stop | queue (claims), LISTEN/NOTIFY (wakes) | A wake in the window between an empty claim and sleep; a throwing claim. Claims are single-file, no wake is slept through, stop ends |
| Runtime lifecycle (`apps/worker/src/runtime/activation-manager.ts`, `idle-reaper.ts`, `apps/worker/src/jobs/runtime-jobs/*`, `packages/db/src/postgres-runtime-store.ts`) | `deployments.status`, `runtime_instances`, `activation_leases`, the host process | activate, ensure, restart, archive, trigger, recover, reap, reconcile | everything below | Seven actors write the same three rows. One starter at a time; no job revives an archived Deployment; a granted request keeps its process; interrupted starts and drains settle |
| Orphan and release sweeps (`apps/worker/src/runtime/orphan-reaper.ts`, `apps/worker/src/runtime/release-reaper.ts`) | none of their own | adopt, stop, enqueue archives | runtime lifecycle | Acting on stale reads |
| Deployment routing store (`packages/db/src/postgres-deployment-routing-store.ts`) | Deployment rows, aliases, weighted targets, session and operation bindings | record, promote, weights, bind | API, gateway, archive retention | A route committed beside an archive; one operation key, one Deployment |
| Runtime adapters (`apps/worker/src/runtime/`) | processes, ports, networks | ensure, stop, health | lifecycle | A port found free is not reserved |
| Schedules (`packages/db/src/postgres-schedule-store.ts`, `apps/worker/src/scheduler/planner.ts`, `apps/worker/src/jobs/runtime-jobs/trigger-schedule.ts`, the Scheduler Channel, `packages/db/src/postgres-observability-store.ts`) | `project_schedules` with `next_run_at`, versions, targets, `schedule_runs` and their executions | plan due ticks, prewarm, retarget, run by hand; claim, dispatch, redeem, complete, ingest, expire | queue, lifecycle, Agent | A tick planned twice or lost when the target moves; a dispatch redeemed twice; a late completion; two Sessions ending at once. One run per tick, handlers run once, a settled run stays as it is |
| Agent Gateway (`apps/gateway`) | route cache, requests in flight, their leases | resolve, bind, activate, proxy, release | routing store, API | Stale cache, create-once requests, archives beside requests. One Deployment per operation key, a Session stays where it was created, a lease seen by the archive keeps its Deployment, every lease is let go of |
| Workflow dispatcher (`apps/workflow-dispatcher`, `apps/worker/src/runtime/workflow-run-reconciler.ts`) | ownership lock, registrations, deliveries, dead letters | own, recover at boot, register, deliver, quarantine; reconcile | API, worker, the World | Ownership lost under a delivery, a predecessor's late heartbeat, runs that no delivery can resume. No run is stranded by a restart; only doomed runs are failed |
| Identity and Agent auth (`packages/agent-auth`, `packages/db/src/postgres-agent-auth-store.ts`) | connections with a security revision, credential rows with `rotation_seq` and a refresh lease | login, late verification, refresh, recovery from 401, deletion | API, identity provider | Two processes refresh one rotating token; a login beside a refresh. One presentation of a token at a time, the row's token is one the provider honours, the latest login wins |
| Source import, build and deploy (`apps/api/src/app-project-lifecycle-routes.ts`, `apps/worker/src/jobs/process-import-source.ts`, `process-build-deploy.ts`, `apps/worker/src/runtime/ports.ts`) | the project's revision, Deployment, stable route and scheduler target; ports in flight; processes | request, import, build, find a port, start, check, record, name, route, promote, clean up | queue, routing store, runtime adapter | An attempt given up for dead goes on beside its successor, a port is found before it is claimed, the first Deployment is installed in several statements, a request is judged before its job runs. No Deployment is recorded on another's port, a job names what it delivered, the three pointers agree |
| Sessions and observability | read models of telemetry | project, settle, follow logs | worker | late and repeated telemetry; its part in settling schedule runs is in `ScheduleRuns` |
| Operator tooling (`packages/ctl`) | none of its own | resolve dead letters, end the owner's lock session, install, update | dispatcher | its two database operations are in `WorkflowDispatch` |
| Platform API, identity broker, dashboard, published package | accounts, tokens, configuration | validation, authorisation, UI | all | not concurrent in an interesting way, or external |

`PROJECT.json` lists the components with their status and, under `hazards`, each
place where the code is hard to test, with the property that would catch it.

### How the parts interact

    API / planner --INSERT--> jobs --NOTIFY--> pump --claim--> handler --+
         |                                                               |
         +--lease--> runtime_instances, deployments <--status writes-----+
         |                    ^        ^                                 |
      Gateway        worker tick     operator                   runtime adapter
     (routes,  (recover, reap, reconcile,  (drain, promote,     (process, port)
      bindings)      orphan sweep)      restart, archive)                |
         |                                                               v
         +---------- requests, dispatches, deliveries ------------->   Agent
                     (Gateway, trigger_schedule, workflow dispatcher)    |
         schedule_runs, sessions, workflow runs <---- events, OTLP ------+

The database is the only shared memory. A transaction or statement is atomic;
between two of them anything may happen.

## Modules and how they correspond to the code

| Module | Role |
|---|---|
| `JobQueue` | the `jobs` table and its executions |
| `JobLocks` | abstract specification: scope locks granted atomically; `JobQueue` implements it |
| `JobPump` | the loops of one worker pool at the granularity of awaits |
| `RuntimeActivation` | one Deployment, its instances, leases, process, jobs and sweeps |
| `BuildDeploy` | one git Project: requests, import and deploy attempts, ports, pointers |
| `SchedulePlanner` | one Project's schedules: targets, versions, next run, due ticks |
| `ScheduleRuns` | one ScheduleRun from its job to its verdict |
| `Gateway` | one hostname: cache, requests, bindings, policy, archive |
| `WorkflowDispatch` | dispatcher processes, workflow runs, the reconciler |
| `AgentAuth` | one OIDC credential shared by API processes |
| `JobQueueProofs`, `JobPumpProofs`, `RuntimeActivationProofs`, `BuildDeployProofs`, `GatewayProofs`, `WorkflowDispatchProofs`, `AgentAuthProofs` | theorems about the module of that name |
| `ScheduleProofs` | theorems about `SchedulePlanner` and `ScheduleRuns` |
| `MCJobQueue`, `MCRuntimeActivation`, `MCGateway` | instances of one module for TLC |
| `MCJobs` | the queue, twice with different bounds, and `BuildDeploy` side by side |
| `MCSchedules` | planner and run side by side |
| `MCPlatform` | dispatcher and Agent auth side by side |
| `MCWaits` | the pump and the requests that wait for a token's refresh |
| `MCLiveness` | what must eventually happen in the four modules from `SchedulePlanner` to `WorkflowDispatch` |

`MCJobs`, `MCSchedules`, `MCPlatform`, `MCWaits` and `MCLiveness` put components that share no row
into one run: a variable chosen in the initial state says which of them moves, so
the state space is the sum of theirs and not the product.

Each definition that models code has its file and lines in the `map` of
`PROJECT.json`. Names ending in `_something` beside a definition
(`ClaimChainFree_parallel`) are mutants: plausible bugs that no specification uses,
kept to show that a property would notice them.

### JobQueue

`status`, `spec`, `attempts`, `lease` are columns of `jobs`; `deletion` is
`projects.deletion_status`; `phase`, `cur`, `held`, `aborted` are the local state
of a worker loop. `claimNextJob` is two actions, because its sub-select reads a
snapshot and its UPDATE commits later: `SelectCandidate` evaluates `Eligible`
(the exclusion predicate `Conflict`, the build cap, the deletion filter, the
claim order) and `CommitClaim` sets `running` and increments `attempts`.
`completeJob`, `failJob` and `heartbeatJob` are fenced by `Fence`, the
`(id, running, attempts)` condition of their UPDATE; a failed heartbeat aborts
the execution, which goes on until it notices. `failJob` and the failure hook
(`settleJobFailure`) are two actions, as they are two statements.
`requestProjectDeletion` deletes queued rows and inserts the deletion job in one
transaction.

Abstracted: time to `lease = "stale"`; the payload to what exclusion reads; the
result of a handler to success or failure. Stale recovery is one action for all
stale rows, as the UPDATE is.

### JobPump

An action is the synchronous code between two awaits of `startJobPump`. The
queue behind `claim` is external: a snapshot, then a promise that settles or
throws. `claimChain` is the promise chain of `claimSerialized`; `wakeVersion` and
`seen` are the version counter and the value noted before the claim. `stop`,
`Notify` and re-subscription are actions of the environment. `JobQueue` takes
from it that one claim is in flight at a time (`ClaimChainFree`); here that is
the invariant `SingleFile`, proved for any number of loops.

### RuntimeActivation

One Deployment. An action is one transaction or statement, or one adapter call,
with the code up to it, so every await is a point of interleaving. The actors:

- *requests* (`Request...`): the activation route. Read the status, take a lease
  (join or create an instance), enqueue the ensure job, wait, be granted, release.
  The planner's prewarms are requests that never wait. A request may die anywhere
  and leave its lease, which then expires.
- *the lane* (`Ensure...`, `Trigger...`, `Restart...`, `Archive...`, `Start...`):
  the one Deployment-scoped job that the queue admits. That there is one is
  `JobQueue!ScopeExclusion`; a crash puts the job back (a schedule run is not
  taken up again, its handler refuses a run already claimed).
- *the reaper* (`Reaper...`): claim the idle instances, then for each check
  leases and sessions again, re-read, stop the process, report.
- *recovery, reconciler, orphan sweep*, and *the operator* (drain, promote,
  route weights, restart, archive).

A job that fails is two statements, `failJob`, which frees the lane, and the job
family's `onFailure` (`job-registry.ts:62-75`, `process.ts:68-71`). For an ensure job
the second marks its instance `failed` whatever it has become since: `hooks` are the
failures whose hook is still to run, `FailureHook` runs one, a crash of the worker
forgets them. `overruled` is history: a hook has failed an instance that a sweep was
draining.

Abstractions, all towards more behaviour unless said otherwise:

- sessions, workflow runs and the recency window that protect a Deployment are a
  nondeterministic refusal of retention and of the reaper;
- ports are any free one, since the preferred port may have a foreign holder;
- the order in which jobs are claimed is any order;
- timeouts, idle TTLs and grace periods may pass at any time;
- adjacent writes of one failure path, the retire loop of a restart and the reads
  of the retention check are one action each;
- the claim of idle instances is atomic: it locks the rows and checks the leases
  again under the lock;
- *less behaviour*: database statements do not fail, so best-effort `catch`
  blocks around them are not exercised; a lease expires only on a holder that is
  gone, because live holders renew; the release is launchable.

`Ops` and `MaxOps` choose which operations and faults a run mixes and how many of
them happen; everything else (requests, sweeps, jobs) is unrestricted.

### BuildDeploy

One git project. `rows` are its `import_source` and `build_deploy` jobs, `source` the
current revision, and `production`, `stable`, `scheduler` the three pointers that say
what is in production: `projects.deploymentId`, the target of the stable route, the
scheduler target. `tries` are the executions of the two handlers, as many as claims:
an execution recovered as stale goes on beside its successor until it looks at its
signal (`ThrowIfAborted`, possible at every `throwIfAborted` once the row is lost,
certain at none). Every attempt makes its own Deployment, so attempts name
Deployments. An action is the code between two awaits that touch this state: the
search for a port is `ScanPorts` (reserved ports as read before, `inFlight` as it
is) and `ProbePort` (the TCP probe, an await, after which the port is claimed).
`Holder` is the process that listens. `FailJob` is the handler's catch and finally,
then `failJob`.

Abstracted: a build, its validation and the fetching of a source are steps that may
throw; of a revision, where it came from and which import recorded it; the claim is
one step, as deletion and the claim chain are `JobQueue`'s; the life of a recorded
Deployment is `RuntimeActivation`'s, except that its process may stop listening.
The claim takes the oldest queued row, except that builds of other projects may use
up the heavy cap, and then an import is claimed before older deploys (`Overtakes`).
`confirmed` (the request said `replaceHotfix`) and `drifting` are history: the job's
payload carries neither.

### SchedulePlanner

An action is one transaction: `PlanDueSchedules` (`claimDueScheduleRuns` with the
batch it locks, the runs it inserts and the next run it computes), the prewarm
pass, a run by hand, and a retarget. `setProjectSchedulerTarget` and
`promoteDeployment` fix their `now` before their transaction gets the row locks,
so a retarget is opened by one action and applied by another;
`LateRetarget = FALSE` is the case in which no planner pass commits in between.
A cron expression is the set of instants it matches, so `getNextRunAt` and
`calculateScheduleAdvance` are computed, not assumed. The Project is not disabled
and its schedules are not edited other than through a new Deployment's versions.

### ScheduleRuns

One run. Its row (`runStatus`, `attempt`, `execution`) is written by the worker
that executes its `trigger_schedule` job (and by a second execution after a
crash), by the API's redeem and complete routes, by ingest, by expiry and by the
reconciler that finds an instance gone. `channel` is the Scheduler Channel in the
Agent: it redeems the dispatch, runs the handler, which starts Sessions, and
answers; answers get lost. Ingest is two actions, because its transaction reads
the executions of other Sessions that are not committed yet: it holds the
Session's row, and the Project's when it projects a status, which is what makes
the last of two Sessions see the first. Expiry and the reconciler's two ways to fail
a run are two actions each, as their transactions select the running executions and
then update them: `selected` is what one has read, `FailsSelected` its updates, and an
ingest may commit in between. Waiting for the instance is
`RuntimeActivation`'s (`TriggerAcquires` to `TriggerPolls`); here the activation
succeeds or fails.

### Gateway

One hostname with its route, of one or two Deployments. A request is a record
that walks from `binding` to `streaming`; an action is the code between two
awaits. `cache` is what the route cache would return, so an entry past its TTL
is no entry; a lookup stores what it read even after an invalidation.
`bindOperation` and `bindSession` are the durable statements. `promoteDeployment`
and `getDeploymentRetention` are split into their queries, since neither locks
what it reads. A granted lease has a running process: starting and losing it is
`RuntimeActivation`'s. `home` is history, the Deployments asked to create a
Session; `late` and `overtaken` mark the two races the code leaves open.

### WorkflowDispatch

`inst` is a dispatcher process: it waits for the ownership lock, lists recovery
candidates, filters them through the API's preflight (which fails open), serves,
and reports `stopped` last. `owner` is the database session that holds the lock,
and outlives a crashed host for a while. `rows` and `newest` are the
registrations: the Control API activates a delivery only for the instance with
the newest heartbeat. The World (queue, lock, dead letters) is an external
package, modelled from its use. The reconciler's sweep lists, reads retention and
settles in separate steps. `hostStatus` moves as the lifecycle moves it, and
whatever keeps a Deployment besides its runs is one fact, `reach`. An archive is the
route's retention check (`ArchiveEnqueued`), the handler's claim of whatever it finds
then (`ArchiveJobClaims`), its recheck, and its end. The drain route writes `draining`
over any status (`DrainPosted`), an archive's claim and its result included. A process
reads the World's identity once, at boot; when that fails (`IdentityUnread`,
`anonymous`) none of its heartbeats satisfies `DispatcherReady`. `reverted`, `reopened`
and `skipped` are history: the Deployments whose archive claim was handed back, those
drained while archiving or archived, and the runs that a dead letter kept out of the
latest boot's listing.

### AgentAuth

`credential` holds the rows by security revision: `rotation_seq`, the token, the
lease of a refresh. `call` is a Playground request, which reads, perhaps verifies
a pending credential, perhaps refreshes, calls the Agent, and recovers from one
401. `refresh` are the in-process flights that callers of one process join;
across processes the row's lease decides, and losers poll
(`waitForRefreshWinner`). The provider rotates refresh tokens, so presenting one
retires it; if its answer is then lost or its new token rejected, the row keeps the
retired one (`RefreshDiscarded`, `spent`) until the next refresh is refused and
deletes it. A lease may lapse under a refresh and a process may die (`mishaps`);
`torn` remembers it, and `recreated` a row deleted and inserted again, whose
`rotation_seq` starts over. Tokens nobody holds any more may be issued again, which
keeps the model finite: `Token` bounds the tokens held at a time. Sealing of payloads is left out, and so are the other
authentication methods and the identity broker.

## Runs

| Run | Question | Result |
|---|---|---|
| `jobs` | Do two loops over every kind of job ever run conflicting jobs or exceed the build cap, and is the two-step claim an atomic grant of locks (`LocksSpec`)? With lapsing leases, recovery, a crash, an undecodable row and a deletion: do superseded executions stay fenced off their rows, is at most one deletion job at work on a project? Imports and deploys with attempts that outlive their lease, throws, crashes and promotions by hand: is no Deployment recorded on a port another one listens on, does a completed job name the Deployment its last attempt made from a revision no older than its import's, do the three pointers agree once the first deploy is through? | holds |
| `job_liveness` | Does every attempt end, and every requested deletion unless the worker dies on the way? | holds |
| `waits` | Is no wake slept through, is every item claimed although notifications are lost and claims throw, does stop resolve? Is every request that waits for a token's refresh answered, although the process that refreshes may crash or lose the answer, or the new token is about to expire again? | holds |
| `activation_lifecycle` | Any two operations or faults beside a request and the sweeps: one starter, no start of an archived Deployment, no orphaned archiving claim, no decision of the operator overwritten but by the two writes that have no guard? | holds |
| `activation_leases` | Two requests and schedules against the reaper: does a granted request keep its process, until a late failure hook fails an instance that a sweep is draining? (no restart, archive or fault, which take it away on purpose) | holds |
| `activation_liveness` | After crashes, and after failed launches whose failure hook a crash forgot, do `starting` and `draining` instances settle? | holds |
| `schedules` | Planning under retargets, coalescing and manual runs: one run per tick, every due tick run or counted? And one run with a crash of the worker or the Agent: does the handler run once, do Session boundaries settle the run whatever their order, does its verdict agree with its executions? | holds |
| `gateway` | Keyed creates, retries and follow-ups through a stale cache, with policy changes, stops, drains, an archive, idle bindings and a crash of the Gateway: one Deployment per operation, Sessions stay pinned, a lease the archive saw keeps its Deployment, the policy weighs no archived Deployment but by an open promotion? | holds |
| `liveness` | Due ticks are served, with late retargets too, running runs settle, leases are let go of, the cache catches up, a serving owner is registered, runs left on archived Deployments or outside the version window settle? | holds |
| `platform` | Workflow runs across restarts, archives, drains over archives and the reconciler: none stranded, only doomed ones failed, none cut short that the sweep had to spare? A credential refreshed by two processes, more than once, across logins, a lapsed lease, a lost answer and a changed connection: exclusive refresh, an honoured token, the latest login kept? | holds |
| `tick_twice` | `NoTickTwice` when a retarget read its clock before a planner pass | violated, see [below](#where-the-code-and-its-documents-disagree) |
| `hotfix` | `HotfixKept`: does a promotion asked for in a drift retire the hotfix only when confirmed? | violated, see [below](#where-the-code-and-its-documents-disagree) |

    tlc -workers 2 -config MCJobs.cfg MCJobs
    tlapm JobQueueProofs.tla

Deadlock checking is off in every run but `gateway`, where requests never run out: a finite supply of jobs, items or
operations is used up and the system then rightly rests.

## Bounds, and why they are enough

- `JobQueue`: three rows, two or three loops (`ExclusionBounds`, `RecoveryBounds`),
  two attempts, one crash. Exclusion
  is a relation between two rows, and a third lets one settle while another is
  claimed; the specs contain one row for each clause of the predicate. Fencing
  needs an old execution, a new one and a third party (the deletion), hence three
  loops there. One crash suffices because a crash erases all
  in-process state. Liveness uses two rows, one of them the deletion job.
  `Admission`, the fencing, the deletion and the refinement are also proved without
  bounds.
- `JobPump`: two loops and two items that exclude each other, one spurious wake,
  one throwing claim: enough for a loop to queue behind another's claim and for
  an item to be held back by a running one. The safety properties are proved
  for any number of each.
- `RuntimeActivation`: two generations (an old and a new instance), one or two
  requests, two operations or faults out of nine kinds. Each counterexample
  below needs at most two. The safety properties are proved for any number.

- `BuildDeploy`: three requests, or two and one mishap, or one and two mishaps
  (`DeployBounds`), two attempts at a time and two ports. A mishap is a throw, a
  lease that lapses under a live attempt, a crash of the worker, a process that
  stops listening or a promotion by hand. A race for a port and a row named late
  need two attempts; a first Deployment and a later one, two jobs. `hotfix` needs
  four jobs and no mishap.
- `SchedulePlanner`: two schedules (one in both revisions, with different
  instants, one that ends and is only in the first), four instants, batches of
  one, so that a pass leaves a due row behind; two retargets, so that a target
  comes back. `liveness` has three instants and `LateRetarget = TRUE`: there a target
  comes back to a revision that has run the tick, the insert conflicts, and the row is
  passed over for ever (`PassedOver`), which `DueIsServed` lets off.
- `ScheduleRuns`: two Sessions and two open ingests (who sees whom is a relation
  between two), two executions of the job, one crash of the worker or the Agent.
- `Gateway`: two Deployments, two requests in flight that are replaced for ever
  (so any number of retries), one operation and Session, two events. Two are what
  a race needs: the policy moves off a Deployment and it is archived, or a binding
  idles out and the Deployment stops.
- `WorkflowDispatch`: one Deployment, a run of the project's and one of Eve's, two
  dispatcher processes (a predecessor and its successor), two turns. `MaxTurns` counts
  what the environment need not do: a window slide, a promotion, a drain, an archive
  request, a fault of a process or of the store. In `liveness` there is one run, and
  two parts. `dispatch` restarts and breaks dispatchers, one turn. `orphans` has three
  turns and one dispatcher that serves undisturbed: an active run on an archived
  Deployment takes two (its delivery dead-lettered and the archive requested, so that
  retention no longer counts the run), and a drain over the archive is the third.
- `AgentAuth`: two processes with a request each, two revisions, two logins. `MaxSeq`
  bounds a row's `rotation_seq`, and so how often in a row one login's token is
  refreshed. `platform` has two parts: `auth` grants one refresh, and at most one of a
  second login, a mishap, a lost answer of the provider or a change of the connection
  (`AuthBounds`) beside the first login, all at once being out of reach in time, and of a
  second login only the token that is to be verified and can be refreshed; `again`
  refreshes the token of one login twice over (`MaxSeq = 2`). `waits` has `auth`, in
  which the two requests also meet in one process, and only that one crashes or loses
  an answer; and `again` with `MaxSeq = 3`, one request whose token is refreshed
  and found to expire soon again, as often as `resolveCredential` may try. Nine tokens
  never run out. The safety properties are proved without these bounds.
- Where a run bounds a part, as `AuthBounds` and `DispatchBounds` do, the bound is in
  the fairness too: fair are the steps that the bound allows.

Distinct states: `waits` 129 thousand, `liveness` 149 thousand, `jobs` 545 thousand,
`platform` 1.4 million, `schedules` 2.1 million, `gateway` 2.9 million.

Symmetry is used in `jobs` (loops), `schedules` (Sessions, ingests), `gateway` (Deployments,
requests) and `platform` (dispatcher processes; an API process with its request),
which check invariants and at most one step property each, and in no run that checks
liveness. The jobs of one project and the schedules are not symmetric.

## Fairness

- `JobPump`: weak fairness of each loop's own steps. The event loop resumes
  settled awaits, a statement ends, a run ends (its heartbeat aborts it
  otherwise), the idle timer fires. Nothing of NOTIFY, errors or stop, so
  `EveryItemClaimed` rests on polling alone.
- `JobQueue`: weak fairness of claiming, committing, settling and the failure
  hook for each loop; of the lapse of a lease nobody renews; of the recovery
  sweep, a periodic task. A live lease may lapse or not.
- `RuntimeActivation`: weak fairness of claiming, of the lane's handler (every
  call in it has a timeout), of the recovery of each starting instance, and of
  the reaper's claim and steps, both part of the worker tick. Requests, operator,
  reconciler, orphan sweep and faults owe nothing. Faults are finite (`MaxOps`):
  a launch that fails for ever settles nothing, and the code does not claim so.
- `SchedulePlanner`: the planner's interval fires, and a retarget that has begun
  commits. The clock, promotions and manual runs owe nothing.
- `ScheduleRuns`: a live worker and a live Agent go on with what they do (their
  awaits have deadlines), an open ingest ends, expiry is a periodic task, an
  unrenewed lease runs out. Sessions need not end, events need not arrive.
- `Gateway`: a request's awaits end (the upstream hop has an idle timeout), its
  client or its upstream ends the body, TTLs pass. No policy change is owed, and
  no invalidation: the cache catches up by its TTL alone.
- `WorkflowDispatch`: the supervisor starts the process, its steps and heartbeat
  timer go on, Postgres notices a dead session, the worker's interval sweeps.
- `AgentAuth`: the steps of a request and of a refresh flight (the provider's
  call has a timeout), and the expiry of an abandoned lease. Nothing of logins.

## Proofs

All theorems are for every value of the constants: any number of jobs, loops,
attempts, ports, Deployments, requests, Sessions, processes and faults. They use the
named assumptions of the modules, which are about the constants' shape: a non-empty
pool, bounds in `Nat`, `None` outside the sets it is distinguished from, job specs of
the right shape, cron expressions as finite sets of instants, a start from a status
that a finished build leaves behind. Three theorems have a hypothesis of their own,
which is what the run that checks the property chooses:

| Theorem | Hypothesis | Why the code needs it |
|---|---|---|
| `LeaseProtectsCorrect` | `Ops \subseteq Gentle`: schedule runs, drains, promotions | a restart, an archive or a fault takes a granted request's process away on purpose |
| `NoTickTwiceCorrect` | `~LateRetarget` | false otherwise, the run `tick_twice` shows it |
| `CreateOnce` | `"unkeyed" \notin Kinds` | a create without `operationId` has nothing to be bound by |

None of the properties is inductive by itself. What each proof adds:

**`JobQueueProofs`**: `TypeCorrect`, `AdmissionCorrect` (from `ExclusionCorrect` and
`HeavyCapCorrect`), `FencingCorrect`, `DeletionCorrect`, `LocksImplemented`. A claim
commits what an earlier snapshot allowed. `QueueInv` adds `LockedQueued` (a selected
row is still queued at the commit, since it is locked), `OneClaim` (the claim chain)
and `SnapshotGood` (what the snapshot found free is still free). Every step makes
the set of running rows shrink, takes a snapshot, or commits (`StepShape`); shrinking
keeps `SnapshotGood` (`ShrinkKeepsInv`), and the commit uses it (`CommitKeepsInv`).
The same three cases give the refinement: a shrinking step releases locks of
`JobLocks`, the commit grants them, a snapshot stutters. Fencing needs that the
attempt number an execution holds is at most its row's and that no two executions of
a row hold the same (`HeldCounted`, `HeldDistinct`). The deletion needs that the
failure hook, which reopens the project in a statement of its own, is pending for
no row whose deletion is still open (`HookOnce`, `OneOpenDeletion`,
`DeletionMarked`).

**`JobPumpProofs`**: `SingleFileCorrect`, `WakeForcesClaimCorrect`,
`NoSignalledWorkSleptCorrect`, `NoClaimAfterStopCorrect`. The strengthening is
`Covered`: while signalled work waits, some loop will take another snapshot
without any further wake, or its last claim threw (then the timer polls). An
empty snapshot over waiting work means that a running item conflicts, and the
loop that runs it covers; a wake makes every loop cover at once.

**`RuntimeActivationProofs`**: `ActivationTypeCorrect`, `SingleStarterCorrect`,
`StartNotArchivedCorrect`, `ArchivingHasOwnerCorrect` and the action property
`DecisionsRetainedCorrect`, from `IInv`. Alone, `StartNotArchived` is not inductive:
the claim of an archive could land while a start is under way. `ArchiveLane` says
that an archive job past its claim occupies the lane and what it will revert to, so
no starter shares the lane with it; `SafeStart` carries the guard from the handler's
check to the start; the drain route writes `draining`, never a retired status.
`ArchivingHasOwner` needs `ArchiveLane` for the revert, since a status read as
`archiving` would be restored as such. `LeaseProtectsCorrect` has an invariant of its
own, `LeaseInv`: only the newest generation is live (`NewestLives`), a ready or
draining instance has its process on its endpoint until the sweep stops it
(`Serves`), a starter's instance stays `starting` until it settles it (`LaneStarts`),
and what a sweep has claimed stays `draining` until the sweep is through with it
(`SweepDrains`), so the instance a request was granted is in nobody's hands
(`Undrained`). Late failure hooks are part of this: one is never pending for an
instance that is starting (`HooksKnown`), and one that fails an instance under a
request makes a next generation, which gets the same port while the old process
listens (`Served`). Only a hook that fails an instance a sweep holds breaks
`SweepDrains`, and from then on the property claims nothing (`overruled`).

**`BuildDeployProofs`**: `DeployTypeCorrect`, `NoForeignTrafficCorrect`,
`JobDeliversCorrect`, `PointersAgreeCorrect`, from `DeployInv`. The thirty actions are
first reduced to seventeen kinds of steps on rows, attempts and pointers (`StepKinds`) and to
what may become of a port or a process (`HostSteps`). *Ports*: a port has one holder (`OneHolder`),
an attempt has no process before it starts one (`NotStarted`), and whoever got past
the ownership check listens or has stopped since (`Proven`); the in-flight set is not
needed, which is why its gap does no harm. *Jobs*: before a job that was tried all are
settled, but deploys that an import overtook (`InOrder`), and an attempt that outlives its job's settlement is one of two
(`Outlives`), so only an import tried twice can record its revision after a later
one's (`SourceFollows`), and what an attempt that holds its row has named there is
its own (`Delivers`). *Pointers*: an attempt with no job up to its own tried twice is
the only deploy's alive (`CleanIsAlone`), so a first deploy sets the three pointers alone
(`FirstAlone`), and after it every step moves all three or none (`FirstDone`).

**`ScheduleProofs`**, the planner: `PlanTypeCorrect`, `NoTickTwiceCorrect`,
`TicksAccountedCorrect`. `CoversExactly` is the lemma behind both: a run keeps
only the number of ticks it missed, and yet it stands for exactly the instants from
its `dueAt` to the planner's `now`. Then no run covers the future (`CoversPast`) and
nothing from the next run on is covered (`NextUncovered`).

**`ScheduleProofs`**, a run: `RunTypeCorrect`, `HandlerRunsOnceCorrect`,
`VerdictAgreesCorrect`, from `RunInv`. The handler is let in while the run is
`activating`, which its first entry ends for good (`Once`). For the verdict: a
completion links all Sessions of the handler at once (`Links`), an ingest holds its
Session's row, and the Project's if it projects (`Exclusive`, `Holds`), an execution
that runs on after its boundary is being settled by an open ingest (`Pending`), and a
running run has a Session without its last boundary or an open ingest that will
project a verdict (`Agree`).

**`GatewayProofs`**: `GatewayTypeCorrect`, `CreateOnce`, `SessionsStayPinned`,
`GrantsKept`, `TargetsStayAlive`, from `GatewayInv`. `PinInv` ties a request's goal to
the durable binding it read or wrote: a keyed create is sent only to the Deployment
its operation is bound to, and a follow-up's pin is one that was asked to create the
Session; bindings that idle out are the case that needs `home`. `TargetInv` carries
what the archive has read of the routes up to its removal, and the promotion that
was open beside it.

**`WorkflowDispatchProofs`**: `DispatchTypeCorrect`, `NoRunStrandedCorrect`,
`FailedRunsCorrect`, and the action property `CancelSparesCorrect`, from `DispatchInv`.
`Recovered` follows a run through a boot: while the owner filters, a run it owes a
delivery is a candidate or at rest, and once it serves the delivery is at rest or its
own. `FailsDoomed` (over every drain: what an archive had stays refused or is in
`CameBack`) and `CancelsIdle` carry the sweep's reads to its verdicts.
The proof found an error in the property: with three processes and four turns, which
the run does not have, a run is dead-lettered between the listing and the
filter of one boot, which re-enqueues it; the next boot skips it for its letter,
the operator resolves the letter, and the run waits for another boot. That is what
the code does, so `NoRunStranded` now lets off the runs in `skipped`, not
those that have a letter at the moment.

**`AgentAuthProofs`**: `AuthTypeCorrect`, `RefreshExclusiveCorrect`,
`StoredTokenHonouredCorrect`, `LatestLoginKeptCorrect`, from `AuthInvariant`. A refresh,
a verification and a recovery each work on a snapshot of a row that others write
meanwhile, and `AuthInv` says what the row can have become. Its rotation never falls
behind the snapshot's; at the same rotation it still is what was read, verified if it
was read to be used and pending if it was read to be verified; at a later one it has
another token than a refresh took (`Snapshots`, `Readings`). The last needs that no
token is in two places: each has one home, a revision's row with all that read it, a
refresh's answer or the login's (`TokensApart`), and moves when it is written. Whoever
claimed the lease at the row's rotation still has it (`LeaseKept`) and nobody else
claimed there (`LeaseAlone`), so of the refreshes that read one token, all at one
rotation (`SameRotation`), one presents it. Only that one can have retired the row's
token (`Honoured`), and a pending row, which a verification replaces, has none. Before
the first login of a revision nobody has read its row (`Known`), so the first insert is
no re-creation. Rows in `recreated` are let off by the parts that compare rotations,
and only by those: their tokens stay apart.

The proof corrected the model twice. The refresh token is retired when the provider
answers, not when the answer is kept, so an answer that is lost or rejected leaves a
retired token behind: `StoredTokenHonoured` now says so (`spent`). And a callback may
fail on a rejected token although its connection is the one it read.

## Where the code and its documents disagree

Two runs end in a counterexample (quoted in `PROJECT.json`, `findings`):

- `tick_twice`: a retarget fixes `now`, then waits for the row locks of a planner
  pass. When it gets them it sets the next run to the first tick after that older
  `now`, which the planner has just run or counted under `missedTicks`.
  `docs/en/reference/design/scale-to-zero.md:49` guarantees "exactly one durable
  ScheduleRun per due tick". `schedules` shows that there is no other way. When the
  tick was run by the same revision, the insert conflicts and the pass leaves
  `next_run_at` alone (`postgres-schedule-store.ts:410`): the schedule stays due and
  never runs again (`DueIsServed`, `PassedOver`).
- `hotfix`: production runs an upload and a preview sync is queued. A deploy to be
  promoted is requested while the current revision is still the upload, so the route
  asks for no confirmation; the sync runs first, the deploy builds the revision from
  git, and promotes it over the hotfix. `docs/en/agents/releases-routing.md:56`
  requires a confirmation "while in drift"; the check is at the request
  (`app-project-lifecycle-routes.ts:114`), and the handler does not look again
  (`process-build-deploy.ts:344`).

Others that the models contain, where the property says precisely what is let off,
or no run is spent on them. The hazards list has the ones marked *.

- A build recovered as stale is queued again, the deletion request deletes the
  queued row, and `delete_project` is claimed while the old execution has not
  noticed yet; `docs/en/reference/dashboard.md:27` says that the deletion waits.
- * The worker dies between `failJob` and the failure hook: the project stays
  `deleting` without a job, although `docs/en/reference/dashboard.md:25` allows a
  retry. `DeletionTerminates` lets crashes off.
- * The reaper hands an instance back as `ready` after a restart retired it:
  `idle-reaper.ts:47-49` re-reads the status on the stop path only. And on that
  path the re-read and the stop are two steps.
- * A schedule run writes `running` over `draining`, although
  `deployment-status.ts:5-6` says that such decisions are retained; the drain
  route has no status guard and reopens an archived Deployment. `DecisionsRetained`
  lets these two writes off and no other.
- * The activation route refuses archived and failed Deployments, not archiving
  ones: a lease taken after the archive has read the leases is granted and loses
  its process, although `archive-deployment.ts:52-53` says that one of the two
  sees the other. `GrantedIsKept` covers the leases that were there to be seen.
- * A promotion that read `running` may commit its route after the retention
  check (`TargetsAlive`).
- * A run whose worker died while it was `dispatching` stays so: its recovered job
  is taken for a duplicate and expiry looks at linked Sessions only.
- * The reconciler fails runs of a Deployment whose archive is later handed back, or
  that is drained while archiving or archived, although
  `packages/core/src/eve-compatibility.ts:220-228` calls the refusal permanent
  (`FailedRunsWereDoomed`, `CameBack`). A drain over `archived` before the sweep hides
  an active run from it for as long as nothing else refuses the Deployment
  (`OrphansSettle`).
- * A run that boot recovery skipped for its dead letter is not enqueued when the letter
  is resolved, nor one skipped under an archive that comes back: both wait for the
  next boot (`NoRunStranded`).
- * A dispatcher whose read of the World's identity failed at boot owns the lock and
  serves, and is never trusted (`OwnerRegisters` lets it off).
- * The failure hook of an ensure job marks its instance `failed` whatever it has become
  (`job-registry.ts:65`). Over an instance that a sweep is draining it lets the next
  request start the next generation, and the sweep's stop takes that one's process
  (`LeaseProtects`, `overruled`).
- * Finding a port and claiming it are two steps with the TCP probe between them, so
  two attempts may take one port, and the one that gives up removes the claim of the
  other; the comment at `ports.ts:34-39` says that the set closes the window. What
  keeps traffic apart is `verifyPortOwnership` (`NoForeignTraffic`); after it, any
  answer on the port counts, so a process that loses its port at that moment is
  recorded on the strength of another's (let off by `lapsed`).
- * A first deploy that fails or is overtaken between `recordDeployment` and
  `ensureDeploymentRoutes` leaves the project's Deployment, its stable route and its
  scheduler target apart until the next promotion (`PointersAgree` lets it off).
- An import attempted twice may enqueue its deploy twice, and the older attempt may
  repoint the project at an older revision (`JobDelivers` lets that off).
- Two jobs of one project may run at once (a build and an activation), while
  `docs/en/reference/environment-variables.md:148` says "one-job-per-project still
  applies".
- * A schedule run that joins a starting instance waits, until its deadline, for an
  ensure job that its own lane keeps from being claimed; and it is dispatched to
  `deployments.host_port`, which `activation-manager.ts` calls a first-deploy hint.

## What is only model-checked, and what is not modelled

Liveness under fairness and `ENABLED` are outside the proof system and rest on TLC:
the properties of `job_liveness`, `activation_liveness` and `liveness`, and
`EveryItemClaimed`, `StopResolves` and `CallsAnswered` in `waits`. Every invariant and every action
property that a passing run checks is also proved. The type invariants of the
modules after `RuntimeActivation` say what shape their state has; they are proved and
not listed by a run.

Not modelled:

- *I/O and commands*: the content of builds and imports, the commands of the
  runtime adapters, installation and update (`packages/ctl`), header and body
  handling of the Gateway. Sequential orchestration of the host, with state only
  on the host.
- *Pure data*: configuration diagnostics, source scanning, OTLP decoding, the
  projection of telemetry into read models, request validation. Their difficulty
  is in formats, which a small model would have to leave out.
- *The user interface* (`apps/web`), the documentation sites, the published
  client package and the architecture tests. These and their components are most
  of the repository's lines.
- *Cryptography and the identity broker*: token signing and verification, session
  cookies, the other authentication methods.
- *Several projects that compete for ports* (attempts of one project do), and failing
  database statements outside `BuildDeploy`.

## Plan

Done: `JobQueue` with `JobLocks`, `JobPump`, `RuntimeActivation`, `BuildDeploy`,
`SchedulePlanner`, `ScheduleRuns`, `Gateway`, `WorkflowDispatch`, `AgentAuth`; every safety
property of the passing runs proved. Next: composition, the lane of
`RuntimeActivation` as the locks of `JobLocks`.
