-------------------------- MODULE WorkflowDispatch --------------------------
(***************************************************************************)
(* Durable workflow runs across restarts of the dispatcher: who owns the   *)
(* World, which registration the Control API trusts, how a run's delivery  *)
(* is activated, dead-lettered or recovered at boot, and how the worker's  *)
(* reconciler settles the runs no delivery can resume.                     *)
(*                                                                         *)
(* The World itself (its ownership lock, its queue, its dead letters) is   *)
(* the package @evelandhq/workflow-world, modelled from its use.  Whatever *)
(* keeps a Deployment besides its runs (a route, a Session, an operation,  *)
(* a lease, its age) is one fact, `reach'.                                 *)
(***************************************************************************)
EXTENDS Naturals, FiniteSets

CONSTANTS
    Host,           \* Deployments that run workflows
    Run,            \* workflow runs
    RunOn,          \* workflow_runs.deployment_id
    Authored,       \* runs of a workflow the project wrote, not Eve
    Instance,       \* dispatcher processes; each starts once
    NoInstance, NoHost,
    MaxTurns        \* bound: window slides, store errors, operator and platform turns

\* Where a run's next delivery is while no process has claimed it.
Unclaimed == {"none", "queued", "asleep", "held", "lost"}

ASSUME DispatchAssumption ==
    /\ RunOn \in [Run -> Host]
    /\ Authored \subseteq Run
    /\ NoInstance \notin Instance /\ Instance \cap Unclaimed = {}
    /\ NoHost \notin Host
    /\ MaxTurns \in Nat

VARIABLES
    hostStatus,     \* deployments.status
    archiveJob,     \* by Deployment: the archive handler's place and priorStatus
    supported,      \* Deployments whose Release is inside the Eve version window
    reach,          \* Deployments retention keeps for a reason other than a run
    removed,        \* Deployments whose image and build an archive has removed
    runs,           \* workflow_runs.status
    delivery,       \* where a run's next delivery is
    letters,        \* runs with an unresolved dispatch_dead_letters row
    owner,          \* the session that holds the ownership lock
    inst,           \* by process: where it is in its life
    boot,           \* by process: the recovery candidates it has listed
    anonymous,      \* processes whose read of the World's identity failed
    rows,           \* workflow_dispatcher_registrations: the state by instanceId
    newest,         \* the row with the latest lastHeartbeatAt, and its age
    sweep,          \* the reconciler's pass
    reverted,       \* history: Deployments whose archive claim was handed back
    reopened,       \* history: Deployments drained while archiving or archived
    skipped,        \* history: runs a dead letter kept out of the latest boot recovery
    turns

history == <<reverted, reopened, skipped>>
hostVars == <<hostStatus, archiveJob, supported, reach, removed, history>>
runStateVars == <<runs, delivery, letters>>
processVars == <<owner, inst, boot, anonymous, rows, newest>>
dispatchVars == <<hostVars, runStateVars, processVars, sweep, turns>>

NoArchiveJob == [at |-> "none", prior |-> "none"]
QueuedArchiveJob == [at |-> "queued", prior |-> "none"]
NoSweep == [at |-> "idle", todo |-> {}, listed |-> {}, host |-> NoHost, keptRead |-> FALSE,
            kept |-> {}, steady |-> {}]
Turn == turns < MaxTurns /\ turns' = turns + 1

Active(r) == runs[r] = "active"
RunsOf(h) == {r \in Run : RunOn[r] = h}

DispatchInit ==
    /\ hostStatus = [h \in Host |-> "running"]
    /\ archiveJob = [h \in Host |-> NoArchiveJob]
    /\ supported = Host /\ reach = Host /\ removed = {}
    /\ reverted = {} /\ reopened = {} /\ skipped = {}
    /\ runs = [r \in Run |-> "new"] /\ delivery = [r \in Run |-> "none"] /\ letters = {}
    /\ owner = NoInstance
    /\ inst = [i \in Instance |-> "off"]
    /\ boot = [i \in Instance |-> {}] /\ anonymous = {}
    /\ rows = [i \in Instance |-> "none"]
    /\ newest = [instance |-> NoInstance, fresh |-> FALSE]
    /\ sweep = NoSweep
    /\ turns = 0

-----------------------------------------------------------------------------
(***************************************************************************)
(* Deployments                                                             *)
(***************************************************************************)
\* permanentDeploymentActivationRefusal: a failed Deployment is not refused.
Refused_failedToo(h) ==
    hostStatus[h] \in {"archiving", "archived", "failed"} \/ h \notin supported

Refused(h) == hostStatus[h] \in {"archiving", "archived"} \/ h \notin supported

\* A promotion, or a lapsed Session, lease or place among the recent artifacts.
Superseded(h) ==
    /\ h \in reach
    /\ reach' = reach \ {h}
    /\ sweep' = [sweep EXCEPT !.steady = @ \ {h}]
    /\ UNCHANGED <<hostStatus, archiveJob, supported, removed, history, runStateVars, processVars,
                   turns>>

\* promoteDeployment takes a running Deployment.
Promoted(h) ==
    /\ h \notin reach /\ hostStatus[h] = "running"
    /\ reach' = reach \cup {h}
    /\ Turn
    /\ UNCHANGED <<hostStatus, archiveJob, supported, removed, history, runStateVars, processVars,
                   sweep>>

\* The idle reaper stops it, a start fails, or an activation outside the
\* dispatcher's brings it back, over a drain too.
StatusMoves(h, s) ==
    /\ hostStatus[h] \in {"running", "draining", "stopped", "failed"} \ {s}
    /\ s \in {"running", "failed"} => Turn
    /\ s = "stopped" => hostStatus[h] \in {"running", "draining"} /\ UNCHANGED turns
    /\ s = "failed" => hostStatus[h] \in {"running", "draining"}
    /\ s = "running" => h \in reach \ removed
    /\ hostStatus' = [hostStatus EXCEPT ![h] = s]
    /\ UNCHANGED <<archiveJob, supported, reach, removed, history, runStateVars, processVars,
                   sweep>>

\* The drain route looks at the route weights and at nothing else: it writes
\* over any status, an archive's claim and its result included.
DrainPosted(h) ==
    /\ hostStatus[h] # "draining"
    /\ Turn
    /\ hostStatus' = [hostStatus EXCEPT ![h] = "draining"]
    /\ reopened' = IF hostStatus[h] \in {"archiving", "archived"} THEN reopened \cup {h}
                   ELSE reopened
    /\ UNCHANGED <<archiveJob, supported, reach, removed, reverted, skipped, runStateVars,
                   processVars, sweep>>

\* The platform moves on to an Eve window the Release is outside of.
WindowSlides(h) ==
    /\ h \in supported
    /\ Turn
    /\ supported' = supported \ {h}
    /\ UNCHANGED <<hostStatus, archiveJob, reach, removed, history, runStateVars, processVars,
                   sweep>>

\* listDeploymentsWithActiveWorkflowRuns: a quarantined run pins nothing.
HoldsActiveRun(h) == \E r \in RunsOf(h) : Active(r) /\ r \notin letters

\* The archive route, or the sweep, checks retention without the runs.
ArchiveEnqueued(h) ==
    /\ archiveJob[h] = NoArchiveJob
    /\ hostStatus[h] # "archived" /\ h \notin reach
    /\ Turn
    /\ archiveJob' = [archiveJob EXCEPT ![h] = QueuedArchiveJob]
    /\ UNCHANGED <<hostStatus, supported, reach, removed, history, runStateVars, processVars,
                   sweep>>

\* The handler claims whatever it finds, or gives up.
ArchiveJobClaims(h) ==
    /\ archiveJob[h].at = "queued"
    /\ IF hostStatus[h] \in {"running", "draining", "stopped", "failed"}
       THEN /\ archiveJob' = [archiveJob EXCEPT ![h] = [at |-> "claimed", prior |-> hostStatus[h]]]
            /\ hostStatus' = [hostStatus EXCEPT ![h] = "archiving"]
       ELSE /\ archiveJob' = [archiveJob EXCEPT ![h] = NoArchiveJob]
            /\ UNCHANGED hostStatus
    /\ UNCHANGED <<supported, reach, removed, history, runStateVars, processVars, sweep, turns>>

\* The retention check after the claim lets it remove the artifacts, or not.
ArchiveRechecks(h) ==
    /\ archiveJob[h].at = "claimed"
    /\ h \notin reach /\ ~HoldsActiveRun(h)
    /\ archiveJob' = [archiveJob EXCEPT ![h].at = "removing"]
    /\ UNCHANGED <<hostStatus, supported, reach, removed, history, runStateVars, processVars, sweep,
                   turns>>

\* The artifacts are gone; a claim drained in the meantime is not archived.
ArchiveCompletes(h) ==
    /\ archiveJob[h].at = "removing"
    /\ archiveJob' = [archiveJob EXCEPT ![h] = NoArchiveJob]
    /\ hostStatus' = [hostStatus EXCEPT ![h] = IF @ = "archiving" THEN "archived" ELSE @]
    /\ removed' = removed \cup {h}
    /\ UNCHANGED <<supported, reach, history, runStateVars, processVars, sweep, turns>>

\* Protected after all, or removal failed on the way: a claim still held is
\* handed back.
ArchiveReverts(h) ==
    /\ \/ /\ archiveJob[h].at = "claimed" /\ (h \in reach \/ HoldsActiveRun(h))
          /\ UNCHANGED <<removed, turns>>
       \/ /\ archiveJob[h].at = "removing"
          /\ Turn /\ removed' \in {removed, removed \cup {h}}
    /\ archiveJob' = [archiveJob EXCEPT ![h] = NoArchiveJob]
    /\ IF hostStatus[h] = "archiving"
       THEN /\ hostStatus' = [hostStatus EXCEPT ![h] = archiveJob[h].prior]
            /\ reverted' = reverted \cup {h}
       ELSE UNCHANGED <<hostStatus, reverted>>
    /\ UNCHANGED <<supported, reach, reopened, skipped, runStateVars, processVars, sweep>>

-----------------------------------------------------------------------------
(***************************************************************************)
(* The dispatcher's process and its registration                           *)
(***************************************************************************)
\* waitForControlApi has returned; startService waits for the lock.
DispatcherStarts(i) ==
    /\ inst[i] = "off"
    /\ inst' = [inst EXCEPT ![i] = "waiting"]
    /\ UNCHANGED <<hostVars, runStateVars, owner, boot, anonymous, rows, newest, sweep, turns>>

AcquiresOwnership(i) ==
    /\ inst[i] = "waiting" /\ owner = NoInstance
    /\ owner' = i
    /\ inst' = [inst EXCEPT ![i] = "recovering"]
    /\ UNCHANGED <<hostVars, runStateVars, boot, anonymous, rows, newest, sweep, turns>>

\* beforeBootRecovery: a read of the World's identity that fails leaves
\* "unknown" in every heartbeat this process will send.
IdentityUnread(i) ==
    /\ inst[i] = "recovering" /\ i \notin anonymous
    /\ Turn
    /\ anonymous' = anonymous \cup {i}
    /\ UNCHANGED <<hostVars, runStateVars, owner, inst, boot, rows, newest, sweep>>

\* Boot recovery: the active runs no unresolved dead letter quarantines.
BootLists(i) ==
    /\ inst[i] = "recovering"
    /\ boot' = [boot EXCEPT ![i] = {r \in Run : Active(r) /\ r \notin letters}]
    /\ skipped' = letters
    /\ inst' = [inst EXCEPT ![i] = "filtering"]
    /\ UNCHANGED <<hostStatus, archiveJob, supported, reach, removed, reverted, reopened,
                   runStateVars, owner, anonymous, rows, newest, sweep, turns>>

Reenqueued(kept) ==
    [r \in Run |-> IF r \in kept /\ Active(r) THEN "queued" ELSE delivery[r]]

BootEnds(i, kept) ==
    /\ inst[i] = "filtering"
    /\ delivery' = Reenqueued(kept)
    /\ boot' = [boot EXCEPT ![i] = {}]
    /\ inst' = [inst EXCEPT ![i] = "serving"]
    /\ UNCHANGED <<hostVars, runs, letters, owner, anonymous, rows, newest, sweep>>

\* filterBootRecoveryRuns: the preflight's answer is subtracted.
FilterBootRecoveryRuns(i) ==
    /\ BootEnds(i, {r \in boot[i] : ~Refused(RunOn[r])})
    /\ UNCHANGED turns

\* It fails open: without an answer every candidate is recovered.
PreflightFails_closed(i) == BootEnds(i, {}) /\ Turn

PreflightFails(i) == BootEnds(i, boot[i]) /\ Turn

\* recordWorkflowDispatcherHeartbeat upserts the row and stamps it.
RecordHeartbeat_insertOnly(i, s) ==
    IF rows[i] = "none"
    THEN rows' = [rows EXCEPT ![i] = s] /\ newest' = [instance |-> i, fresh |-> TRUE]
    ELSE UNCHANGED <<rows, newest>>

RecordHeartbeat(i, s) ==
    /\ rows' = [rows EXCEPT ![i] = s]
    /\ newest' = [instance |-> i, fresh |-> TRUE]

Heartbeat(i) ==
    /\ inst[i] = "serving"
    /\ RecordHeartbeat(i, "ready")
    /\ UNCHANGED <<hostVars, runStateVars, owner, inst, boot, anonymous, sweep, turns>>

\* The newest row passes WORKFLOW_DISPATCHER_HEARTBEAT_TTL_MS.
HeartbeatAges ==
    /\ newest.fresh
    /\ inst[newest.instance] = "serving" => Turn
    /\ inst[newest.instance] # "serving" => UNCHANGED turns
    /\ newest' = [newest EXCEPT !.fresh = FALSE]
    /\ UNCHANGED <<hostVars, runStateVars, owner, inst, boot, anonymous, rows, sweep>>

\* The deliveries a process that goes away had claimed.
Dropped(i) == [r \in Run |-> IF delivery[r] = i THEN "lost" ELSE delivery[r]]

\* SIGTERM: the interval is cleared and service.stop() drains and unlocks.
DispatcherStops(i) ==
    /\ inst[i] = "serving" /\ owner = i
    /\ Turn
    /\ inst' = [inst EXCEPT ![i] = "stopping"]
    /\ owner' = NoInstance
    /\ delivery' = Dropped(i)
    /\ UNCHANGED <<hostVars, runs, letters, boot, anonymous, rows, newest, sweep>>

\* The lock's session is ended under the process: pg_terminate_backend
\* (eveland-ctl dispatcher-lock --terminate), a timeout, a server restart.
OwnershipLost(i) ==
    /\ owner = i /\ inst[i] = "serving"
    /\ Turn
    /\ owner' = NoInstance
    /\ UNCHANGED <<hostVars, runStateVars, inst, boot, anonymous, rows, newest, sweep>>

\* onPhase("ownership_lost"): the launcher treats it as a crash.
LossNoticed(i) ==
    /\ inst[i] = "serving" /\ owner # i
    /\ inst' = [inst EXCEPT ![i] = "stopping"]
    /\ delivery' = Dropped(i)
    /\ UNCHANGED <<hostVars, runs, letters, owner, boot, anonymous, rows, newest, sweep, turns>>

\* The last heartbeat says stopped, after the lock is free; it may be lost.
FinalHeartbeat(i) ==
    /\ inst[i] = "stopping"
    /\ inst' = [inst EXCEPT ![i] = "gone"]
    /\ \/ RecordHeartbeat(i, "stopped") /\ UNCHANGED turns
       \/ Turn /\ UNCHANGED <<rows, newest>>
    /\ UNCHANGED <<hostVars, runStateVars, owner, boot, anonymous, sweep>>

\* The host dies: Postgres keeps the session, and the lock, for a while.
DispatcherCrashes(i) ==
    /\ inst[i] \in {"waiting", "recovering", "filtering", "serving", "stopping"}
    /\ Turn
    /\ inst' = [inst EXCEPT ![i] = "gone"]
    /\ boot' = [boot EXCEPT ![i] = {}]
    /\ delivery' = Dropped(i)
    /\ UNCHANGED <<hostVars, runs, letters, owner, anonymous, rows, newest, sweep>>

DeadSessionEnds ==
    /\ owner # NoInstance /\ inst[owner] = "gone"
    /\ owner' = NoInstance
    /\ UNCHANGED <<hostVars, runStateVars, inst, boot, anonymous, rows, newest, sweep, turns>>

-----------------------------------------------------------------------------
(***************************************************************************)
(* Runs and their deliveries                                               *)
(***************************************************************************)
\* A request that reaches the Deployment starts a workflow.
RunStarts(r) ==
    /\ runs[r] = "new" /\ RunOn[r] \in reach \ removed
    /\ hostStatus[RunOn[r]] \in {"running", "draining", "stopped"}
    /\ runs' = [runs EXCEPT ![r] = "active"]
    /\ delivery' = [delivery EXCEPT ![r] = "queued"]
    /\ UNCHANGED <<hostVars, letters, processVars, sweep, turns>>

\* A timer or a message wakes a sleeping run.
RunWakes(r) ==
    /\ Active(r) /\ delivery[r] = "asleep"
    /\ Turn
    /\ delivery' = [delivery EXCEPT ![r] = "queued"]
    /\ UNCHANGED <<hostVars, runs, letters, processVars, sweep>>

DispatcherClaims(i, r) ==
    /\ inst[i] = "serving" /\ owner = i
    /\ delivery[r] = "queued"
    /\ delivery' = [delivery EXCEPT ![r] = IF Active(r) THEN i ELSE "none"]
    /\ UNCHANGED <<hostVars, runs, letters, processVars, sweep, turns>>

\* assessDispatcherReadiness, World identity included, and the caller is the
\* instance it validated.
DispatcherReady(i) ==
    /\ newest.instance = i /\ newest.fresh
    /\ i \notin anonymous
    /\ rows[i] = "ready"

\* The activation route answers 409: terminal, the delivery is dead-lettered.
ActivationTerminal(h) == hostStatus[h] \in {"archived", "failed"} \/ h \notin supported

DeadLetters(r) ==
    /\ letters' = letters \cup {r}
    /\ delivery' = [delivery EXCEPT ![r] = "held"]

ActivationRefused(r) ==
    /\ delivery[r] \in Instance /\ ActivationTerminal(RunOn[r])
    /\ DeadLetters(r)
    /\ UNCHANGED <<hostVars, runs, processVars, sweep, turns>>

\* 503 or 504: not ready, another instance's registration, a start that
\* failed, at any time.  The dispatcher tries again until its attempts are
\* used up.
ActivationUnavailable(r) ==
    /\ delivery[r] \in Instance /\ ~ActivationTerminal(RunOn[r])
    /\ \/ delivery' = [delivery EXCEPT ![r] = "queued"] /\ UNCHANGED <<letters, turns>>
       \/ DeadLetters(r) /\ Turn
    /\ UNCHANGED <<hostVars, runs, processVars, sweep>>

\* The route does not refuse a Deployment that is being archived, and its
\* instance is ready until the archive stops it.
StillReady(h) ==
    /\ h \notin removed
    /\ archiveJob[h].at # "removing"
    /\ archiveJob[h].at = "claimed" => archiveJob[h].prior \in {"running", "draining"}

\* A ready endpoint: the step is posted, the run sleeps or completes.
StepDelivered(r) ==
    /\ delivery[r] \in Instance /\ ~ActivationTerminal(RunOn[r])
    /\ DispatcherReady(delivery[r])
    /\ StillReady(RunOn[r])
    /\ hostStatus' = [hostStatus EXCEPT ![RunOn[r]] =
                         IF @ \in {"archiving", "draining"} THEN @ ELSE "running"]
    /\ \/ delivery' = [delivery EXCEPT ![r] = "asleep"] /\ UNCHANGED runs
       \/ /\ Active(r)
          /\ runs' = [runs EXCEPT ![r] = "completed"]
          /\ delivery' = [delivery EXCEPT ![r] = "none"]
    /\ UNCHANGED <<archiveJob, supported, reach, removed, history, letters, processVars, sweep,
                   turns>>

\* eveland-ctl dead-letters --resolve: the run waits for the next boot.
ResolveLetters(h) ==
    /\ letters \cap RunsOf(h) # {}
    /\ Turn
    /\ letters' = letters \ RunsOf(h)
    /\ UNCHANGED <<hostVars, runs, delivery, processVars, sweep>>

-----------------------------------------------------------------------------
(***************************************************************************)
(* The reconciler: reconcileAbandonedWorkflowRuns                          *)
(***************************************************************************)
\* listDeploymentsWithActiveWorkflowRunsAcrossProjects: quarantined runs too.
SweepLists_skipsQuarantined ==
    /\ sweep.at = "idle" /\ \E r \in Run : Active(r) /\ r \notin letters
    /\ sweep' = [NoSweep EXCEPT !.at = "next", !.listed = {r \in Run : Active(r)} \ letters,
                                !.todo = {RunOn[r] : r \in {x \in Run : Active(x)} \ letters},
                                !.steady = reach]
    /\ UNCHANGED <<hostVars, runStateVars, processVars, turns>>

SweepLists ==
    /\ sweep.at = "idle" /\ \E r \in Run : Active(r)
    /\ sweep' = [NoSweep EXCEPT !.at = "next", !.listed = {r \in Run : Active(r)},
                                !.todo = {RunOn[r] : r \in {x \in Run : Active(x)}},
                                !.steady = reach]
    /\ UNCHANGED <<hostVars, runStateVars, processVars, turns>>

\* Shape 2 is for Deployments all of whose listed runs are Eve's own.
EveOwnedOnly_some(h) == \E r \in sweep.listed \cap RunsOf(h) : r \notin Authored

EveOwnedOnly(h) == \A r \in sweep.listed \cap RunsOf(h) : r \notin Authored

\* The loop body up to its first verdict: fail, ask retention, or leave alone.
SweepReads(h) ==
    /\ sweep.at = "next" /\ h \in sweep.todo
    /\ sweep' = [sweep EXCEPT !.todo = @ \ {h}, !.host = h,
                   !.at = IF Refused(h) THEN "fail"
                          ELSE IF hostStatus[h] = "stopped" /\ EveOwnedOnly(h) THEN "retention"
                          ELSE "next"]
    /\ UNCHANGED <<hostVars, runStateVars, processVars, turns>>

\* retentionFor: one read per project and sweep, without the runs themselves.
RetentionFor ==
    /\ sweep.at = "retention"
    /\ LET kept == IF sweep.keptRead THEN sweep.kept ELSE reach
       IN  sweep' = [sweep EXCEPT !.keptRead = TRUE, !.kept = kept,
                                  !.at = IF sweep.host \in kept THEN "next" ELSE "cancel"]
    /\ UNCHANGED <<hostVars, runStateVars, processVars, turns>>

\* reconcileWorkflowRuns settles whatever is active on the Deployment now.
SweepSettles ==
    /\ sweep.at \in {"fail", "cancel"}
    /\ runs' = [r \in Run |-> IF Active(r) /\ RunOn[r] = sweep.host
                              THEN IF sweep.at = "fail" THEN "failed" ELSE "cancelled"
                              ELSE runs[r]]
    /\ sweep' = [sweep EXCEPT !.at = "next", !.host = NoHost]
    /\ UNCHANGED <<hostVars, delivery, letters, processVars, turns>>

\* The catch: a store or World error skips this Deployment for the sweep.
SweepSkips ==
    /\ sweep.at \in {"fail", "retention", "cancel"}
    /\ Turn
    /\ sweep' = [sweep EXCEPT !.at = "next", !.host = NoHost]
    /\ UNCHANGED <<hostVars, runStateVars, processVars>>

SweepEnds ==
    /\ sweep.at = "next" /\ sweep.todo = {}
    /\ sweep' = NoSweep
    /\ UNCHANGED <<hostVars, runStateVars, processVars, turns>>

-----------------------------------------------------------------------------
HostStep(h) ==
    \/ Superseded(h) \/ Promoted(h) \/ WindowSlides(h) \/ DrainPosted(h)
    \/ \E s \in {"running", "stopped", "failed"} : StatusMoves(h, s)
    \/ ArchiveEnqueued(h) \/ ArchiveJobClaims(h) \/ ArchiveRechecks(h)
    \/ ArchiveCompletes(h) \/ ArchiveReverts(h) \/ ResolveLetters(h)

\* What a live process does by itself.
ProcessStep(i) ==
    \/ DispatcherStarts(i) \/ AcquiresOwnership(i) \/ BootLists(i)
    \/ FilterBootRecoveryRuns(i) \/ LossNoticed(i) \/ FinalHeartbeat(i)

ProcessFaults(i) ==
    \/ IdentityUnread(i) \/ PreflightFails(i)
    \/ DispatcherStops(i) \/ OwnershipLost(i) \/ DispatcherCrashes(i)

RunStep(r) ==
    \/ \E i \in Instance : DispatcherClaims(i, r)
    \/ ActivationRefused(r) \/ ActivationUnavailable(r) \/ StepDelivered(r)

SweepStep ==
    SweepLists \/ (\E h \in Host : SweepReads(h)) \/ RetentionFor \/ SweepSettles \/ SweepEnds

DispatchNext ==
    \/ \E h \in Host : HostStep(h)
    \/ \E i \in Instance : ProcessStep(i) \/ ProcessFaults(i) \/ Heartbeat(i)
    \/ HeartbeatAges \/ DeadSessionEnds
    \/ \E r \in Run : RunStarts(r) \/ RunWakes(r) \/ RunStep(r)
    \/ SweepStep \/ SweepSkips

\* The supervisor restarts the process, its timers fire, Postgres notices a
\* dead session, the worker's interval sweeps.
DispatchFairness ==
    /\ \A i \in Instance : WF_dispatchVars(ProcessStep(i)) /\ WF_dispatchVars(Heartbeat(i))
    /\ WF_dispatchVars(DeadSessionEnds)
    /\ WF_dispatchVars(SweepStep)

DispatchSpec == DispatchInit /\ [][DispatchNext]_dispatchVars /\ DispatchFairness

-----------------------------------------------------------------------------
(***************************************************************************)
(* Properties                                                              *)
(***************************************************************************)
\* Types; a Deployment is archiving only while a handler holds the claim, and
\* only the lock's owner recovers.
DispatchTypeOK ==
    /\ hostStatus \in [Host -> {"running", "draining", "stopped", "failed", "archiving",
                                "archived"}]
    /\ runs \in [Run -> {"new", "active", "completed", "failed", "cancelled"}]
    /\ delivery \in [Run -> Unclaimed \cup Instance]
    /\ owner \in Instance \cup {NoInstance}
    /\ inst \in [Instance -> {"off", "waiting", "recovering", "filtering", "serving",
                              "stopping", "gone"}]
    /\ rows \in [Instance -> {"none", "ready", "stopped"}]
    /\ \A h \in Host :
          hostStatus[h] = "archiving" => archiveJob[h].at \in {"claimed", "removing"}
    /\ \A i \in Instance : boot[i] # {} => inst[i] = "filtering" /\ owner = i

\* Deployments an archive had, and that came back: the claim was handed back,
\* or a drain was written over it.
CameBack == reverted \cup reopened

\* Boot recovery leaves nothing behind: while an owner serves, no active run of
\* a Deployment that can be activated is waiting for a delivery some earlier
\* process took with it, unless its Deployment was being archived at the time
\* and came back, or a dead letter that was resolved later quarantined the run
\* (filterBootRecoveryRuns fails open; `failed' is not refused).
NoRunStranded ==
    \A r \in Run :
        /\ Active(r) /\ r \notin skipped /\ delivery[r] = "lost"
        /\ ~Refused(RunOn[r]) /\ RunOn[r] \notin CameBack
        => owner = NoInstance \/ inst[owner] # "serving"

\* A run the platform failed for good belongs to a Deployment that still cannot
\* be activated, apart from those an archive had and that came back
\* (transitionDeploymentStatus hands the claim back; the drain route's
\* updateDeploymentStatus writes over `archiving' and `archived').
FailedRunsWereDoomed ==
    \A r \in Run : runs[r] = "failed" => Refused(RunOn[r]) \/ RunOn[r] \in CameBack

\* A sweep never cuts short a workflow the project wrote and the sweep has seen,
\* nor any run of a Deployment that was reachable from the sweep's listing on.
CancelSpares ==
    [][\A r \in Run : runs[r] = "active" /\ runs'[r] = "cancelled" =>
          /\ r \notin Authored \cap sweep.listed
          /\ RunOn[r] \notin sweep.steady]_dispatchVars

\* A serving owner becomes the registration the Control API trusts, whatever
\* its predecessor reports late, or stops serving or owning; one that could not
\* read the World's identity at boot never does.
OwnerRegisters ==
    \A i \in Instance : (inst[i] = "serving" /\ owner = i /\ i \notin anonymous) ~>
        (DispatcherReady(i) \/ inst[i] # "serving" \/ owner # i)

\* A run left on a Deployment that was archived or fell out of the window is
\* settled sooner or later, quarantined or not: it does not wait for ever as
\* active.  A drain over `archived' takes it out of the reconciler's sight.
OrphansSettle ==
    \A r \in Run : (Active(r) /\ (hostStatus[RunOn[r]] = "archived" \/ RunOn[r] \notin supported))
        ~> (~Active(r) \/ RunOn[r] \in reopened \cap supported)
=============================================================================
