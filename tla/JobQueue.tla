------------------------------ MODULE JobQueue ------------------------------
(***************************************************************************)
(* The durable job queue: the rows of the Postgres table "jobs", the API   *)
(* and planner transactions that insert into it, and the worker's pump     *)
(* loops that claim rows, execute them under a heartbeat and settle them.  *)
(*                                                                         *)
(* One action is one database statement or transaction (the atomic unit    *)
(* the processes share) together with the in-process step around it.       *)
(* claimNextJob is two actions: the sub-select reads its snapshot and      *)
(* locks the candidate row, the UPDATE commits later.                      *)
(*                                                                         *)
(* Time is abstracted to the one thing recovery can tell: lease[j] is      *)
(* "stale" when jobs.locked_at <= now - staleAfterMs.  Job ids are the     *)
(* positions in the order (created_at, sequence).                          *)
(***************************************************************************)
EXTENDS Naturals, FiniteSets

CONSTANTS
    Project,        \* projects
    Deployment,     \* Deployment ids a payload may name
    Instance,       \* RuntimeInstance ids a payload may name
    None,           \* SQL NULL / "no such payload field"
    JobSpecs,       \* the (type, payload) pairs clients enqueue
    Loop,           \* the concurrent loops of the worker's job pump
    HeavyCap,       \* maxConcurrentHeavyJobs
    MaxJobs,        \* bound: rows ever inserted
    MaxAttempts,    \* bound: attempts up to which a live lease may lapse
    MaxCrashes      \* bound: crashes of the worker process

Job == 1..MaxJobs

JobType == {"import_source", "build_deploy", "restart_deployment",
            "trigger_schedule", "ensure_deployment_running",
            "archive_deployment", "delete_project"}

\* `valid` is FALSE for a row that jobRowToJob no longer accepts (a payload
\* persisted under an older contract).
SpecType == [type: JobType, project: Project, deployment: Deployment \cup {None},
             instance: Instance \cup {None}, valid: BOOLEAN]

DeleteSpec(p) == [type |-> "delete_project", project |-> p, deployment |-> None,
                  instance |-> None, valid |-> TRUE]

KnownSpecs == JobSpecs \cup {DeleteSpec(p) : p \in Project}

ASSUME SpecAssumption ==
    /\ Project # {}
    /\ JobSpecs \subseteq SpecType
    /\ \A s \in JobSpecs : s.type # "delete_project"
ASSUME BoundAssumption ==
    /\ HeavyCap \in Nat \ {0}
    /\ MaxJobs \in Nat
    /\ MaxAttempts \in Nat
    /\ MaxCrashes \in Nat
ASSUME NoneAssumption == None \notin Deployment \cup Instance \cup Job

VARIABLES
    status,     \* jobs.status, "absent" when there is no row
    spec,       \* jobs.type, project_id and payload
    attempts,   \* jobs.attempts, the fence
    lease,      \* jobs.locked_at: "none" (NULL), "fresh" or "stale"
    deletion,   \* projects.deletion_status; "gone" when the row is deleted
    nextJob,    \* the next job id
    phase,      \* where a pump loop is
    cur,        \* the job a loop handles, None when idle
    held,       \* the attempts value the loop claimed the job with
    aborted,    \* the AbortSignal of the loop's execution
    crashes     \* crashes so far

rowVars == <<status, spec, attempts, lease>>
loopVars == <<phase, cur, held, aborted>>
vars == <<status, spec, attempts, lease, deletion, nextJob, phase, cur, held,
          aborted, crashes>>

-----------------------------------------------------------------------------
(***************************************************************************)
(* Job families and the exclusion they need                                *)
(***************************************************************************)
HeavyJobTypes == {"build_deploy"}
LatencySensitiveJobTypes == {"ensure_deployment_running", "trigger_schedule"}
ProjectMutationJobTypes == {"import_source", "build_deploy"}
DeploymentScopedJobTypes == {"ensure_deployment_running", "restart_deployment",
                             "archive_deployment", "trigger_schedule"}

DeploymentScoped(s) == s.type \in DeploymentScopedJobTypes
UnknownTarget(s) == DeploymentScoped(s) /\ s.deployment = None

\* The exclusion predicate of claimNextJob's NOT EXISTS sub-query.
Conflict(c, r) ==
    /\ c.project = r.project
    /\ \/ c.type = "delete_project"
       \/ r.type = "delete_project"
       \/ UnknownTarget(c)
       \/ UnknownTarget(r)
       \/ c.type \in ProjectMutationJobTypes /\ r.type \in ProjectMutationJobTypes
       \/ DeploymentScoped(c) /\ DeploymentScoped(r) /\ c.deployment = r.deployment

Running == {j \in Job : status[j] = "running"}
RunningHeavy == {j \in Running : spec[j].type \in HeavyJobTypes}
Active(j) == status[j] \in {"queued", "running"}

\* A claim in flight holds the pump's claimChain from the sub-select until the
\* claimed row has been decoded (or quarantined).
Claiming(l) == phase[l] \in {"locked", "decode"}

-----------------------------------------------------------------------------
(***************************************************************************)
(* Enqueueing: the API, the planner and the import handler                 *)
(***************************************************************************)
\* The one jobs INSERT.  Middleware refuses mutations of a deleting project
\* before this transaction, not inside it, and the planner and the internal
\* activation routes do not look: only the foreign key counts.
insertJobRowTx(s) ==
    /\ nextJob \in Job
    /\ deletion[s.project] # "gone"
    /\ status' = [status EXCEPT ![nextJob] = "queued"]
    /\ spec' = [spec EXCEPT ![nextJob] = s]
    /\ nextJob' = nextJob + 1
    /\ UNCHANGED <<attempts, lease>>

enqueueJob(s) ==
    /\ s.type \notin {"archive_deployment", "ensure_deployment_running"}
    /\ insertJobRowTx(s)
    /\ UNCHANGED <<deletion, crashes, phase, cur, held, aborted>>

\* At most one queued or running archive per Deployment.
enqueueDeploymentArchive(s) ==
    /\ s.type = "archive_deployment"
    /\ ~\E j \in Job : /\ Active(j)
                       /\ spec[j].type = s.type
                       /\ spec[j].project = s.project
                       /\ spec[j].deployment = s.deployment
    /\ insertJobRowTx(s)
    /\ UNCHANGED <<deletion, crashes, phase, cur, held, aborted>>

ActivationFor(j, s) ==
    /\ Active(j)
    /\ spec[j].type = s.type
    /\ spec[j].project = s.project
    /\ spec[j].instance = s.instance

\* At most one queued or running activation per RuntimeInstance; the newest one
\* found running with a stale lease is put back in the queue instead.
enqueueDeploymentActivation(s) ==
    /\ s.type = "ensure_deployment_running"
    /\ \/ /\ ~\E j \in Job : ActivationFor(j, s)
          /\ insertJobRowTx(s)
       \/ \E j \in Job :
             /\ ActivationFor(j, s)
             /\ \A k \in Job : ActivationFor(k, s) => k <= j
             /\ status[j] = "running" /\ lease[j] = "stale"
             /\ status' = [status EXCEPT ![j] = "queued"]
             /\ lease' = [lease EXCEPT ![j] = "none"]
             /\ UNCHANGED <<spec, attempts, nextJob>>
    /\ UNCHANGED <<deletion, crashes, phase, cur, held, aborted>>

\* DELETE /projects/:id.  Deletes the project's queued rows, so it waits for a
\* claim that holds the lock on one of them.
requestProjectDeletion(p) ==
    /\ deletion[p] \in {"none", "failed"}
    /\ nextJob \in Job
    /\ ~\E l \in Loop : phase[l] = "locked" /\ spec[cur[l]].project = p
    /\ deletion' = [deletion EXCEPT ![p] = "deleting"]
    /\ status' = [j \in Job |->
                    IF j = nextJob THEN "queued"
                    ELSE IF status[j] = "queued" /\ spec[j].project = p THEN "absent"
                    ELSE status[j]]
    /\ spec' = [spec EXCEPT ![nextJob] = DeleteSpec(p)]
    /\ nextJob' = nextJob + 1
    /\ UNCHANGED <<attempts, lease, crashes, phase, cur, held, aborted>>

-----------------------------------------------------------------------------
(***************************************************************************)
(* Claiming                                                                *)
(***************************************************************************)
Eligible(j) ==
    /\ status[j] = "queued"
    /\ ~\E r \in Running \ {j} : Conflict(spec[j], spec[r])
    /\ deletion[spec[j].project] # "deleting" \/ spec[j].type = "delete_project"
    /\ spec[j].type \in HeavyJobTypes => Cardinality(RunningHeavy) < HeavyCap
    /\ ~\E l \in Loop : phase[l] = "locked" /\ cur[l] = j    \* SKIP LOCKED

\* ORDER BY latency class, created_at, sequence.
ClaimedBefore(j, k) ==
    LET class(i) == IF spec[i].type \in LatencySensitiveJobTypes THEN 0 ELSE 1
    IN  class(j) < class(k) \/ (class(j) = class(k) /\ j < k)

\* Mutant: loops claim in parallel.
ClaimChainFree_parallel == TRUE

\* claimSerialized admits a claim only after every earlier one has resolved.
ClaimChainFree == ~\E l \in Loop : Claiming(l)

SelectCandidate(l) ==
    /\ phase[l] = "idle"
    /\ ClaimChainFree
    /\ \E j \in Job :
          /\ Eligible(j)
          /\ \A k \in Job \ {j} : Eligible(k) => ClaimedBefore(j, k)
          /\ cur' = [cur EXCEPT ![l] = j]
    /\ phase' = [phase EXCEPT ![l] = "locked"]
    /\ UNCHANGED <<rowVars, deletion, nextJob, held, aborted, crashes>>

\* Mutant: a claim does not count the attempt.
CommitClaim_sameAttempt(l) ==
    /\ phase[l] = "locked"
    /\ LET j == cur[l]
       IN  /\ status' = [status EXCEPT ![j] = "running"]
           /\ lease' = [lease EXCEPT ![j] = "fresh"]
           /\ held' = [held EXCEPT ![l] = attempts[j]]
           /\ phase' = [phase EXCEPT ![l] = IF spec[j].valid THEN "work" ELSE "decode"]
    /\ aborted' = [aborted EXCEPT ![l] = FALSE]
    /\ UNCHANGED <<spec, attempts, deletion, nextJob, cur, crashes>>

CommitClaim(l) ==
    /\ phase[l] = "locked"
    /\ LET j == cur[l]
       IN  /\ status' = [status EXCEPT ![j] = "running"]
           /\ attempts' = [attempts EXCEPT ![j] = @ + 1]
           /\ lease' = [lease EXCEPT ![j] = "fresh"]
           /\ held' = [held EXCEPT ![l] = attempts[j] + 1]
           /\ phase' = [phase EXCEPT ![l] = IF spec[j].valid THEN "work" ELSE "decode"]
    /\ aborted' = [aborted EXCEPT ![l] = FALSE]
    /\ UNCHANGED <<spec, deletion, nextJob, cur, crashes>>

-----------------------------------------------------------------------------
(***************************************************************************)
(* Executing and settling                                                  *)
(***************************************************************************)
\* The fence of every row update an execution makes:
\* status = 'running' AND attempts = <the attempt this execution claimed>.
Fence(l) == status[cur[l]] = "running" /\ attempts[cur[l]] = held[l]

Idle(l) ==
    /\ phase' = [phase EXCEPT ![l] = "idle"]
    /\ cur' = [cur EXCEPT ![l] = None]
    /\ held' = [held EXCEPT ![l] = 0]
    /\ aborted' = [aborted EXCEPT ![l] = FALSE]

Settle(j, outcome) ==
    /\ status' = [status EXCEPT ![j] = outcome]
    /\ lease' = [lease EXCEPT ![j] = "none"]

\* An invalid row is failed under the fence; claimNextJob then selects again.
QuarantineInvalidJob(l) ==
    /\ phase[l] = "decode"
    /\ IF Fence(l) THEN Settle(cur[l], "failed") ELSE UNCHANGED <<status, lease>>
    /\ Idle(l)
    /\ UNCHANGED <<spec, attempts, deletion, nextJob, crashes>>

\* A heartbeat that finds the fence gone aborts the execution.  One that cannot
\* reach the database is swallowed: here, it is not taken.
heartbeatJob(l) ==
    /\ phase[l] = "work"
    /\ \/ /\ Fence(l)
          /\ lease' = [lease EXCEPT ![cur[l]] = "fresh"]
          /\ UNCHANGED aborted
       \/ /\ ~Fence(l)
          /\ aborted' = [aborted EXCEPT ![l] = TRUE]
          /\ UNCHANGED lease
    /\ UNCHANGED <<status, spec, attempts, deletion, nextJob, phase, cur, held, crashes>>

\* The last statement of the delete_project handler: one transaction removes
\* the project and everything that refers to it, its own job row included.
deleteProject(l) ==
    /\ phase[l] = "work"
    /\ spec[cur[l]].type = "delete_project"
    /\ LET p == spec[cur[l]].project
       IN  /\ deletion[p] # "gone"
           /\ ~\E k \in Loop : phase[k] = "locked" /\ spec[cur[k]].project = p
           /\ deletion' = [deletion EXCEPT ![p] = "gone"]
           /\ status' = [j \in Job |-> IF spec[j].project = p THEN "absent" ELSE status[j]]
           /\ lease' = [j \in Job |-> IF spec[j].project = p THEN "none" ELSE lease[j]]
    /\ UNCHANGED <<spec, attempts, nextJob, phase, cur, held, aborted, crashes>>

\* The handler returned.  A delete_project handler returns only once the
\* project is gone.
completeJob(l) ==
    /\ phase[l] = "work"
    /\ spec[cur[l]].type = "delete_project" => deletion[spec[cur[l]].project] = "gone"
    /\ IF Fence(l) THEN Settle(cur[l], "completed") ELSE UNCHANGED <<status, lease>>
    /\ Idle(l)
    /\ UNCHANGED <<spec, attempts, deletion, nextJob, crashes>>

\* Mutant: the failure is settled for the project whether or not the fenced
\* update succeeded.
failJob_settlesAnyway(l) ==
    /\ phase[l] = "work"
    /\ IF Fence(l) THEN Settle(cur[l], "failed") ELSE UNCHANGED <<status, lease>>
    /\ phase' = [phase EXCEPT ![l] = "settle"]
    /\ UNCHANGED <<spec, attempts, deletion, nextJob, cur, held, aborted, crashes>>

\* The handler threw, of its own or because its signal was aborted.  Only the
\* execution whose fenced update succeeded goes on to settle what the failure
\* means for the project.
failJob(l) ==
    /\ phase[l] = "work"
    /\ IF Fence(l)
         THEN /\ Settle(cur[l], "failed")
              /\ phase' = [phase EXCEPT ![l] = "settle"]
              /\ UNCHANGED <<cur, held, aborted>>
         ELSE /\ UNCHANGED <<status, lease>>
              /\ Idle(l)
    /\ UNCHANGED <<spec, attempts, deletion, nextJob, crashes>>

\* Mutant: the hook records nothing.
settleJobFailure_silent(l) ==
    /\ phase[l] = "settle"
    /\ Idle(l)
    /\ UNCHANGED <<rowVars, deletion, nextJob, crashes>>

\* The onFailure hook of the job family.  Only delete_project's touches state
\* the queue depends on: setProjectDeletionFailed.
settleJobFailure(l) ==
    /\ phase[l] = "settle"
    /\ LET s == spec[cur[l]]
       IN  IF s.type = "delete_project" /\ deletion[s.project] # "gone"
             THEN deletion' = [deletion EXCEPT ![s.project] = "failed"]
             ELSE UNCHANGED deletion
    /\ Idle(l)
    /\ UNCHANGED <<rowVars, nextJob, crashes>>

-----------------------------------------------------------------------------
(***************************************************************************)
(* Time, recovery and crashes                                              *)
(***************************************************************************)
Owned(j) == \E l \in Loop : cur[l] = j /\ phase[l] \in {"decode", "work"} /\ held[l] = attempts[j]

\* staleAfterMs passes since the last heartbeat although the execution is alive
\* (database unreachable, event loop stalled).
LiveLeaseLapses(j) ==
    /\ status[j] = "running" /\ lease[j] = "fresh"
    /\ Owned(j) /\ attempts[j] < MaxAttempts
    /\ lease' = [lease EXCEPT ![j] = "stale"]
    /\ UNCHANGED <<status, spec, attempts, deletion, nextJob, loopVars, crashes>>

\* The same for a row whose execution died with its worker.
OrphanLeaseLapses(j) ==
    /\ status[j] = "running" /\ lease[j] = "fresh"
    /\ ~Owned(j)
    /\ lease' = [lease EXCEPT ![j] = "stale"]
    /\ UNCHANGED <<status, spec, attempts, deletion, nextJob, loopVars, crashes>>

\* Mutant: the sweep looks for rows nobody has locked.
recoverStaleJobs_unlocked ==
    /\ \E j \in Running : lease[j] = "none"
    /\ status' = [j \in Job |-> IF j \in Running /\ lease[j] = "none" THEN "queued" ELSE status[j]]
    /\ UNCHANGED <<spec, attempts, lease, deletion, nextJob, loopVars, crashes>>

\* The control loop's sweep: every stale running row goes back to the queue
\* (attempts unchanged, so the next claim fences the old execution off).
recoverStaleJobs ==
    /\ \E j \in Running : lease[j] = "stale"
    /\ status' = [j \in Job |-> IF j \in Running /\ lease[j] = "stale" THEN "queued" ELSE status[j]]
    /\ lease' = [j \in Job |-> IF j \in Running /\ lease[j] = "stale" THEN "none" ELSE lease[j]]
    /\ UNCHANGED <<spec, attempts, deletion, nextJob, loopVars, crashes>>

\* The worker process dies and systemd starts a new one: its loops start idle,
\* a claim that had not committed is rolled back.
WorkerCrash ==
    /\ crashes < MaxCrashes
    /\ \E l \in Loop : phase[l] # "idle"
    /\ crashes' = crashes + 1
    /\ phase' = [l \in Loop |-> "idle"]
    /\ cur' = [l \in Loop |-> None]
    /\ held' = [l \in Loop |-> 0]
    /\ aborted' = [l \in Loop |-> FALSE]
    /\ UNCHANGED <<rowVars, deletion, nextJob>>

-----------------------------------------------------------------------------
Init ==
    /\ status = [j \in Job |-> "absent"]
    /\ spec \in [Job -> {DeleteSpec(CHOOSE p \in Project : TRUE)}]
    /\ attempts = [j \in Job |-> 0]
    /\ lease = [j \in Job |-> "none"]
    /\ deletion = [p \in Project |-> "none"]
    /\ nextJob = 1
    /\ phase = [l \in Loop |-> "idle"]
    /\ cur = [l \in Loop |-> None]
    /\ held = [l \in Loop |-> 0]
    /\ aborted = [l \in Loop |-> FALSE]
    /\ crashes = 0

Enqueue ==
    \/ \E s \in JobSpecs : \/ enqueueJob(s)
                           \/ enqueueDeploymentArchive(s)
                           \/ enqueueDeploymentActivation(s)
    \/ \E p \in Project : requestProjectDeletion(p)

LoopStep(l) ==
    \/ SelectCandidate(l) \/ CommitClaim(l) \/ QuarantineInvalidJob(l)
    \/ heartbeatJob(l) \/ deleteProject(l)
    \/ completeJob(l) \/ failJob(l) \/ settleJobFailure(l)

Lapse == \E j \in Job : LiveLeaseLapses(j) \/ OrphanLeaseLapses(j)

Next ==
    \/ Enqueue
    \/ \E l \in Loop : LoopStep(l)
    \/ Lapse
    \/ recoverStaleJobs
    \/ WorkerCrash

Spec == Init /\ [][Next]_vars

\* Pump loops retry for ever, handlers return or throw, statements commit, an
\* orphan's lease runs out, the sweep runs on every tick.  Heartbeats and new
\* requests owe nothing.
Fairness ==
    /\ \A l \in Loop :
          /\ WF_vars(SelectCandidate(l))
          /\ WF_vars(CommitClaim(l))
          /\ WF_vars(QuarantineInvalidJob(l))
          /\ WF_vars(deleteProject(l) \/ completeJob(l) \/ failJob(l))
          /\ WF_vars(settleJobFailure(l))
    /\ \A j \in Job : WF_vars(OrphanLeaseLapses(j))
    /\ WF_vars(recoverStaleJobs)

FairSpec == Spec /\ Fairness

-----------------------------------------------------------------------------
(***************************************************************************)
(* Properties                                                              *)
(***************************************************************************)
\* Every variable has the type its column or field has; ids not handed out yet
\* have no row, locked_at is set exactly while a row is running, and a loop that
\* is not idle has a job.
TypeOK ==
    /\ status \in [Job -> {"absent", "queued", "running", "completed", "failed"}]
    /\ spec \in [Job -> KnownSpecs]
    /\ attempts \in [Job -> Nat]
    /\ lease \in [Job -> {"none", "fresh", "stale"}]
    /\ deletion \in [Project -> {"none", "deleting", "failed", "gone"}]
    /\ nextJob \in 1..(MaxJobs + 1)
    /\ phase \in [Loop -> {"idle", "locked", "decode", "work", "settle"}]
    /\ cur \in [Loop -> Job \cup {None}]
    /\ held \in [Loop -> Nat]
    /\ aborted \in [Loop -> BOOLEAN]
    /\ crashes \in Nat
    /\ \A j \in Job : j >= nextJob => status[j] = "absent"
    /\ \A j \in Job : lease[j] = "none" <=> status[j] # "running"
    /\ \A l \in Loop : phase[l] # "idle" => cur[l] \in Job

Executing(l) == phase[l] \in {"decode", "work"}

\* claimNextJob's exclusion: no two running rows touch the same thing -- a
\* delete_project or a job of unknown target excludes its whole project, the
\* source-and-release lane is serial, Deployment-scoped jobs are serial per
\* Deployment.  The claim checks a snapshot and commits later, so this is the
\* work of the pump's claim chain.
ScopeExclusion ==
    \A j, k \in Running : j # k => ~Conflict(spec[j], spec[k])

\* The build cap holds although the count is read before the claim commits.
HeavyCapHeld == Cardinality(RunningHeavy) <= HeavyCap

\* What claimNextJob promises of the jobs it admits, although each claim decides
\* on a snapshot and commits later: scopes are exclusive and builds are capped.
Admission == ScopeExclusion /\ HeavyCapHeld

\* Of two executions on the same job, or on jobs that exclude each other, at
\* least one has lost its fence and can no longer change a row: stale recovery
\* may leave an old execution behind, never two that both own their row.
ConflictingExecutionsAreFenced ==
    \A l, k \in Loop :
        /\ l # k /\ Executing(l) /\ Executing(k)
        /\ cur[l] = cur[k] \/ Conflict(spec[cur[l]], spec[cur[k]])
        => ~Fence(l) \/ ~Fence(k)

\* The two-step claim looks like an atomic grant of scope locks.
Locks == INSTANCE JobLocks WITH
            Scope <- KnownSpecs, Excludes <- Conflict,
            Heavy <- LAMBDA s : s.type \in HeavyJobTypes, Cap <- HeavyCap,
            locks <- {<<j, spec[j]>> : j \in Running}
LocksSpec == Locks!LocksSpec

DeletionJobs(p) ==
    {j \in Job : Active(j) /\ spec[j].type = "delete_project" /\ spec[j].project = p}

\* A project has at most one queued or running delete_project job, and only
\* while it is marked deleting: a late failure of a superseded execution cannot
\* reopen the project under a deletion that is still going on.
DeletionJobUnique ==
    \A p \in Project : \A j, k \in DeletionJobs(p) : j = k /\ deletion[p] = "deleting"

\* No running row is forgotten: whatever becomes of the worker, an attempt ends
\* (settled, recovered as stale, or deleted with its project).
AttemptsEnd ==
    \A j \in Job, a \in 1..(MaxAttempts + MaxCrashes + 1) :
        (status[j] = "running" /\ attempts[j] = a)
            ~> ~(status[j] = "running" /\ attempts[j] = a)

\* A requested deletion ends: the project goes, or the failure is recorded --
\* unless the worker died on the way: between failJob and the failure hook that
\* leaves a project deleting with no job.
DeletionTerminates ==
    \A p \in Project :
        deletion[p] = "deleting" ~> deletion[p] \in {"failed", "gone"} \/ crashes > 0
=============================================================================
