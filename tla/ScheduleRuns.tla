---------------------------- MODULE ScheduleRuns ----------------------------
(***************************************************************************)
(* The life of one ScheduleRun after the planner queued it.  Its actors:   *)
(* the executions of its trigger_schedule job in the worker, the Scheduler *)
(* Channel inside the Agent's process, the API's dispatch route, the       *)
(* consumers that ingest the Agent's events, and the reconciler.           *)
(*                                                                         *)
(* An action is the code between two awaits that another actor can tell    *)
(* apart.  Ingest is split where its transaction reads what other open     *)
(* transactions may have written: it holds its Session's row, the          *)
(* Project's row when it projects a status, and sees committed executions. *)
(***************************************************************************)
EXTENDS Naturals, FiniteSets

CONSTANTS
    Session,        \* the Sessions the scheduled handler starts
    Delivery,       \* executions of the run's job, in the order they are claimed
    Consumer,       \* ingest transactions that may be open together
    NoSession,
    Outcome,        \* how a Session may end
    MaxFaults       \* bound: crashes of the worker and of the Agent's process

ASSUME RunAssumption ==
    /\ NoSession \notin Session
    /\ Outcome \subseteq {"succeeded", "failed", "parked"}
    /\ MaxFaults \in Nat

VARIABLES
    runStatus,         \* scheduleRuns.status
    stale,          \* an activating run's updatedAt is 300 s old
    attempt,        \* scheduleRuns.attempt
    execution,      \* scheduleRunSessions.status, "none" when not linked
    runLease,          \* the schedule_run lease: none, held, released
    expired,        \* the lease's expiresAt has passed
    leaseLost,      \* the lease names an instance that is gone
    alive,          \* the Agent's process
    job,            \* the trigger_schedule job: queued, done, or the Delivery at work
    at,             \* where a Delivery is
    leased,         \* the Delivery holds activationLeaseId
    channel,        \* where the Delivery's dispatch is in the Channel
    started,        \* Sessions that exist
    lost,           \* Sessions whose process died
    stored,         \* boundary events of a Session that have arrived
    outcome,        \* what they say
    ingest,         \* open ingest transactions
    selected,       \* the reconciler's open transaction: the executions it read
    faults

runRow == <<runStatus, stale, attempt, execution>>
leaseRow == <<runLease, expired, leaseLost>>
workerVars == <<job, at, leased>>
agentVars == <<alive, channel, started, lost>>
transactionVars == <<stored, outcome, ingest, selected>>
runVars == <<runStatus, stale, attempt, execution, runLease, expired, leaseLost, alive, job,
             at, leased, channel, started, lost, stored, outcome, ingest,
             selected, faults>>

Protected == {"queued", "activating", "dispatching", "running"}
Settled == {"succeeded", "failed", "dispatch_unknown"}
Ended == {"succeeded", "failed", "parked"}
Open == {c \in Consumer : ingest[c].session # NoSession}
Linked == {s \in Session : execution[s] # "none"}
NoIngest == [session |-> NoSession, project |-> FALSE, wrote |-> "none",
             verdict |-> "none"]
NoSelection == [sessions |-> {}, anyStatus |-> FALSE]

\* releasedAt := now where it is null
Released == IF runLease = "held" THEN "released" ELSE runLease

-----------------------------------------------------------------------------
(***************************************************************************)
(* completeScheduleRun: link the dispatched Sessions, take the status from *)
(* their executions, and let go of the lease unless one still runs.  The   *)
(* run's own status is not looked at.  Linking waits for the Session rows. *)
(***************************************************************************)
LinkedStatus(s, reported) ==
    IF execution[s] # "none" THEN execution[s]
    ELSE IF reported # "succeeded" THEN "failed"
    ELSE IF stored[s] # {} THEN outcome[s] ELSE "running"

CompletedStatus(reported, sessions, linked) ==
    LET rows == IF sessions = {} THEN {} ELSE {linked[s] : s \in Session}
    IN  IF reported = "succeeded" /\ "running" \in rows THEN "running"
        ELSE IF reported = "succeeded" /\ "failed" \in rows THEN "failed"
        ELSE reported

CompleteScheduleRun(reported, sessions) ==
    LET linked == [s \in Session |-> IF s \in sessions THEN LinkedStatus(s, reported)
                                     ELSE execution[s]]
    IN  /\ \A c \in Open : ingest[c].session \notin sessions
        /\ execution' = linked
        /\ runStatus' = CompletedStatus(reported, sessions, linked)
        /\ runLease' = IF runStatus' = "running" THEN runLease ELSE Released
        /\ UNCHANGED <<stale, attempt, expired, leaseLost>>

\* renewActivationLease: only a lease neither released nor expired.
Renewable == runLease = "held" /\ ~ expired

-----------------------------------------------------------------------------
(***************************************************************************)
(* handleTriggerScheduleJob                                                *)
(***************************************************************************)
Goes(w, place) == at' = [at EXCEPT ![w] = place]

\* The queue hands the job to an execution (JobQueue: a claim).
JobClaimed(w) ==
    /\ job = "queued"
    /\ at[w] = "new"
    /\ job' = w
    /\ Goes(w, "validating")
    /\ UNCHANGED <<runRow, leaseRow, leased, agentVars, transactionVars, faults>>

\* Validation: an unknown or disabled schedule, or provenance that does not
\* hold, throws into the handler's catch.
ValidationThrows(w) ==
    /\ at[w] = "validating"
    /\ Goes(w, "catch")
    /\ UNCHANGED <<runRow, leaseRow, job, leased, agentVars, transactionVars, faults>>

\* claimScheduleRunActivation, else "Duplicate ScheduleRun job ignored".
Claimable == runStatus = "queued" \/ (runStatus = "activating" /\ stale)

ClaimScheduleRunActivation(w) ==
    /\ at[w] = "validating"
    /\ IF Claimable
       THEN /\ runStatus' = "activating"
            /\ Goes(w, "activating")
            /\ UNCHANGED job
       ELSE /\ Goes(w, "done")
            /\ job' = "done"
            /\ UNCHANGED runStatus
    /\ stale' = FALSE
    /\ UNCHANGED <<attempt, execution, leaseRow, leased, agentVars, transactionVars,
                   faults>>

\* ensureDeploymentActive: the lease is taken (again), the process is up.
EnsureDeploymentActive(w) ==
    /\ at[w] = "activating"
    /\ runLease' = "held"
    /\ expired' = FALSE
    /\ leaseLost' = FALSE
    /\ alive' = TRUE
    /\ leased' = [leased EXCEPT ![w] = TRUE]
    /\ channel' = [channel EXCEPT ![w] = "redeem"]
    /\ Goes(w, "waiting")
    /\ UNCHANGED <<runRow, job, started, lost, transactionVars, faults>>

\* ... or it throws, having let go of its lease.
ActivationThrows(w) ==
    /\ at[w] = "activating"
    /\ runLease' = Released
    /\ Goes(w, "catch")
    /\ UNCHANGED <<runRow, expired, leaseLost, job, leased, agentVars, transactionVars,
                   faults>>

\* dispatchScheduleToRuntime returns, or throws on an error or its timeout.
DispatchReturns(w) ==
    /\ at[w] = "waiting"
    /\ channel[w] = "ok"
    /\ Goes(w, "returned")
    /\ UNCHANGED <<runRow, leaseRow, job, leased, agentVars, transactionVars, faults>>

DispatchThrows(w) ==
    /\ at[w] = "waiting"
    /\ channel[w] # "ok"
    /\ Goes(w, "catch")
    /\ UNCHANGED <<runRow, leaseRow, job, leased, agentVars, transactionVars, faults>>

\* The run is read again.
ReadsReported(w) ==
    /\ at[w] = "returned"
    /\ Goes(w, CASE runStatus = "dispatching" -> "completing"
                 [] runStatus = "running" -> "renewing"
                 [] runStatus \in {"succeeded", "failed"} -> "releasing"
                 [] OTHER -> "catch")
    /\ UNCHANGED <<runRow, leaseRow, job, leased, agentVars, transactionVars, faults>>

CompletesReported(w) ==
    /\ at[w] = "completing"
    /\ CompleteScheduleRun("succeeded", started)
    /\ Goes(w, IF runStatus' = "running" THEN "renewing" ELSE "releasing")
    /\ UNCHANGED <<job, leased, agentVars, transactionVars, faults>>

RenewsLease(w) ==
    /\ at[w] = "renewing"
    /\ IF Renewable THEN Goes(w, "done") /\ job' = "done"
                    ELSE Goes(w, "catch") /\ UNCHANGED job
    /\ UNCHANGED <<runRow, leaseRow, leased, agentVars, transactionVars, faults>>

\* catch: a run that is running keeps going under a renewed lease; one that is
\* settled is left; any other is settled by what was read.
CatchReads(w) ==
    /\ at[w] = "catch"
    /\ IF runStatus = "running" /\ leased[w]
       THEN IF Renewable THEN Goes(w, "done") /\ job' = "done"
                         ELSE Goes(w, "releasing") /\ UNCHANGED job
       ELSE /\ Goes(w, CASE runStatus \in Settled -> "releasing"
                         [] runStatus = "dispatching" -> "settle_unknown"
                         [] OTHER -> "settle_failed")
            /\ UNCHANGED job
    /\ UNCHANGED <<runRow, leaseRow, leased, agentVars, transactionVars, faults>>

CatchSettles(w) ==
    /\ at[w] \in {"settle_unknown", "settle_failed"}
    /\ CompleteScheduleRun(IF at[w] = "settle_unknown" THEN "dispatch_unknown"
                           ELSE "failed", {})
    /\ Goes(w, "releasing")
    /\ UNCHANGED <<job, leased, agentVars, transactionVars, faults>>

\* finally: a lease not handed off is released.
ReleasesLease(w) ==
    /\ at[w] = "releasing"
    /\ runLease' = IF leased[w] THEN Released ELSE runLease
    /\ Goes(w, "done")
    /\ job' = "done"
    /\ UNCHANGED <<runRow, expired, leaseLost, leased, agentVars, transactionVars, faults>>

\* The worker process dies; recovery puts the job back (JobQueue).
WorkerCrashes(w) ==
    /\ faults < MaxFaults
    /\ job = w
    /\ faults' = faults + 1
    /\ Goes(w, "crashed")
    /\ job' = "queued"
    /\ leased' = [leased EXCEPT ![w] = FALSE]
    /\ UNCHANGED <<runRow, leaseRow, agentVars, transactionVars>>

-----------------------------------------------------------------------------
(***************************************************************************)
(* The Scheduler Channel and POST /internal/scheduler/dispatch             *)
(***************************************************************************)
\* phase "claim": redeemScheduleRunDispatch.
RedeemScheduleRunDispatch_again(w) ==
    /\ alive /\ channel[w] = "redeem"
    /\ runStatus \in {"activating", "dispatching"}
    /\ runStatus' = "dispatching"
    /\ attempt' = attempt + 1
    /\ channel' = [channel EXCEPT ![w] = "handling"]
    /\ UNCHANGED <<stale, execution, leaseRow, workerVars, alive, started, lost, transactionVars,
                   faults>>

RedeemScheduleRunDispatch(w) ==
    /\ alive /\ channel[w] = "redeem"
    /\ IF runStatus = "activating"
       THEN /\ runStatus' = "dispatching"
            /\ attempt' = attempt + 1
            /\ channel' = [channel EXCEPT ![w] = "handling"]
       ELSE /\ channel' = [channel EXCEPT ![w] = "error"]
            /\ UNCHANGED <<runStatus, attempt>>
    /\ UNCHANGED <<stale, execution, leaseRow, workerVars, alive, started, lost, transactionVars,
                   faults>>

\* The authored handler: it starts Sessions, or throws, or its dispatch is
\* ambiguous (the Session may be there all the same).
HandlerSettles(w, result, sessions) ==
    /\ alive /\ channel[w] = "handling"
    /\ channel' = [channel EXCEPT ![w] = result]
    /\ started' = sessions
    /\ UNCHANGED <<runRow, leaseRow, workerVars, alive, lost, transactionVars,
                   faults>>

Reports == {"succeeded", "failed", "dispatch_unknown"}
Checked == [succeeded |-> "checked_succeeded", failed |-> "checked_failed",
            dispatch_unknown |-> "checked_unknown"]

\* phase "complete": the route reads the run's status ...
CompletionChecked(w) ==
    /\ channel[w] \in Reports
    /\ channel' = [channel EXCEPT ![w] = IF runStatus = "dispatching" THEN Checked[channel[w]]
                                         ELSE "error"]
    /\ UNCHANGED <<runRow, leaseRow, workerVars, alive, started, lost, transactionVars, faults>>

\* ... and completes it.
CompletionApplied(w) ==
    \E report \in Reports :
        /\ channel[w] = Checked[report]
        /\ CompleteScheduleRun(report, IF report = "succeeded" THEN started ELSE {})
        /\ channel' = [channel EXCEPT ![w] = IF report = "succeeded" THEN "ok" ELSE "error"]
        /\ UNCHANGED <<workerVars, alive, started, lost, transactionVars,
                       faults>>

\* A report does not get through: the Channel's catch reports a failure, and
\* gives up when that is lost as well.
ReportLost(w) ==
    /\ alive /\ channel[w] \in Reports
    /\ channel' = [channel EXCEPT ![w] = IF channel[w] = "succeeded" THEN "failed"
                                         ELSE "error"]
    /\ UNCHANGED <<runRow, leaseRow, workerVars, alive, started, lost, transactionVars, faults>>

\* The Agent's process dies: its dispatches break off (one already checked by
\* the API is applied all the same) and its Sessions send nothing more.
RuntimeDies ==
    /\ alive
    /\ faults < MaxFaults
    /\ faults' = faults + 1
    /\ alive' = FALSE
    /\ leaseLost' = (runLease # "none")
    /\ lost' = lost \cup started
    /\ channel' = [w \in Delivery |-> IF channel[w] \in {"redeem", "handling"} \cup Reports
                                      THEN "error" ELSE channel[w]]
    /\ UNCHANGED <<runRow, runLease, expired, workerVars, started, transactionVars>>

-----------------------------------------------------------------------------
(***************************************************************************)
(* ingestPostgresAgentEvent for a boundary event                           *)
(***************************************************************************)
\* A turn boundary and then a session boundary of a Session arrive, once each
\* (a duplicate is answered without effect), in any order and perhaps after the
\* process died.  Lock the Session, store the event, project the status (only a
\* session boundary does) and settle the execution if it is running.
IngestBegins(c, s, event, verdict) ==
    /\ c \notin Open
    /\ s \in started
    /\ event \notin stored[s]
    /\ stored[s] # {} => verdict = outcome[s]
    /\ \A o \in Open : ingest[o].session # s
    /\ event = "session" => \A o \in Open : ~ ingest[o].project
    /\ stored' = [stored EXCEPT ![s] = @ \cup {event}]
    /\ outcome' = [outcome EXCEPT ![s] = verdict]
    /\ ingest' = [ingest EXCEPT ![c] =
          [session |-> s, project |-> event = "session", verdict |-> "unread",
           wrote |-> IF execution[s] = "running" THEN verdict ELSE execution[s]]]
    /\ UNCHANGED <<runRow, leaseRow, workerVars, agentVars, selected, faults>>

\* Read the run's executions, those of open transactions as they were before ...
Seen(c) == [execution EXCEPT ![ingest[c].session] = ingest[c].wrote]
AllEnded(rows) == \A s \in Session : rows[s] # "running"
Verdict(rows) ==
    CASE ~ AllEnded(rows) -> "none"
      [] AllEnded(rows) /\ \E s \in Session : rows[s] = "failed" -> "failed"
      [] OTHER -> "succeeded"

IngestReads_onlyOnChange(c) ==
    /\ c \in Open
    /\ ingest[c].verdict = "unread"
    /\ ingest' = [ingest EXCEPT ![c].verdict =
          IF ingest[c].wrote = execution[ingest[c].session] THEN "none" ELSE Verdict(Seen(c))]
    /\ UNCHANGED <<runRow, leaseRow, workerVars, agentVars, stored, outcome, selected, faults>>

IngestReads(c) ==
    /\ c \in Open
    /\ ingest[c].verdict = "unread"
    /\ ingest' = [ingest EXCEPT ![c].verdict =
          IF ingest[c].wrote = "none" THEN "none" ELSE Verdict(Seen(c))]
    /\ UNCHANGED <<runRow, leaseRow, workerVars, agentVars, stored, outcome, selected, faults>>

\* ... settle a run that is running, release its lease, and commit.
IngestCommits(c) ==
    /\ c \in Open
    /\ ingest[c].verdict # "unread"
    /\ execution' = Seen(c)
    /\ IF ingest[c].verdict # "none"
       THEN /\ runStatus' = IF runStatus = "running" THEN ingest[c].verdict ELSE runStatus
            /\ runLease' = Released
       ELSE UNCHANGED <<runStatus, runLease>>
    /\ ingest' = [ingest EXCEPT ![c] = NoIngest]
    /\ UNCHANGED <<stale, attempt, expired, leaseLost, workerVars, agentVars, stored,
                   outcome, selected, faults>>

-----------------------------------------------------------------------------
(***************************************************************************)
(* The reconciler.  A transaction selects running executions and then      *)
(* updates what is still running of them, the run and its lease; an ingest *)
(* may commit in between.  Updating an execution waits for the ingest that *)
(* has updated it.                                                         *)
(***************************************************************************)
RunningExecutions == {s \in Session : execution[s] = "running"}

Selects(sessions, anyStatus) ==
    /\ selected = NoSelection /\ sessions # {}
    /\ selected' = [sessions |-> sessions, anyStatus |-> anyStatus]
    /\ UNCHANGED <<runRow, leaseRow, workerVars, agentVars, stored, outcome, ingest, faults>>

\* failExpiredScheduleExecutions updates every running execution of the run.
FailExpired_heldOnly ==
    /\ runLease = "held" /\ expired
    /\ RunningExecutions # {} /\ Selects(Session, TRUE)

FailExpiredScheduleExecutions ==
    /\ runLease # "none" /\ expired
    /\ RunningExecutions # {} /\ Selects(Session, TRUE)

\* failScheduleExecutionsForRuntimeInstance: the lease names the ended instance.
FailScheduleExecutions ==
    /\ runLease # "none" /\ leaseLost
    /\ Selects(RunningExecutions, TRUE)

\* failRunningSessionsForRuntimeInstance: the Session was last seen there.  It
\* alone looks at the run's status before it fails it.
FailRunningSessions ==
    Selects({s \in RunningExecutions \cap lost : "session" \notin stored[s]}, FALSE)

Interrupted == RunningExecutions \cap selected.sessions

FailsSelected ==
    /\ selected # NoSelection
    /\ \A c \in Open : ingest[c].session \notin Interrupted
    /\ execution' = [s \in Session |-> IF s \in Interrupted THEN "failed" ELSE execution[s]]
    /\ runStatus' = IF selected.anyStatus \/ runStatus = "running" THEN "failed" ELSE runStatus
    /\ runLease' = Released
    /\ selected' = NoSelection
    /\ UNCHANGED <<stale, attempt, expired, leaseLost, workerVars, agentVars, stored, outcome,
                   ingest, faults>>

\* Time: an activation grows stale, a lease runs out (where anyone would notice).
ActivationAges ==
    /\ runStatus = "activating" /\ ~ stale
    /\ stale' = TRUE
    /\ UNCHANGED <<runStatus, attempt, execution, leaseRow, workerVars, agentVars, transactionVars,
                   faults>>

LeaseExpires ==
    /\ runLease = "held" \/ RunningExecutions # {}
    /\ ~ expired
    /\ expired' = TRUE
    /\ UNCHANGED <<runRow, runLease, leaseLost, workerVars, agentVars, transactionVars, faults>>

-----------------------------------------------------------------------------
RunInit ==
    /\ runStatus = "queued"
    /\ stale = FALSE
    /\ attempt = 0
    /\ execution = [s \in Session |-> "none"]
    /\ runLease = "none" /\ expired = FALSE /\ leaseLost = FALSE
    /\ alive = FALSE
    /\ job = "queued"
    /\ at = [w \in Delivery |-> "new"]
    /\ leased = [w \in Delivery |-> FALSE]
    /\ channel = [w \in Delivery |-> "none"]
    /\ started = {} /\ lost = {}
    /\ stored = [s \in Session |-> {}]
    /\ outcome = [s \in Session |-> "running"]
    /\ ingest = [c \in Consumer |-> NoIngest] /\ selected = NoSelection
    /\ faults = 0

WorkerStep(w) ==
    \/ JobClaimed(w) \/ ClaimScheduleRunActivation(w) \/ EnsureDeploymentActive(w)
    \/ DispatchReturns(w) \/ ReadsReported(w) \/ CompletesReported(w)
    \/ RenewsLease(w) \/ CatchReads(w) \/ CatchSettles(w) \/ ReleasesLease(w)
    \/ DispatchThrows(w)

ChannelStep(w) ==
    \/ RedeemScheduleRunDispatch(w) \/ CompletionChecked(w) \/ CompletionApplied(w)
    \/ \E result \in Reports, sessions \in SUBSET Session : HandlerSettles(w, result, sessions)

Reconciles ==
    \/ FailExpiredScheduleExecutions \/ FailScheduleExecutions \/ FailRunningSessions
    \/ FailsSelected

RunNext ==
    \/ \E w \in Delivery : \/ WorkerStep(w) \/ ValidationThrows(w)
                           \/ ActivationThrows(w) \/ WorkerCrashes(w)
                           \/ ChannelStep(w) \/ ReportLost(w)
    \/ RuntimeDies
    \/ \E c \in Consumer, s \in Session, event \in {"turn", "session"}, verdict \in Outcome :
          IngestBegins(c, s, event, verdict)
    \/ \E c \in Consumer : IngestReads(c) \/ IngestCommits(c)
    \/ Reconciles
    \/ ActivationAges
    \/ LeaseExpires

\* The worker's loops, the API and the consumers keep running, time passes; the
\* Agent owes nothing: a Session may never reach a boundary.
RunFairness ==
    /\ \A w \in Delivery : WF_runVars(WorkerStep(w)) /\ WF_runVars(ChannelStep(w))
    /\ \A c \in Consumer : WF_runVars(IngestReads(c) \/ IngestCommits(c))
    /\ WF_runVars(FailExpiredScheduleExecutions) /\ WF_runVars(FailsSelected)
    /\ WF_runVars(LeaseExpires)

RunSpec == RunInit /\ [][RunNext]_runVars /\ RunFairness

-----------------------------------------------------------------------------
(***************************************************************************)
(* Properties                                                              *)
(***************************************************************************)
\* Rows and program counters have their types; what is linked was started.
RunTypeOK ==
    /\ runStatus \in Protected \cup Settled
    /\ execution \in [Session -> {"none", "running"} \cup Ended]
    /\ runLease \in {"none", "held", "released"}
    /\ {stale, expired, leaseLost, alive} \subseteq BOOLEAN
    /\ job \in {"queued", "done"} \cup Delivery
    /\ leased \in [Delivery -> BOOLEAN]
    /\ stored \in [Session -> SUBSET {"turn", "session"}]
    /\ \A c \in Open : ingest[c].session \in Session
    /\ selected.sessions \subseteq Session
    /\ Linked \subseteq started /\ lost \subseteq started

\* docs/en/reference/scheduling.md: "duplicate dispatch requests never trigger
\* double execution": whatever crashes, reclaims and repeats, the authored
\* handler is let in at most once.
HandlerRunsOnce ==
    /\ attempt <= 1
    /\ Cardinality({w \in Delivery : channel[w] \notin {"none", "redeem", "error"}}) <= 1

\* The run's verdict agrees with its executions.  Settling needs no second look: once the
\* last boundary of every linked Session is stored and no ingest is open, the run is not
\* left running, even when two Sessions ended in transactions that did not see each
\* other.  Succeeded has no execution that failed or still runs, even when the handler's
\* completion comes late.
VerdictAgrees ==
    /\ runStatus = "running" /\ Open = {} => \E s \in Linked : "session" \notin stored[s]
    /\ runStatus = "succeeded" => \A s \in Session : execution[s] \notin {"failed", "running"}

\* A running run is settled: by its Sessions' boundaries, by the end of its
\* instance, or at the latest by its deadline, whatever becomes of the worker
\* that dispatched it.
RunningSettles == runStatus = "running" ~> runStatus # "running"
=============================================================================
