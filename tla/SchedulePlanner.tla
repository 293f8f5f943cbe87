-------------------------- MODULE SchedulePlanner --------------------------
(***************************************************************************)
(* The planner of one Project: projectSchedules with their next run, the   *)
(* Deployment the Project's schedules are pointed at, the immutable        *)
(* ScheduleVersions, and the ScheduleRuns that ticks turn into.            *)
(*                                                                         *)
(* An action is one transaction.  A cron expression is the set of instants *)
(* it matches; getNextRunAt throws once there is none left.  The instant a *)
(* retarget computes from is read before its transaction gets the row      *)
(* locks, so a planner pass may commit in between.                         *)
(***************************************************************************)
EXTENDS Naturals, FiniteSets, FiniteSetsExt

CONSTANTS
    Schedule,       \* the Project's schedule keys
    TargetDeployment,
    RevisionOf,     \* [TargetDeployment -> SourceRevision], through its Release
    Cron,           \* [<<schedule, revision>> -> instants], its domain the definitions
    NoTime, NoTarget,
    BatchLimit,     \* rows of one planner pass
    Prewarm,        \* the prewarm window, 0 when off
    MaxTime,        \* bound: the clock
    MaxManual,      \* bound: runs started by hand
    MaxRetargets,   \* bound: promotions
    LateRetarget    \* a retarget may have read its clock before a planner pass

Revision == {RevisionOf[d] : d \in TargetDeployment}

ASSUME ScheduleAssumption ==
    /\ DOMAIN Cron \subseteq Schedule \X Revision
    /\ \A v \in DOMAIN Cron : Cron[v] \subseteq Nat /\ IsFiniteSet(Cron[v])
    /\ NoTime \notin Nat
    /\ NoTarget \notin TargetDeployment
ASSUME PlannerBoundAssumption ==
    /\ BatchLimit \in Nat \ {0}
    /\ {Prewarm, MaxTime, MaxManual, MaxRetargets} \subseteq Nat
    /\ LateRetarget \in BOOLEAN

VARIABLES
    clock,
    target,         \* projectSchedulerTargets
    retarget,       \* the open retarget: its Deployment and the instant it read
    enabled,        \* projectSchedules.enabled
    nextRunAt,      \* projectSchedules.nextRunAt
    versions,       \* scheduleVersions recorded so far
    scheduleRuns,
    prewarmed,      \* Deployments holding a prewarm lease
    since,          \* history: the instant the current target was set from
    retargets

planVars == <<clock, target, retarget, enabled, nextRunAt, versions, scheduleRuns,
              prewarmed, since, retargets>>

-----------------------------------------------------------------------------
(***************************************************************************)
(* Cron                                                                    *)
(***************************************************************************)
After(v, t) == {x \in Cron[v] : x > t}

\* getNextRunAt: the first instant strictly later.  Throws when there is none.
HasNextRunAt(v, t) == After(v, t) # {}
GetNextRunAt_inclusive(v, t) == Min(After(v, t) \cup (Cron[v] \cap {t}))

GetNextRunAt(v, t) == Min(After(v, t))

\* calculateScheduleAdvance: walk from dueAt past now, counting the instants
\* stepped over.
CalculateScheduleAdvance_dropsNow(v, dueAt, now) ==
    [nextRunAt |-> GetNextRunAt(v, IF now > dueAt THEN now ELSE dueAt),
     missedTicks |-> Cardinality({x \in After(v, dueAt) : x < now})]

CalculateScheduleAdvance(v, dueAt, now) ==
    [nextRunAt |-> GetNextRunAt(v, IF now > dueAt THEN now ELSE dueAt),
     missedTicks |-> Cardinality({x \in After(v, dueAt) : x <= now})]

-----------------------------------------------------------------------------
(***************************************************************************)
(* Versions and the target                                                 *)
(***************************************************************************)
\* recordScheduleVersions: one version per schedule the revision defines.  An
\* existing version is left as it is (a different definition is refused).
RecordScheduleVersions(r) ==
    /\ versions' = versions \cup {v \in DOMAIN Cron : v[2] = r}
    /\ versions' # versions
    /\ UNCHANGED <<clock, target, retarget, enabled, nextRunAt, scheduleRuns,
                   prewarmed, since, retargets>>

Targeted(s) == <<s, RevisionOf[target]>>

\* setProjectSchedulerTarget or promoteDeployment reads its clock ...
RetargetBegins(d) ==
    /\ retarget.deployment = NoTarget
    /\ retargets < MaxRetargets
    /\ retargets' = retargets + 1
    /\ retarget' = [deployment |-> d, now |-> clock]
    /\ UNCHANGED <<clock, target, enabled, nextRunAt, versions, scheduleRuns,
                   prewarmed, since>>

\* ... and commits: every schedule's next run is computed again.  getNextRunAt
\* throwing rolls the whole transaction back.
Schedulable(s, d) == enabled[s] /\ <<s, RevisionOf[d]>> \in versions

ApplySchedulerTarget ==
    LET d == retarget.deployment
        v(s) == <<s, RevisionOf[d]>>
    IN  /\ d # NoTarget
        /\ LateRetarget \/ retarget.now = clock
        /\ IF \A s \in Schedule : Schedulable(s, d) => HasNextRunAt(v(s), retarget.now)
           THEN /\ target' = d
                /\ nextRunAt' = [s \in Schedule |-> IF Schedulable(s, d)
                                    THEN GetNextRunAt(v(s), retarget.now) ELSE NoTime]
                /\ since' = retarget.now
           ELSE UNCHANGED <<target, nextRunAt, since>>
        /\ retarget' = [deployment |-> NoTarget, now |-> 0]
        /\ UNCHANGED <<clock, enabled, versions, scheduleRuns, prewarmed, retargets>>

-----------------------------------------------------------------------------
(***************************************************************************)
(* Runs                                                                    *)
(***************************************************************************)
\* createManualScheduleRun
ManualRuns == {r \in scheduleRuns : r.trigger = "manual"}

CreateManualScheduleRun(s) ==
    /\ Cardinality(ManualRuns) < MaxManual
    /\ enabled[s]
    /\ target # NoTarget
    /\ Targeted(s) \in versions
    /\ scheduleRuns' = scheduleRuns \cup
          {[version |-> Targeted(s), deployment |-> target, dueAt |-> clock,
            trigger |-> "manual", missedTicks |-> 0]}
    /\ UNCHANGED <<clock, target, retarget, enabled, nextRunAt, versions, prewarmed,
                   since, retargets>>

\* claimDueScheduleRuns: the oldest due schedules, at most BatchLimit.  One with
\* no further instant is disabled; one whose (version, dueAt) already has a cron
\* run is passed over as it is; the others get a run and advance past now.
Due == {s \in Schedule : /\ target # NoTarget
                         /\ enabled[s]
                         /\ Targeted(s) \in versions
                         /\ nextRunAt[s] # NoTime
                         /\ nextRunAt[s] <= clock}
OldestDue(batch) ==
    /\ batch \subseteq Due
    /\ Cardinality(batch) = Min({BatchLimit, Cardinality(Due)})
    /\ \A s \in batch, u \in Due \ batch : nextRunAt[s] <= nextRunAt[u]
Exhausted(s) == ~ HasNextRunAt(Targeted(s), clock)
AlreadyRun(s) == \E r \in scheduleRuns : /\ r.version = Targeted(s)
                                         /\ r.dueAt = nextRunAt[s]
                                         /\ r.trigger = "cron"
Advance(s) == CalculateScheduleAdvance(Targeted(s), nextRunAt[s], clock)

\* planDueSchedules then leases the targets of what falls due within the window;
\* a target that just got a run is being woken already.
Upcoming == {s \in Schedule : /\ target # NoTarget
                              /\ enabled[s]
                              /\ nextRunAt[s] # NoTime
                              /\ clock < nextRunAt[s] /\ nextRunAt[s] <= clock + Prewarm}

ClaimDueScheduleRuns_skipsExhausted(batch, fires) ==
    /\ UNCHANGED enabled
    /\ nextRunAt' = [s \in Schedule |-> IF s \in fires THEN Advance(s).nextRunAt
                                        ELSE nextRunAt[s]]
    /\ scheduleRuns' = scheduleRuns \cup
          {[version |-> Targeted(s), deployment |-> target, dueAt |-> nextRunAt[s],
            trigger |-> "cron", missedTicks |-> Advance(s).missedTicks] : s \in fires}

ClaimDueScheduleRuns(batch, fires) ==
    /\ enabled' = [s \in Schedule |-> enabled[s] /\ ~ (s \in batch /\ Exhausted(s))]
    /\ nextRunAt' = [s \in Schedule |-> IF s \in fires THEN Advance(s).nextRunAt
                                        ELSE IF enabled'[s] THEN nextRunAt[s] ELSE NoTime]
    /\ scheduleRuns' = scheduleRuns \cup
          {[version |-> Targeted(s), deployment |-> target, dueAt |-> nextRunAt[s],
            trigger |-> "cron", missedTicks |-> Advance(s).missedTicks] : s \in fires}

PlanDueSchedules ==
    \E batch \in SUBSET Due :
        LET fires == {s \in batch : ~ Exhausted(s) /\ ~ AlreadyRun(s)}
        IN  /\ OldestDue(batch)
            /\ ClaimDueScheduleRuns(batch, fires)
            /\ UNCHANGED <<clock, target, retarget, versions, since, retargets>>
            /\ prewarmed' = prewarmed \cup
                  (IF Upcoming' # {} /\ fires = {} THEN {target} ELSE {})

PlanTick ==
    /\ clock < MaxTime
    /\ clock' = clock + 1
    /\ UNCHANGED <<target, retarget, enabled, nextRunAt, versions, scheduleRuns,
                   prewarmed, since, retargets>>

PlanInit ==
    /\ clock = 0
    /\ target = NoTarget
    /\ retarget = [deployment |-> NoTarget, now |-> 0]
    /\ enabled = [s \in Schedule |-> TRUE]
    /\ nextRunAt = [s \in Schedule |-> NoTime]
    /\ versions = {}
    /\ scheduleRuns = {}
    /\ prewarmed = {}
    /\ since = 0
    /\ retargets = 0

PlanNext ==
    \/ PlanTick
    \/ \E r \in Revision : RecordScheduleVersions(r)
    \/ \E d \in TargetDeployment : RetargetBegins(d)
    \/ ApplySchedulerTarget
    \/ \E s \in Schedule : CreateManualScheduleRun(s)
    \/ PlanDueSchedules

\* The worker's planner loop keeps passing and no retarget stays open.
PlanFairness == WF_planVars(PlanDueSchedules) /\ WF_planVars(ApplySchedulerTarget)

PlanSpec == PlanInit /\ [][PlanNext]_planVars /\ PlanFairness

-----------------------------------------------------------------------------
(***************************************************************************)
(* Properties                                                              *)
(***************************************************************************)
Instant == 0 .. MaxTime
RunRow == [version : DOMAIN Cron, deployment : TargetDeployment, dueAt : Nat,
           trigger : {"cron", "manual"}, missedTicks : Nat]

\* The planner's rows have their types, and a row with a next run is enabled.
PlanTypeOK ==
    /\ clock \in Instant /\ since \in Instant
    /\ target \in TargetDeployment \cup {NoTarget}
    /\ retarget \in [deployment : TargetDeployment \cup {NoTarget}, now : Instant]
    /\ enabled \in [Schedule -> BOOLEAN]
    /\ nextRunAt \in [Schedule -> Nat \cup {NoTime}]
    /\ versions \subseteq DOMAIN Cron
    /\ scheduleRuns \subseteq RunRow
    /\ prewarmed \subseteq TargetDeployment
    /\ retargets \in 0 .. MaxRetargets
    /\ \A s \in Schedule : nextRunAt[s] # NoTime => enabled[s]

\* The instants a cron run stands for: its own and the ones it counts as missed.
Covers(r, t) ==
    /\ r.trigger = "cron"
    /\ t \in Cron[r.version]
    /\ t >= r.dueAt
    /\ Cardinality({x \in Cron[r.version] : r.dueAt < x /\ x <= t}) <= r.missedTicks

\* No instant of a schedule is run twice: two cron runs of one schedule, even of
\* two versions around a promotion, never stand for the same instant
\* (claimDueScheduleRuns, applySchedulerTargetTx).
NoTickTwice ==
    \A r, q \in scheduleRuns :
        r # q /\ r.version[1] = q.version[1]
            => ~ \E t \in Cron[r.version] : Covers(r, t) /\ Covers(q, t)

\* Coalescing loses nothing: since the target was set, every instant before the
\* next run is the dueAt of a run or counted in the missedTicks of one
\* (calculateScheduleAdvance).
TicksAccounted ==
    \A s \in Schedule : nextRunAt[s] # NoTime =>
        \A t \in Cron[Targeted(s)] : since < t /\ t < nextRunAt[s] =>
            \E r \in scheduleRuns : r.version = Targeted(s) /\ Covers(r, t)

\* The rows on which a pass leaves its mark nowhere: the insert conflicts with
\* the run their tick already has, and their next run stays where it is.
PassedOver == {s \in Due : AlreadyRun(s) /\ ~ Exhausted(s)}

\* A schedule that is due is served: the planner's passes get to it however many
\* others are due, and leave it with a later next run or disabled
\* (claimDueScheduleRuns: limit and order).  Not so once late retargets have set
\* next runs back to ticks that were run: such a row stays due for ever, and as
\* many of them as fit a batch leave no place for the others.
DueIsServed ==
    \A s \in Schedule :
        s \in Due ~> (s \notin Due \/ s \in PassedOver \/ Cardinality(PassedOver) >= BatchLimit)
=============================================================================
