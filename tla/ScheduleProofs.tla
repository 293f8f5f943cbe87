--------------------------- MODULE ScheduleProofs ---------------------------
(***************************************************************************)
(* Proofs about SchedulePlanner for any schedules, cron expressions,       *)
(* Deployments, batch limit and bounds: no instant is run twice, and none  *)
(* is lost.  And about ScheduleRuns for any number of Sessions, job        *)
(* executions, ingest transactions and faults: the authored handler runs   *)
(* at most once, and the run's verdict agrees with its executions.         *)
(***************************************************************************)
EXTENDS SchedulePlanner, ScheduleRuns, FiniteSetTheorems, WellFoundedInduction, TLAPS

-----------------------------------------------------------------------------
(***************************************************************************)
(* The planner.  Both of its theorems rest on what a cron run stands for.  *)
(* A run created for dueAt at the clock `now' covers the instants from     *)
(* dueAt to now and no later one, although its row only keeps their        *)
(* number.                                                                 *)
(***************************************************************************)
\* The least element of a set of instants.
LEMMA MinOf ==
    ASSUME NEW S \in SUBSET Nat, S # {}
    PROVE  Min(S) \in S /\ \A y \in S : Min(S) <= y
<1> DEFINE R == {ss \in Nat \X Nat : ss[1] < ss[2]}
<1>1. IsWellFoundedOn(R, Nat)
  BY NatLessThanWellFounded DEF OpToRel
<1> HIDE DEF R
<1>2. \E x \in S : \A y \in S : ~ (<<y, x>> \in R)
  BY <1>1, WFMin
<1>3. \E x \in S : \A y \in S : x <= y
  <2>1. PICK x \in S : \A y \in S : ~ (<<y, x>> \in R)
    BY <1>2
  <2>2. ASSUME NEW y \in S PROVE x <= y
    <3>1. x \in Nat /\ y \in Nat
      OBVIOUS
    <3>2. y < x => <<y, x>> \in R
      BY <3>1 DEF R
    <3> QED BY <2>1, <3>1, <3>2
  <2> QED BY <2>2
<1> QED BY <1>3 DEF Min

\* getNextRunAt returns the first instant after t.
LEMMA NextInstant ==
    ASSUME NEW v \in DOMAIN Cron, NEW t \in Nat, HasNextRunAt(v, t)
    PROVE  /\ GetNextRunAt(v, t) \in Cron[v] /\ GetNextRunAt(v, t) \in Nat
           /\ GetNextRunAt(v, t) > t
           /\ \A x \in Cron[v] : x > t => GetNextRunAt(v, t) <= x
<1>1. After(v, t) \in SUBSET Nat /\ After(v, t) # {}
  BY ScheduleAssumption DEF After, HasNextRunAt
<1>2. GetNextRunAt(v, t) \in After(v, t) /\ \A y \in After(v, t) : GetNextRunAt(v, t) <= y
  BY <1>1, MinOf DEF GetNextRunAt
<1> QED BY <1>1, <1>2 DEF After

-----------------------------------------------------------------------------
(***************************************************************************)
(* What a run covers                                                       *)
(***************************************************************************)
CronRun(v, d, dueAt, now) ==
    [version |-> v, deployment |-> d, dueAt |-> dueAt, trigger |-> "cron",
     missedTicks |-> Cardinality({x \in After(v, dueAt) : x <= now})]

\* A run covers what it was created for and what it stepped over, and nothing else.
LEMMA CoversExactly ==
    ASSUME NEW v \in DOMAIN Cron, NEW d, NEW dueAt \in Nat, NEW now \in Nat, dueAt <= now,
           NEW t \in Cron[v]
    PROVE  Covers(CronRun(v, d, dueAt, now), t) <=> dueAt <= t /\ t <= now
<1> DEFINE M == {x \in After(v, dueAt) : x <= now}
           U == {x \in Cron[v] : dueAt < x /\ x <= t}
           r == CronRun(v, d, dueAt, now)
<1>1. Cron[v] \subseteq Nat /\ IsFiniteSet(Cron[v]) /\ t \in Nat
  BY ScheduleAssumption
<1>2. r.version = v /\ r.dueAt = dueAt /\ r.trigger = "cron" /\ r.missedTicks = Cardinality(M)
  BY DEF CronRun
<1>3. Covers(r, t) <=> t >= dueAt /\ Cardinality(U) <= Cardinality(M)
  BY <1>2 DEF Covers
<1>4. IsFiniteSet(M) /\ IsFiniteSet(U) /\ Cardinality(M) \in Nat /\ Cardinality(U) \in Nat
  <2>1. M \in SUBSET Cron[v] /\ U \in SUBSET Cron[v]
    BY DEF After
  <2>2. IsFiniteSet(M) /\ IsFiniteSet(U)
    BY <1>1, <2>1, FS_Subset
  <2> QED BY <2>2, FS_CardinalityType
<1>5. ASSUME t <= now PROVE Cardinality(U) <= Cardinality(M)
  <2>1. U \in SUBSET M
    BY <1>1, <1>5 DEF After
  <2> QED BY <2>1, <1>4, FS_Subset
<1>6. ASSUME t > now PROVE Cardinality(U) > Cardinality(M)
  <2>1. M \in SUBSET U /\ t \in U /\ t \notin M
    BY <1>1, <1>6 DEF After
  <2> HIDE DEF M, U
  <2>2. Cardinality(M) <= Cardinality(U) /\ Cardinality(M) # Cardinality(U)
    BY <2>1, <1>4, FS_Subset
  <2> QED BY <2>2, <1>4
<1> HIDE DEF M, U, r
<1>7. Covers(r, t) <=> dueAt <= t /\ t <= now
  BY <1>1, <1>3, <1>4, <1>5, <1>6
<1> QED BY <1>7 DEF r

-----------------------------------------------------------------------------
(***************************************************************************)
(* One pass of the planner                                                 *)
(***************************************************************************)
\* The schedules that fire get a run for the instant they were due at and move to
\* the first instant after now; the others keep their next run or lose it.
Fired(fires) ==
    /\ \A s \in fires : HasNextRunAt(Targeted(s), clock)
    /\ scheduleRuns' = scheduleRuns \cup
          {CronRun(Targeted(s), target, nextRunAt[s], clock) : s \in fires}
    /\ enabled' \in [Schedule -> BOOLEAN] /\ nextRunAt' = [s \in Schedule |-> nextRunAt'[s]]
    /\ \A s \in Schedule :
          /\ s \in fires => nextRunAt'[s] = GetNextRunAt(Targeted(s), clock)
          /\ s \notin fires => nextRunAt'[s] \in {nextRunAt[s], NoTime}
          /\ nextRunAt'[s] # NoTime => enabled'[s]
    /\ UNCHANGED <<clock, target, retarget, versions, since, retargets>>
    /\ prewarmed' \subseteq prewarmed \cup (TargetDeployment \cap {target})

LEMMA Pass ==
    ASSUME PlanTypeOK, PlanDueSchedules
    PROVE  \E fires \in SUBSET Due : Fired(fires)
<1>1. PICK batch \in SUBSET Due :
         LET fires == {s \in batch : ~ Exhausted(s) /\ ~ AlreadyRun(s)}
         IN  /\ ClaimDueScheduleRuns(batch, fires)
             /\ UNCHANGED <<clock, target, retarget, versions, since, retargets>>
             /\ prewarmed' = prewarmed \cup
                   (IF Upcoming' # {} /\ fires = {} THEN {target} ELSE {})
  BY DEF PlanDueSchedules
<1> DEFINE fires == {s \in batch : ~ Exhausted(s) /\ ~ AlreadyRun(s)}
<1>2. fires \in SUBSET Due /\ fires \subseteq batch /\ \A s \in fires : ~ Exhausted(s)
  OBVIOUS
<1>3. /\ ClaimDueScheduleRuns(batch, fires)
      /\ UNCHANGED <<clock, target, retarget, versions, since, retargets>>
      /\ prewarmed' = prewarmed \cup
            (IF Upcoming' # {} /\ fires = {} THEN {target} ELSE {})
  BY <1>1
<1> HIDE DEF fires
<1>4. \A s \in fires : HasNextRunAt(Targeted(s), clock)
  BY <1>2 DEF Exhausted
<1>t. /\ clock \in Nat /\ nextRunAt \in [Schedule -> Nat \cup {NoTime}]
      /\ enabled \in [Schedule -> BOOLEAN] /\ target \in TargetDeployment \cup {NoTarget}
      /\ \A s \in Schedule : nextRunAt[s] # NoTime => enabled[s]
  BY PlannerBoundAssumption DEF PlanTypeOK, Instant
<1>5. \A s \in fires : /\ s \in Schedule /\ enabled[s]
                       /\ nextRunAt[s] \in Nat /\ nextRunAt[s] <= clock
  BY <1>2, <1>t DEF Due
<1>6. ASSUME NEW s \in fires
      PROVE  /\ Advance(s).nextRunAt = GetNextRunAt(Targeted(s), clock)
             /\ Advance(s).missedTicks =
                   Cardinality({x \in After(Targeted(s), nextRunAt[s]) : x <= clock})
  <2>1. (IF clock > nextRunAt[s] THEN clock ELSE nextRunAt[s]) = clock
    BY <1>5, <1>t
  <2> QED BY <2>1 DEF Advance, CalculateScheduleAdvance
<1>7. scheduleRuns' = scheduleRuns \cup
         {CronRun(Targeted(s), target, nextRunAt[s], clock) : s \in fires}
  <2>1. \A s \in fires :
           [version |-> Targeted(s), deployment |-> target, dueAt |-> nextRunAt[s],
            trigger |-> "cron", missedTicks |-> Advance(s).missedTicks]
             = CronRun(Targeted(s), target, nextRunAt[s], clock)
    BY <1>6 DEF CronRun
  <2>2. scheduleRuns' = scheduleRuns \cup
           {[version |-> Targeted(s), deployment |-> target, dueAt |-> nextRunAt[s],
             trigger |-> "cron", missedTicks |-> Advance(s).missedTicks] : s \in fires}
    BY <1>3 DEF ClaimDueScheduleRuns
  <2> QED BY <2>1, <2>2
<1>8. /\ enabled' = [s \in Schedule |-> enabled[s] /\ ~ (s \in batch /\ Exhausted(s))]
      /\ nextRunAt' = [s \in Schedule |-> IF s \in fires THEN Advance(s).nextRunAt
                                          ELSE IF enabled'[s] THEN nextRunAt[s] ELSE NoTime]
  BY <1>3 DEF ClaimDueScheduleRuns
<1>9. enabled' \in [Schedule -> BOOLEAN] /\ \A s \in fires : enabled'[s]
  BY <1>2, <1>5, <1>8
<1>10. \A s \in Schedule :
          /\ s \in fires => nextRunAt'[s] = GetNextRunAt(Targeted(s), clock)
          /\ s \notin fires => nextRunAt'[s] \in {nextRunAt[s], NoTime}
          /\ nextRunAt'[s] # NoTime => enabled'[s]
  <2> SUFFICES ASSUME NEW s \in Schedule
               PROVE  /\ s \in fires => nextRunAt'[s] = GetNextRunAt(Targeted(s), clock)
                      /\ s \notin fires => nextRunAt'[s] \in {nextRunAt[s], NoTime}
                      /\ nextRunAt'[s] # NoTime => enabled'[s]
    OBVIOUS
  <2>1. nextRunAt'[s] = IF s \in fires THEN Advance(s).nextRunAt
                        ELSE IF enabled'[s] THEN nextRunAt[s] ELSE NoTime
    BY <1>8
  <2>2. s \in fires => Advance(s).nextRunAt = GetNextRunAt(Targeted(s), clock)
    BY <1>6
  <2>3. s \in fires => enabled'[s]
    BY <1>9
  <2> HIDE DEF fires
  <2>4. CASE s \in fires
    BY <2>1, <2>2, <2>3, <2>4
  <2>5. CASE s \notin fires
    BY <2>1, <2>5
  <2> QED BY <2>4, <2>5
<1>11. prewarmed' \subseteq prewarmed \cup (TargetDeployment \cap {target})
  <2>1. Upcoming' # {} => target \in TargetDeployment
    BY <1>3, <1>t DEF Upcoming
  <2> QED BY <1>3, <2>1
<1>12. nextRunAt' = [s \in Schedule |-> nextRunAt'[s]]
  BY <1>8
<1> QED BY <1>2, <1>3, <1>4, <1>7, <1>9, <1>10, <1>11, <1>12 DEF Fired

-----------------------------------------------------------------------------
(***************************************************************************)
(* Types                                                                   *)
(***************************************************************************)
LEMMA PlanTypeInit == PlanInit => PlanTypeOK
BY PlannerBoundAssumption, ScheduleAssumption DEF PlanInit, PlanTypeOK, Instant

\* A due schedule's version is one of the recorded definitions.
LEMMA DueTyped ==
    ASSUME PlanTypeOK, NEW s \in Due
    PROVE  /\ s \in Schedule /\ target \in TargetDeployment
           /\ Targeted(s) \in DOMAIN Cron /\ Targeted(s)[1] = s
           /\ nextRunAt[s] \in Nat /\ nextRunAt[s] <= clock /\ clock \in Nat
BY PlannerBoundAssumption DEF PlanTypeOK, Due, Instant, Targeted

\* A run the planner or the operator creates is a row.
LEMMA CronRunTyped ==
    ASSUME NEW v \in DOMAIN Cron, NEW d \in TargetDeployment, NEW dueAt \in Nat, NEW now \in Nat
    PROVE  CronRun(v, d, dueAt, now) \in RunRow
<1> DEFINE M == {x \in After(v, dueAt) : x <= now}
<1>1. M \in SUBSET Cron[v] /\ IsFiniteSet(Cron[v])
  BY ScheduleAssumption DEF After
<1>2. Cardinality(M) \in Nat
  BY <1>1, FS_Subset, FS_CardinalityType
<1> QED BY <1>2 DEF CronRun, RunRow

LEMMA PlanTypeNext == PlanTypeOK /\ [PlanNext]_planVars => PlanTypeOK'
<1> SUFFICES ASSUME PlanTypeOK, [PlanNext]_planVars PROVE PlanTypeOK'
  OBVIOUS
<1>b. MaxTime \in Nat /\ MaxRetargets \in Nat /\ 0 \in Instant /\ NoTime \notin Nat
  BY PlannerBoundAssumption, ScheduleAssumption DEF Instant
<1>1. ASSUME PlanTick PROVE PlanTypeOK'
  BY <1>1, <1>b DEF PlanTick, PlanTypeOK, Instant
<1>2. ASSUME NEW r \in Revision, RecordScheduleVersions(r) PROVE PlanTypeOK'
  BY <1>2 DEF RecordScheduleVersions, PlanTypeOK
<1>3. ASSUME NEW d \in TargetDeployment, RetargetBegins(d) PROVE PlanTypeOK'
  BY <1>3, <1>b DEF RetargetBegins, PlanTypeOK
<1>4. ASSUME ApplySchedulerTarget PROVE PlanTypeOK'
  <2> DEFINE d == retarget.deployment
             v(s) == <<s, RevisionOf[d]>>
  <2>t. retarget.now \in Nat /\ retarget.now \in Instant /\ d \in TargetDeployment \cup {NoTarget}
    BY <1>b DEF PlanTypeOK, Instant
  <2>1. CASE \A s \in Schedule : Schedulable(s, d) => HasNextRunAt(v(s), retarget.now)
    <3>1. /\ target' = d /\ since' = retarget.now
          /\ nextRunAt' = [s \in Schedule |-> IF Schedulable(s, d)
                             THEN GetNextRunAt(v(s), retarget.now) ELSE NoTime]
          /\ UNCHANGED <<clock, enabled, versions, scheduleRuns, prewarmed, retargets>>
          /\ retarget' = [deployment |-> NoTarget, now |-> 0]
      BY <1>4, <2>1 DEF ApplySchedulerTarget
    <3>2. \A s \in Schedule : Schedulable(s, d) =>
             enabled[s] /\ GetNextRunAt(v(s), retarget.now) \in Nat
      BY <2>1, <2>t, NextInstant DEF Schedulable, PlanTypeOK
    <3> QED BY <3>1, <3>2, <2>t, <1>b DEF PlanTypeOK
  <2>2. CASE ~ \A s \in Schedule : Schedulable(s, d) => HasNextRunAt(v(s), retarget.now)
    BY <1>4, <2>2, <1>b DEF ApplySchedulerTarget, PlanTypeOK
  <2> QED BY <2>1, <2>2
<1>5. ASSUME NEW s \in Schedule, CreateManualScheduleRun(s) PROVE PlanTypeOK'
  <2>1. [version |-> Targeted(s), deployment |-> target, dueAt |-> clock,
         trigger |-> "manual", missedTicks |-> 0] \in RunRow
    BY <1>5, <1>b DEF CreateManualScheduleRun, PlanTypeOK, RunRow, Instant
  <2> QED BY <1>5, <2>1 DEF CreateManualScheduleRun, PlanTypeOK
<1>6. ASSUME PlanDueSchedules PROVE PlanTypeOK'
  <2>1. PICK fires \in SUBSET Due : Fired(fires)
    BY <1>6, Pass
  <2>2. \A s \in fires : CronRun(Targeted(s), target, nextRunAt[s], clock) \in RunRow
    BY DueTyped, CronRunTyped
  <2>3. \A s \in Schedule : nextRunAt'[s] \in Nat \cup {NoTime}
    BY <2>1, DueTyped, NextInstant DEF PlanTypeOK, Fired
  <2> QED BY <2>1, <2>2, <2>3 DEF PlanTypeOK, Fired
<1>7. CASE UNCHANGED planVars
  BY <1>7 DEF planVars, PlanTypeOK
<1> QED BY <1>1, <1>2, <1>3, <1>4, <1>5, <1>6, <1>7 DEF PlanNext

-----------------------------------------------------------------------------
(***************************************************************************)
(* No instant twice                                                        *)
(***************************************************************************)
\* Runs cover the past, and a schedule's next run lies beyond all that the runs of
\* any of its versions cover.
CoversPast ==
    \A r \in scheduleRuns : \A t \in Cron[r.version] : Covers(r, t) => t <= clock
NextUncovered ==
    \A s \in Schedule : nextRunAt[s] # NoTime =>
        \A r \in scheduleRuns : r.version[1] = s =>
            \A t \in Cron[r.version] : Covers(r, t) => t < nextRunAt[s]
TickInv == CoversPast /\ NextUncovered /\ NoTickTwice

\* The retarget computes from an instant no planner pass has gone beyond, which
\* is what LateRetarget gives up.
LEMMA TickNext ==
    ASSUME ~ LateRetarget, PlanTypeOK, TickInv, [PlanNext]_planVars
    PROVE  TickInv'
<1>t. /\ clock \in Nat /\ nextRunAt \in [Schedule -> Nat \cup {NoTime}]
      /\ scheduleRuns \subseteq RunRow /\ NoTime \notin Nat
      /\ \A v \in DOMAIN Cron : Cron[v] \subseteq Nat
  BY PlannerBoundAssumption, ScheduleAssumption DEF PlanTypeOK, Instant
<1>r. \A r \in scheduleRuns : r.version \in DOMAIN Cron
  BY <1>t DEF RunRow
<1>1. ASSUME PlanTick PROVE TickInv'
  <2>1. UNCHANGED <<nextRunAt, scheduleRuns>> /\ clock' = clock + 1
    BY <1>1 DEF PlanTick
  <2>2. CoversPast'
    <3> SUFFICES ASSUME NEW r \in scheduleRuns, NEW t \in Cron[r.version], Covers(r, t)
                 PROVE  t <= clock + 1
      BY <2>1 DEF CoversPast, Covers
    <3>1. t <= clock /\ t \in Nat
      BY <1>t, <1>r DEF TickInv, CoversPast
    <3> QED BY <3>1, <1>t
  <2> QED BY <2>1, <2>2 DEF TickInv, NextUncovered, NoTickTwice, Covers
<1>2. ASSUME ApplySchedulerTarget PROVE TickInv'
  <2> DEFINE d == retarget.deployment
             v(s) == <<s, RevisionOf[d]>>
  <2>1. UNCHANGED <<clock, scheduleRuns>> /\ retarget.now = clock
    BY <1>2 DEF ApplySchedulerTarget
  <2>2. NextUncovered'
    <3> SUFFICES ASSUME NEW s \in Schedule, nextRunAt'[s] # NoTime,
                        NEW r \in scheduleRuns, r.version[1] = s,
                        NEW t \in Cron[r.version], Covers(r, t)
                 PROVE  t < nextRunAt'[s]
      BY <2>1 DEF NextUncovered, Covers
    <3>1. t <= clock /\ t \in Nat
      BY <1>t, <1>r DEF TickInv, CoversPast
    <3>2. CASE nextRunAt' = nextRunAt
      BY <3>2 DEF TickInv, NextUncovered
    <3>3. CASE nextRunAt' # nextRunAt
      <4>1. /\ \A u \in Schedule : Schedulable(u, d) => HasNextRunAt(v(u), retarget.now)
            /\ nextRunAt' = [u \in Schedule |-> IF Schedulable(u, d)
                               THEN GetNextRunAt(v(u), retarget.now) ELSE NoTime]
        BY <1>2, <3>3 DEF ApplySchedulerTarget
      <4>2. Schedulable(s, d) /\ nextRunAt'[s] = GetNextRunAt(v(s), clock)
        BY <4>1, <2>1
      <4>3. v(s) \in DOMAIN Cron /\ HasNextRunAt(v(s), clock)
        BY <4>1, <4>2, <2>1 DEF Schedulable, PlanTypeOK
      <4>4. nextRunAt'[s] > clock /\ nextRunAt'[s] \in Nat
        BY <4>2, <4>3, <1>t, NextInstant
      <4> QED BY <4>4, <3>1, <1>t
    <3> QED BY <3>2, <3>3
  <2> QED BY <2>1, <2>2 DEF TickInv, CoversPast, NoTickTwice, Covers
<1>3. ASSUME NEW s \in Schedule, CreateManualScheduleRun(s) PROVE TickInv'
  <2> DEFINE m == [version |-> Targeted(s), deployment |-> target, dueAt |-> clock,
                   trigger |-> "manual", missedTicks |-> 0]
  <2>1. scheduleRuns' = scheduleRuns \cup {m} /\ m.trigger = "manual"
    BY <1>3 DEF CreateManualScheduleRun
  <2> HIDE DEF m
  <2>2. UNCHANGED <<clock, nextRunAt>>
    BY <1>3 DEF CreateManualScheduleRun
  <2>3. \A t : ~ Covers(m, t)
    BY <2>1 DEF Covers
  <2>4. \A t : \A r \in scheduleRuns' : Covers(r, t) => r \in scheduleRuns
    BY <2>1, <2>3
  <2>5. CoversPast'
    BY <2>2, <2>4 DEF TickInv, CoversPast, Covers
  <2>6. NextUncovered'
    BY <2>2, <2>4 DEF TickInv, NextUncovered, Covers
  <2>7. NoTickTwice'
    BY <2>4 DEF TickInv, NoTickTwice, Covers
  <2> QED BY <2>5, <2>6, <2>7 DEF TickInv
<1>4. ASSUME PlanDueSchedules PROVE TickInv'
  <2>1. PICK fires \in SUBSET Due : Fired(fires)
    BY <1>4, Pass
  <2> DEFINE new(s) == CronRun(Targeted(s), target, nextRunAt[s], clock)
  <2>2. /\ clock' = clock
        /\ scheduleRuns' = scheduleRuns \cup {new(s) : s \in fires}
    BY <2>1 DEF Fired
  <2>3. ASSUME NEW s \in fires
        PROVE  /\ s \in Schedule /\ new(s).version = Targeted(s) /\ Targeted(s)[1] = s
               /\ Targeted(s) \in DOMAIN Cron
               /\ nextRunAt[s] \in Nat /\ nextRunAt[s] # NoTime
               /\ \A t \in Cron[Targeted(s)] : Covers(new(s), t) => nextRunAt[s] <= t /\ t <= clock
               /\ nextRunAt'[s] \in Nat /\ nextRunAt'[s] > clock
    <3>1. /\ s \in Schedule /\ Targeted(s) \in DOMAIN Cron /\ Targeted(s)[1] = s
          /\ nextRunAt[s] \in Nat /\ nextRunAt[s] <= clock
      BY DueTyped
    <3>2. \A t \in Cron[Targeted(s)] : Covers(new(s), t) => nextRunAt[s] <= t /\ t <= clock
      BY <3>1, <1>t, CoversExactly
    <3>3. HasNextRunAt(Targeted(s), clock) /\ nextRunAt'[s] = GetNextRunAt(Targeted(s), clock)
      BY <2>1, <3>1 DEF Fired
    <3>4. nextRunAt'[s] \in Nat /\ nextRunAt'[s] > clock
      BY <3>1, <3>3, <1>t, NextInstant
    <3> QED BY <3>1, <3>2, <3>4, <1>t DEF CronRun
  <2> HIDE DEF new
  <2>4. CoversPast'
    <3> SUFFICES ASSUME NEW r \in scheduleRuns', NEW t \in Cron[r.version], Covers(r, t)
                 PROVE  t <= clock
      BY <2>2 DEF CoversPast, Covers
    <3>1. CASE r \in scheduleRuns
      BY <3>1 DEF TickInv, CoversPast
    <3>2. ASSUME NEW s \in fires, r = new(s) PROVE t <= clock
      BY <2>3, <3>2
    <3> QED BY <3>1, <3>2, <2>2
  <2>5. NextUncovered'
    <3> SUFFICES ASSUME NEW s \in Schedule, nextRunAt'[s] # NoTime,
                        NEW r \in scheduleRuns', r.version[1] = s,
                        NEW t \in Cron[r.version], Covers(r, t)
                 PROVE  t < nextRunAt'[s]
      BY DEF NextUncovered, Covers
    <3>1. r.version \in DOMAIN Cron
      BY <2>2, <2>3, <1>r
    <3>2. t \in Nat /\ t <= clock
      BY <2>2, <2>4, <3>1, <1>t DEF CoversPast, Covers
    <3>3. CASE s \in fires
      BY <2>3, <3>2, <3>3, <1>t
    <3>4. CASE s \notin fires
      <4>1. nextRunAt'[s] = nextRunAt[s]
        BY <2>1, <3>4 DEF Fired
      <4>2. r \in scheduleRuns
        BY <2>2, <2>3, <3>4
      <4> QED BY <4>1, <4>2 DEF TickInv, NextUncovered
    <3> QED BY <3>3, <3>4
  <2>6. NoTickTwice'
    <3> SUFFICES ASSUME NEW r \in scheduleRuns', NEW q \in scheduleRuns', r # q,
                        r.version[1] = q.version[1],
                        NEW t \in Cron[r.version], Covers(r, t), Covers(q, t)
                 PROVE  FALSE
      BY DEF NoTickTwice, Covers
    <3>0. t \in Cron[q.version] /\ r.version \in DOMAIN Cron /\ t \in Nat
      BY <2>2, <2>3, <1>r, <1>t DEF Covers
    <3>a. ASSUME NEW x \in scheduleRuns, NEW s \in fires, x.version[1] = s,
                 t \in Cron[x.version], t \in Cron[new(s).version],
                 Covers(x, t), Covers(new(s), t)
          PROVE  FALSE
      <4>1. t < nextRunAt[s]
        BY <2>3, <3>a DEF TickInv, NextUncovered
      <4>2. nextRunAt[s] <= t /\ nextRunAt[s] \in Nat
        BY <2>3, <3>a
      <4> QED BY <3>0, <4>1, <4>2
    <3>1. CASE r \in scheduleRuns /\ q \in scheduleRuns
      BY <3>1 DEF TickInv, NoTickTwice
    <3>2. ASSUME r \in scheduleRuns, NEW s \in fires, q = new(s) PROVE FALSE
      BY <2>3, <3>0, <3>2, <3>a
    <3>3. ASSUME q \in scheduleRuns, NEW s \in fires, r = new(s) PROVE FALSE
      BY <2>3, <3>0, <3>3, <3>a
    <3>4. ASSUME NEW s \in fires, r = new(s), NEW u \in fires, q = new(u) PROVE FALSE
      BY <2>3, <3>4
    <3> QED BY <2>2, <3>1, <3>2, <3>3, <3>4
  <2> QED BY <2>4, <2>5, <2>6 DEF TickInv
<1>5. ASSUME \/ \E r \in Revision : RecordScheduleVersions(r)
             \/ \E d \in TargetDeployment : RetargetBegins(d)
             \/ UNCHANGED planVars
      PROVE  TickInv'
  <2>1. UNCHANGED <<clock, nextRunAt, scheduleRuns>>
    BY <1>5 DEF RecordScheduleVersions, RetargetBegins, planVars
  <2> QED BY <2>1 DEF TickInv, CoversPast, NextUncovered, NoTickTwice, Covers
<1> QED BY <1>1, <1>2, <1>3, <1>4, <1>5 DEF PlanNext

-----------------------------------------------------------------------------
(***************************************************************************)
(* No instant lost                                                         *)
(***************************************************************************)
LEMMA AccountNext == PlanTypeOK /\ TicksAccounted /\ [PlanNext]_planVars => TicksAccounted'
<1> SUFFICES ASSUME PlanTypeOK, TicksAccounted, [PlanNext]_planVars,
                    NEW s \in Schedule, nextRunAt'[s] # NoTime,
                    NEW t \in Cron[Targeted(s)'], since' < t, t < nextRunAt'[s]
             PROVE  \E r \in scheduleRuns' : r.version = Targeted(s)' /\ Covers(r, t)
  BY DEF TicksAccounted, Covers
<1>t. /\ clock \in Nat /\ nextRunAt \in [Schedule -> Nat \cup {NoTime}] /\ NoTime \notin Nat
      /\ \A v \in DOMAIN Cron : Cron[v] \subseteq Nat
  BY PlannerBoundAssumption, ScheduleAssumption DEF PlanTypeOK, Instant
<1>a. ASSUME nextRunAt'[s] = nextRunAt[s], UNCHANGED <<target, since>>,
             scheduleRuns \subseteq scheduleRuns'
      PROVE  \E r \in scheduleRuns' : r.version = Targeted(s)' /\ Covers(r, t)
  BY <1>a DEF TicksAccounted, Targeted
<1>1. ASSUME ApplySchedulerTarget
      PROVE  \E r \in scheduleRuns' : r.version = Targeted(s)' /\ Covers(r, t)
  <2> DEFINE d == retarget.deployment
             v(u) == <<u, RevisionOf[d]>>
  <2>1. CASE \A u \in Schedule : Schedulable(u, d) => HasNextRunAt(v(u), retarget.now)
    <3>1. /\ target' = d /\ since' = retarget.now
          /\ nextRunAt' = [u \in Schedule |-> IF Schedulable(u, d)
                             THEN GetNextRunAt(v(u), retarget.now) ELSE NoTime]
      BY <1>1, <2>1 DEF ApplySchedulerTarget
    <3>2. Schedulable(s, d) /\ nextRunAt'[s] = GetNextRunAt(v(s), retarget.now)
      BY <3>1
    <3>3. v(s) \in DOMAIN Cron /\ HasNextRunAt(v(s), retarget.now) /\ retarget.now \in Nat
      BY <2>1, <3>2, PlannerBoundAssumption DEF Schedulable, PlanTypeOK, Instant
    <3>4. Targeted(s)' = v(s)
      BY <3>1 DEF Targeted
    <3>5. nextRunAt'[s] <= t /\ nextRunAt'[s] \in Nat /\ t \in Nat
      BY <3>1, <3>2, <3>3, <3>4, <1>t, NextInstant
    <3> QED BY <3>5
  <2>2. CASE ~ \A u \in Schedule : Schedulable(u, d) => HasNextRunAt(v(u), retarget.now)
    BY <1>1, <2>2, <1>a DEF ApplySchedulerTarget
  <2> QED BY <2>1, <2>2
<1>2. ASSUME PlanDueSchedules
      PROVE  \E r \in scheduleRuns' : r.version = Targeted(s)' /\ Covers(r, t)
  <2>1. PICK fires \in SUBSET Due : Fired(fires)
    BY <1>2, Pass
  <2>2. UNCHANGED <<target, since>> /\ scheduleRuns \subseteq scheduleRuns'
    BY <2>1 DEF Fired
  <2>3. CASE s \notin fires
    BY <2>1, <2>2, <2>3, <1>a DEF Fired
  <2>4. CASE s \in fires
    <3> DEFINE v == Targeted(s)
               q == CronRun(v, target, nextRunAt[s], clock)
    <3>1. Targeted(s)' = v
      BY <2>2 DEF Targeted
    <3>2. /\ v \in DOMAIN Cron /\ HasNextRunAt(v, clock) /\ nextRunAt[s] \in Nat
          /\ nextRunAt[s] <= clock /\ nextRunAt'[s] = GetNextRunAt(v, clock)
          /\ q \in scheduleRuns' /\ q.version = v
      BY <2>1, <2>4, DueTyped DEF Fired, CronRun
    <3>3. t \in Cron[v] /\ t \in Nat /\ t <= clock
      <4>1. t \in Cron[v] /\ t \in Nat
        BY <3>1, <3>2, <1>t
      <4>2. ~ (t > clock)
        <5>1. t > clock => nextRunAt'[s] <= t
          BY <3>2, <4>1, <1>t, NextInstant
        <5>2. nextRunAt'[s] \in Nat
          BY <3>2, <1>t, NextInstant
        <5> QED BY <4>1, <5>1, <5>2, <1>t
      <4> QED BY <4>1, <4>2, <1>t
    <3> HIDE DEF v, q
    <3>4. CASE t < nextRunAt[s]
      <4>1. \E r \in scheduleRuns : r.version = v /\ Covers(r, t)
        BY <2>2, <3>2, <3>3, <3>4, <1>t DEF TicksAccounted, v
      <4> QED BY <4>1, <2>2, <3>1
    <3>5. CASE t >= nextRunAt[s]
      <4>1. Covers(q, t)
        BY <3>2, <3>3, <3>5, <1>t, CoversExactly DEF q
      <4> QED BY <4>1, <3>1, <3>2
    <3> QED BY <3>2, <3>3, <3>4, <3>5
  <2> QED BY <2>3, <2>4
<1>3. ASSUME NEW u \in Schedule, CreateManualScheduleRun(u)
      PROVE  \E r \in scheduleRuns' : r.version = Targeted(s)' /\ Covers(r, t)
  BY <1>3, <1>a DEF CreateManualScheduleRun
<1>4. ASSUME \/ PlanTick
             \/ \E r \in Revision : RecordScheduleVersions(r)
             \/ \E d \in TargetDeployment : RetargetBegins(d)
             \/ UNCHANGED planVars
      PROVE  \E r \in scheduleRuns' : r.version = Targeted(s)' /\ Covers(r, t)
  <2>1. UNCHANGED <<nextRunAt, target, since, scheduleRuns>>
    BY <1>4 DEF PlanTick, RecordScheduleVersions, RetargetBegins, planVars
  <2> QED BY <2>1, <1>a
<1> QED BY <1>1, <1>2, <1>3, <1>4 DEF PlanNext

-----------------------------------------------------------------------------
\* Type correctness of the planner's rows; only an enabled schedule has a next run.
THEOREM PlanTypeCorrect == PlanSpec => []PlanTypeOK
BY PlanTypeInit, PlanTypeNext, PTL DEF PlanSpec

\* No instant of a schedule is run twice (claimDueScheduleRuns and its conflict
\* check, applySchedulerTargetTx), for any cron expressions and any promotions,
\* as long as a retarget computes from the instant at which it commits.
THEOREM NoTickTwiceCorrect ==
    ASSUME ~ LateRetarget
    PROVE  PlanSpec => []NoTickTwice
<1>1. PlanInit => TickInv
  BY DEF PlanInit, TickInv, CoversPast, NextUncovered, NoTickTwice
<1>2. PlanTypeOK /\ TickInv /\ [PlanNext]_planVars => TickInv'
  BY TickNext
<1>3. TickInv => NoTickTwice
  BY DEF TickInv
<1> QED BY <1>1, <1>2, <1>3, PlanTypeCorrect, PTL DEF PlanSpec

\* Coalescing loses nothing (calculateScheduleAdvance): since the target was set,
\* every instant before the next run has a run that stands for it, for any length
\* of outage and any batch limit, and even when the retarget read its clock late.
THEOREM TicksAccountedCorrect == PlanSpec => []TicksAccounted
<1>1. PlanInit => TicksAccounted
  BY DEF PlanInit, TicksAccounted
<1> QED BY <1>1, AccountNext, PlanTypeCorrect, PTL DEF PlanSpec

-----------------------------------------------------------------------------
(***************************************************************************)
(* A run.  The inductive invariant RunInv says that the handler is let in  *)
(* on the first attempt only (Once), that Sessions are linked together or  *)
(* not at all (Links), what an open ingest transaction may rely on while   *)
(* it holds its Session's row (Exclusive, Holds), and where the verdict of *)
(* a running run will come from (Pending, Agree).                          *)
(***************************************************************************)
Place == {"new", "validating", "activating", "waiting", "returned", "completing",
          "renewing", "releasing", "catch", "settle_unknown", "settle_failed", "done",
          "crashed"}
\* Where a dispatch is once the handler was let in.
Past == Reports \cup {"handling", "ok", "checked_succeeded", "checked_failed",
                      "checked_unknown"}
IngestType == [session : Session \cup {NoSession}, project : BOOLEAN,
               wrote : {"none"} \cup Ended,
               verdict : {"none", "unread", "succeeded", "failed"}]

\* The rows, the places of the executions and the open transactions.
RowShape ==
    /\ runStatus \in Protected \cup Settled
    /\ execution \in [Session -> {"none", "running"} \cup Ended]
    /\ runLease \in {"none", "held", "released"}
    /\ attempt \in Nat
    /\ stored \in [Session -> SUBSET {"turn", "session"}]
    /\ outcome \in [Session -> {"running"} \cup Ended]
    /\ \A s \in Session : stored[s] # {} => outcome[s] # "running"
    /\ ingest \in [Consumer -> IngestType]
    /\ selected.sessions \subseteq Session
PlaceShape ==
    /\ stale \in BOOLEAN /\ expired \in BOOLEAN /\ leaseLost \in BOOLEAN /\ alive \in BOOLEAN
    /\ job \in {"queued", "done"} \cup Delivery
    /\ at \in [Delivery -> Place]
    /\ leased \in [Delivery -> BOOLEAN]
AgentShape ==
    /\ channel \in [Delivery -> {"none", "redeem", "error"} \cup Past]
    /\ started \subseteq Session
Shape == RowShape /\ PlaceShape /\ AgentShape

\* redeemScheduleRunDispatch lets the handler in while the run is activating, and
\* the first time ends that for good.  Sessions are started by that one handler.
Once ==
    /\ attempt <= 1
    /\ runStatus \in {"queued", "activating"} => attempt = 0
    /\ attempt = 0 => started = {} /\ \A w \in Delivery : channel[w] \notin Past
    /\ \A v, w \in Delivery : channel[v] \in Past /\ channel[w] \in Past => v = w
    /\ \A w \in Delivery : channel[w] = "handling" => started = {}
    /\ lost \subseteq started

\* completeScheduleRun links every Session the handler started, in one step.
Links ==
    /\ \A s \in Session : execution[s] # "none" => s \in started
    /\ \A s, t \in Session : execution[s] # "none" /\ t \in started => execution[t] # "none"
    /\ runStatus = "running" => \A s \in started : execution[s] # "none"

\* The Session's row and the Project's row are locked.
Exclusive ==
    \A c, o \in Open : c # o => /\ ingest[c].session # ingest[o].session
                                /\ ~ (ingest[c].project /\ ingest[o].project)

\* Nobody else settles the execution of an open transaction; a verdict of success
\* stays true of every other execution.
Holds ==
    \A c \in Open :
       /\ ingest[c].session \in started
       /\ stored[ingest[c].session] # {}
       /\ ingest[c].wrote = "none" <=> execution[ingest[c].session] = "none"
       /\ execution[ingest[c].session] # "running" =>
             ingest[c].wrote = execution[ingest[c].session]
       /\ ingest[c].wrote = "none" => ingest[c].verdict \in {"unread", "none"}
       /\ ingest[c].verdict = "succeeded" =>
             /\ ingest[c].wrote # "failed"
             /\ \A t \in Session \ {ingest[c].session} : execution[t] \notin {"running", "failed"}

\* An execution that runs on after a boundary is being settled.
Pending ==
    \A s \in Session : execution[s] = "running" /\ stored[s] # {} =>
       \E c \in Open : /\ ingest[c].session = s
                       /\ "session" \in stored[s] => ingest[c].project

Agree ==
    /\ runStatus = "running" =>
          \/ \E s \in started : "session" \notin stored[s]
          \/ \E c \in Open : ingest[c].project /\ ingest[c].verdict # "none"
    /\ runStatus = "succeeded" => \A s \in Session : execution[s] \notin {"failed", "running"}

RunInv == Shape /\ Once /\ Links /\ Exclusive /\ Holds /\ Pending /\ Agree

-----------------------------------------------------------------------------
(***************************************************************************)
(* completeScheduleRun                                                     *)
(***************************************************************************)
\* A completion links what was started, leaves every other execution alone, and
\* takes the status from the executions it leaves.
LEMMA Completes ==
    ASSUME RowShape, NEW reported \in Reports, NEW sessions \in SUBSET Session,
           reported # "succeeded" => sessions = {},
           CompleteScheduleRun(reported, sessions)
    PROVE  /\ \A c \in Open : ingest[c].session \notin sessions
           /\ execution' \in [Session -> {"none", "running"} \cup Ended]
           /\ \A s \in Session :
                 execution'[s] = IF s \in sessions /\ execution[s] = "none"
                                 THEN IF stored[s] # {} THEN outcome[s] ELSE "running"
                                 ELSE execution[s]
           /\ runStatus' \in {"running"} \cup Settled
           /\ runStatus' = "running" => /\ reported = "succeeded"
                                        /\ \E s \in Session : execution'[s] = "running"
           /\ runStatus' = "succeeded" =>
                 /\ reported = "succeeded"
                 /\ sessions # {} => \A s \in Session : execution'[s] \notin {"running", "failed"}
           /\ runLease \in {"none", "held", "released"}
              => runLease' \in {"none", "held", "released"}
           /\ UNCHANGED <<stale, attempt, expired, leaseLost>>
<1> DEFINE linked == [s \in Session |-> IF s \in sessions THEN LinkedStatus(s, reported)
                                        ELSE execution[s]]
<1>1. /\ \A c \in Open : ingest[c].session \notin sessions
      /\ execution' = linked
      /\ runStatus' = CompletedStatus(reported, sessions, linked)
      /\ runLease' = IF runStatus' = "running" THEN runLease ELSE Released
      /\ UNCHANGED <<stale, attempt, expired, leaseLost>>
  BY DEF CompleteScheduleRun
<1>2. \A s \in Session :
         linked[s] = IF s \in sessions /\ execution[s] = "none"
                     THEN IF stored[s] # {} THEN outcome[s] ELSE "running"
                     ELSE execution[s]
  BY DEF LinkedStatus
<1>3. \A s \in Session : linked[s] \in {"none", "running"} \cup Ended
  BY <1>2 DEF RowShape
<1>4. linked \in [Session -> {"none", "running"} \cup Ended]
  BY <1>3
<1>5. /\ CompletedStatus(reported, sessions, linked) \in {"running"} \cup Settled
      /\ CompletedStatus(reported, sessions, linked) = "running" =>
            reported = "succeeded" /\ \E s \in Session : linked[s] = "running"
      /\ CompletedStatus(reported, sessions, linked) = "succeeded" =>
            /\ reported = "succeeded"
            /\ sessions # {} => \A s \in Session : linked[s] \notin {"running", "failed"}
  <2> HIDE DEF linked
  <2>1. CASE sessions = {}
    BY <2>1 DEF CompletedStatus, Reports, Settled
  <2>2. CASE sessions # {}
    BY <2>2 DEF CompletedStatus, Reports, Settled
  <2> QED BY <2>1, <2>2
<1>6. runLease \in {"none", "held", "released"} => Released \in {"none", "held", "released"}
  BY DEF Released
<1> HIDE DEF linked
<1> QED BY <1>1, <1>2, <1>4, <1>5, <1>6

\* The calls of completeScheduleRun: by the worker and by the dispatch route.
LEMMA Calls ==
    ASSUME Shape, NEW w \in Delivery,
           CompletesReported(w) \/ CatchSettles(w) \/ CompletionApplied(w)
    PROVE  /\ \E reported \in Reports :
                 CompleteScheduleRun(reported, IF reported = "succeeded" THEN started ELSE {})
           /\ UNCHANGED <<started, stored, outcome, ingest, selected, lost, alive>>
BY DEF CompletesReported, CatchSettles, CompletionApplied, Reports, agentVars, transactionVars

-----------------------------------------------------------------------------
(***************************************************************************)
(* Shape                                                                   *)
(***************************************************************************)
LEMMA RowNext == Shape /\ [RunNext]_runVars => RowShape'
<1> SUFFICES ASSUME Shape, [RunNext]_runVars PROVE RowShape'
  OBVIOUS
<1> USE DEF RowShape, Protected, Settled, runRow, leaseRow, workerVars, agentVars,
           transactionVars
<1>r. RowShape /\ started \subseteq Session
  BY DEF Shape, AgentShape
<1>1. ASSUME NEW w \in Delivery, JobClaimed(w) PROVE RowShape'
  BY <1>1, <1>r DEF JobClaimed
<1>2. ASSUME NEW w \in Delivery, ValidationThrows(w) PROVE RowShape'
  BY <1>2, <1>r DEF ValidationThrows
<1>3. ASSUME NEW w \in Delivery, ClaimScheduleRunActivation(w) PROVE RowShape'
  BY <1>3, <1>r DEF ClaimScheduleRunActivation
<1>4. ASSUME NEW w \in Delivery, EnsureDeploymentActive(w) PROVE RowShape'
  BY <1>4, <1>r DEF EnsureDeploymentActive
<1>5. ASSUME NEW w \in Delivery, ActivationThrows(w) PROVE RowShape'
  BY <1>5, <1>r DEF ActivationThrows, Released
<1>6. ASSUME NEW w \in Delivery, DispatchReturns(w) PROVE RowShape'
  BY <1>6, <1>r DEF DispatchReturns
<1>7. ASSUME NEW w \in Delivery, DispatchThrows(w) PROVE RowShape'
  BY <1>7, <1>r DEF DispatchThrows
<1>8. ASSUME NEW w \in Delivery, ReadsReported(w) PROVE RowShape'
  BY <1>8, <1>r DEF ReadsReported
<1>9. ASSUME NEW w \in Delivery, CompletesReported(w) PROVE RowShape'
  <2>1. PICK reported \in Reports :
           CompleteScheduleRun(reported, IF reported = "succeeded" THEN started ELSE {})
    BY <1>9, Calls
  <2> DEFINE sessions == IF reported = "succeeded" THEN started ELSE {}
  <2>2. sessions \in SUBSET Session /\ (reported # "succeeded" => sessions = {})
    BY <1>r
  <2>3. CompleteScheduleRun(reported, sessions)
    BY <2>1
  <2> HIDE DEF sessions
  <2>4. /\ execution' \in [Session -> {"none", "running"} \cup Ended]
        /\ runStatus' \in {"running"} \cup Settled
        /\ runLease' \in {"none", "held", "released"} /\ attempt' = attempt
    BY <2>2, <2>3, <1>r, Completes
  <2> QED BY <2>4, <1>r, <1>9, Calls
<1>10. ASSUME NEW w \in Delivery, RenewsLease(w) PROVE RowShape'
  BY <1>10, <1>r DEF RenewsLease
<1>11. ASSUME NEW w \in Delivery, CatchReads(w) PROVE RowShape'
  BY <1>11, <1>r DEF CatchReads
<1>12. ASSUME NEW w \in Delivery, CatchSettles(w) PROVE RowShape'
  <2>1. PICK reported \in Reports :
           CompleteScheduleRun(reported, IF reported = "succeeded" THEN started ELSE {})
    BY <1>12, Calls
  <2> DEFINE sessions == IF reported = "succeeded" THEN started ELSE {}
  <2>2. sessions \in SUBSET Session /\ (reported # "succeeded" => sessions = {})
    BY <1>r
  <2>3. CompleteScheduleRun(reported, sessions)
    BY <2>1
  <2> HIDE DEF sessions
  <2>4. /\ execution' \in [Session -> {"none", "running"} \cup Ended]
        /\ runStatus' \in {"running"} \cup Settled
        /\ runLease' \in {"none", "held", "released"} /\ attempt' = attempt
    BY <2>2, <2>3, <1>r, Completes
  <2> QED BY <2>4, <1>r, <1>12, Calls
<1>13. ASSUME NEW w \in Delivery, ReleasesLease(w) PROVE RowShape'
  BY <1>13, <1>r DEF ReleasesLease, Released
<1>14. ASSUME NEW w \in Delivery, WorkerCrashes(w) PROVE RowShape'
  BY <1>14, <1>r DEF WorkerCrashes
<1>15. ASSUME NEW w \in Delivery, RedeemScheduleRunDispatch(w) PROVE RowShape'
  BY <1>15, <1>r DEF RedeemScheduleRunDispatch
<1>16. ASSUME NEW w \in Delivery, CompletionChecked(w) PROVE RowShape'
  BY <1>16, <1>r DEF CompletionChecked, Checked
<1>17. ASSUME NEW w \in Delivery, CompletionApplied(w) PROVE RowShape'
  <2>1. PICK reported \in Reports :
           CompleteScheduleRun(reported, IF reported = "succeeded" THEN started ELSE {})
    BY <1>17, Calls
  <2> DEFINE sessions == IF reported = "succeeded" THEN started ELSE {}
  <2>2. sessions \in SUBSET Session /\ (reported # "succeeded" => sessions = {})
    BY <1>r
  <2>3. CompleteScheduleRun(reported, sessions)
    BY <2>1
  <2> HIDE DEF sessions
  <2>4. /\ execution' \in [Session -> {"none", "running"} \cup Ended]
        /\ runStatus' \in {"running"} \cup Settled
        /\ runLease' \in {"none", "held", "released"} /\ attempt' = attempt
    BY <2>2, <2>3, <1>r, Completes
  <2> QED BY <2>4, <1>r, <1>17, Calls
<1>18. ASSUME NEW w \in Delivery, ReportLost(w) PROVE RowShape'
  BY <1>18, <1>r DEF ReportLost
<1>19. ASSUME NEW w \in Delivery, NEW result \in Reports, NEW sessions \in SUBSET Session,
             HandlerSettles(w, result, sessions) PROVE RowShape'
  BY <1>19, <1>r DEF HandlerSettles
<1>20. ASSUME RuntimeDies PROVE RowShape'
  BY <1>20, <1>r DEF RuntimeDies
<1>21. ASSUME NEW c \in Consumer, NEW s \in Session, NEW event \in {"turn", "session"},
             NEW verdict \in Outcome, IngestBegins(c, s, event, verdict)
      PROVE RowShape'
  <2>1. ingest' \in [Consumer -> IngestType]
    BY <1>21, <1>r, RunAssumption DEF IngestBegins, IngestType, Ended
  <2> QED BY <1>21, <1>r, <2>1, RunAssumption DEF IngestBegins, Ended
<1>22. ASSUME NEW c \in Consumer, IngestReads(c) PROVE RowShape'
  <2>1. ingest' \in [Consumer -> IngestType]
    BY <1>22, <1>r, RunAssumption DEF IngestReads, Verdict, AllEnded, IngestType, Ended
  <2> QED BY <1>22, <1>r, <2>1, RunAssumption DEF IngestReads
<1>23. ASSUME NEW c \in Consumer, IngestCommits(c) PROVE RowShape'
  <2>1. ingest' \in [Consumer -> IngestType]
    BY <1>23, <1>r DEF IngestCommits, IngestType, NoIngest
  <2>2. ingest[c] \in IngestType
    BY <1>r
  <2>3. execution' \in [Session -> {"none", "running"} \cup Ended]
    BY <1>23, <1>r, <2>2 DEF IngestCommits, Seen, IngestType
  <2>4. runStatus' \in Protected \cup Settled /\ runLease' \in {"none", "held", "released"}
    BY <1>23, <1>r, <2>2 DEF IngestCommits, IngestType, Released
  <2> QED BY <1>23, <1>r, <2>1, <2>3, <2>4 DEF IngestCommits
<1>24. ASSUME FailExpiredScheduleExecutions PROVE RowShape'
  BY <1>24, <1>r DEF FailExpiredScheduleExecutions, Selects, RunningExecutions
<1>25. ASSUME FailScheduleExecutions PROVE RowShape'
  BY <1>25, <1>r DEF FailScheduleExecutions, Selects, RunningExecutions
<1>26. ASSUME FailRunningSessions PROVE RowShape'
  BY <1>26, <1>r DEF FailRunningSessions, Selects, RunningExecutions
<1>30. ASSUME FailsSelected PROVE RowShape'
  BY <1>30, <1>r DEF FailsSelected, Interrupted, NoSelection, Released, Ended
<1>27. ASSUME ActivationAges PROVE RowShape'
  BY <1>27, <1>r DEF ActivationAges
<1>28. ASSUME LeaseExpires PROVE RowShape'
  BY <1>28, <1>r DEF LeaseExpires
<1>29. CASE UNCHANGED runVars
  BY <1>29, <1>r DEF runVars
<1> QED
  BY <1>1, <1>2, <1>3, <1>4, <1>5, <1>6, <1>7, <1>8, <1>9, <1>10, <1>11, <1>12,
     <1>13, <1>14, <1>15, <1>16, <1>17, <1>18, <1>19, <1>20, <1>21, <1>22,
     <1>23, <1>24, <1>25, <1>26, <1>27, <1>28, <1>29, <1>30 DEF RunNext, WorkerStep,
     ChannelStep, Reconciles

LEMMA PlaceNext == Shape /\ [RunNext]_runVars => PlaceShape' /\ AgentShape'
<1> SUFFICES ASSUME Shape, [RunNext]_runVars PROVE PlaceShape' /\ AgentShape'
  OBVIOUS
<1> USE DEF PlaceShape, AgentShape, Place, Past, Reports, Goes, runRow, leaseRow,
           workerVars, agentVars, transactionVars
<1>r. PlaceShape /\ AgentShape
  BY DEF Shape
<1>1. ASSUME NEW w \in Delivery, JobClaimed(w) PROVE PlaceShape' /\ AgentShape'
  BY <1>1, <1>r DEF JobClaimed
<1>2. ASSUME NEW w \in Delivery, ValidationThrows(w) PROVE PlaceShape' /\ AgentShape'
  BY <1>2, <1>r DEF ValidationThrows
<1>3. ASSUME NEW w \in Delivery, ClaimScheduleRunActivation(w) PROVE PlaceShape' /\ AgentShape'
  BY <1>3, <1>r DEF ClaimScheduleRunActivation
<1>4. ASSUME NEW w \in Delivery, EnsureDeploymentActive(w) PROVE PlaceShape' /\ AgentShape'
  BY <1>4, <1>r DEF EnsureDeploymentActive
<1>5. ASSUME NEW w \in Delivery, ActivationThrows(w) PROVE PlaceShape' /\ AgentShape'
  BY <1>5, <1>r DEF ActivationThrows, Released
<1>6. ASSUME NEW w \in Delivery, DispatchReturns(w) PROVE PlaceShape' /\ AgentShape'
  BY <1>6, <1>r DEF DispatchReturns
<1>7. ASSUME NEW w \in Delivery, DispatchThrows(w) PROVE PlaceShape' /\ AgentShape'
  BY <1>7, <1>r DEF DispatchThrows
<1>8. ASSUME NEW w \in Delivery, ReadsReported(w) PROVE PlaceShape' /\ AgentShape'
  BY <1>8, <1>r DEF ReadsReported
<1>9. ASSUME NEW w \in Delivery, CompletesReported(w) PROVE PlaceShape' /\ AgentShape'
  BY <1>9, <1>r DEF CompletesReported, CompleteScheduleRun
<1>10. ASSUME NEW w \in Delivery, RenewsLease(w) PROVE PlaceShape' /\ AgentShape'
  BY <1>10, <1>r DEF RenewsLease
<1>11. ASSUME NEW w \in Delivery, CatchReads(w) PROVE PlaceShape' /\ AgentShape'
  BY <1>11, <1>r DEF CatchReads
<1>12. ASSUME NEW w \in Delivery, CatchSettles(w) PROVE PlaceShape' /\ AgentShape'
  BY <1>12, <1>r DEF CatchSettles, CompleteScheduleRun
<1>13. ASSUME NEW w \in Delivery, ReleasesLease(w) PROVE PlaceShape' /\ AgentShape'
  BY <1>13, <1>r DEF ReleasesLease, Released
<1>14. ASSUME NEW w \in Delivery, WorkerCrashes(w) PROVE PlaceShape' /\ AgentShape'
  BY <1>14, <1>r DEF WorkerCrashes
<1>15. ASSUME NEW w \in Delivery, RedeemScheduleRunDispatch(w) PROVE PlaceShape' /\ AgentShape'
  BY <1>15, <1>r DEF RedeemScheduleRunDispatch
<1>16. ASSUME NEW w \in Delivery, CompletionChecked(w) PROVE PlaceShape' /\ AgentShape'
  BY <1>16, <1>r DEF CompletionChecked, Checked
<1>17. ASSUME NEW w \in Delivery, CompletionApplied(w) PROVE PlaceShape' /\ AgentShape'
  BY <1>17, <1>r DEF CompletionApplied, CompleteScheduleRun, Checked
<1>18. ASSUME NEW w \in Delivery, ReportLost(w) PROVE PlaceShape' /\ AgentShape'
  BY <1>18, <1>r DEF ReportLost
<1>19. ASSUME NEW w \in Delivery, NEW result \in Reports, NEW sessions \in SUBSET Session,
             HandlerSettles(w, result, sessions) PROVE PlaceShape' /\ AgentShape'
  BY <1>19, <1>r DEF HandlerSettles
<1>20. ASSUME RuntimeDies PROVE PlaceShape' /\ AgentShape'
  BY <1>20, <1>r DEF RuntimeDies
<1>21. ASSUME NEW c \in Consumer, NEW s \in Session, NEW event \in {"turn", "session"},
             NEW verdict \in Outcome, IngestBegins(c, s, event, verdict)
      PROVE PlaceShape' /\ AgentShape'
  BY <1>21, <1>r DEF IngestBegins
<1>22. ASSUME NEW c \in Consumer, IngestReads(c) PROVE PlaceShape' /\ AgentShape'
  BY <1>22, <1>r DEF IngestReads
<1>23. ASSUME NEW c \in Consumer, IngestCommits(c) PROVE PlaceShape' /\ AgentShape'
  BY <1>23, <1>r DEF IngestCommits
<1>24. ASSUME FailExpiredScheduleExecutions PROVE PlaceShape' /\ AgentShape'
  BY <1>24, <1>r DEF FailExpiredScheduleExecutions, Selects
<1>25. ASSUME FailScheduleExecutions PROVE PlaceShape' /\ AgentShape'
  BY <1>25, <1>r DEF FailScheduleExecutions, Selects
<1>26. ASSUME FailRunningSessions PROVE PlaceShape' /\ AgentShape'
  BY <1>26, <1>r DEF FailRunningSessions, Selects
<1>30. ASSUME FailsSelected PROVE PlaceShape' /\ AgentShape'
  BY <1>30, <1>r DEF FailsSelected, Released
<1>27. ASSUME ActivationAges PROVE PlaceShape' /\ AgentShape'
  BY <1>27, <1>r DEF ActivationAges
<1>28. ASSUME LeaseExpires PROVE PlaceShape' /\ AgentShape'
  BY <1>28, <1>r DEF LeaseExpires
<1>29. CASE UNCHANGED runVars
  BY <1>29, <1>r DEF runVars
<1> QED
  BY <1>1, <1>2, <1>3, <1>4, <1>5, <1>6, <1>7, <1>8, <1>9, <1>10, <1>11, <1>12,
     <1>13, <1>14, <1>15, <1>16, <1>17, <1>18, <1>19, <1>20, <1>21, <1>22,
     <1>23, <1>24, <1>25, <1>26, <1>27, <1>28, <1>29, <1>30 DEF RunNext, WorkerStep,
     ChannelStep, Reconciles

-----------------------------------------------------------------------------
(***************************************************************************)
(* The handler is let in once                                              *)
(***************************************************************************)
LEMMA OnceNext == Shape /\ Once /\ [RunNext]_runVars => Once'
<1> SUFFICES ASSUME Shape, Once, [RunNext]_runVars PROVE Once'
  OBVIOUS
<1> USE DEF Once, runRow, leaseRow, workerVars, agentVars, transactionVars
<1>r. Shape
  OBVIOUS
<1>s. channel \in [Delivery -> {"none", "redeem", "error"} \cup Past]
  BY DEF Shape, AgentShape
<1>a. attempt \in Nat
  BY DEF Shape, RowShape
<1>1. ASSUME NEW w \in Delivery, JobClaimed(w) PROVE Once'
  BY <1>1, <1>s, <1>a DEF JobClaimed
<1>2. ASSUME NEW w \in Delivery, ValidationThrows(w) PROVE Once'
  BY <1>2, <1>s, <1>a DEF ValidationThrows
<1>3. ASSUME NEW w \in Delivery, ClaimScheduleRunActivation(w) PROVE Once'
  BY <1>3, <1>s, <1>a DEF ClaimScheduleRunActivation, Claimable
<1>4. ASSUME NEW w \in Delivery, EnsureDeploymentActive(w) PROVE Once'
  BY <1>4, <1>s, <1>a DEF EnsureDeploymentActive, Past, Reports
<1>5. ASSUME NEW w \in Delivery, ActivationThrows(w) PROVE Once'
  BY <1>5, <1>s, <1>a DEF ActivationThrows, Released
<1>6. ASSUME NEW w \in Delivery, DispatchReturns(w) PROVE Once'
  BY <1>6, <1>s, <1>a DEF DispatchReturns
<1>7. ASSUME NEW w \in Delivery, DispatchThrows(w) PROVE Once'
  BY <1>7, <1>s, <1>a DEF DispatchThrows
<1>8. ASSUME NEW w \in Delivery, ReadsReported(w) PROVE Once'
  BY <1>8, <1>s, <1>a DEF ReadsReported
<1>9. ASSUME NEW w \in Delivery, CompletesReported(w) PROVE Once'
  <2>1. runStatus' \notin {"queued", "activating"} /\ attempt' = attempt
    <3>1. PICK reported \in Reports :
             CompleteScheduleRun(reported, IF reported = "succeeded" THEN started ELSE {})
      BY <1>9, Calls
    <3>2. started \in SUBSET Session /\ RowShape
      BY DEF Shape, AgentShape
    <3> QED BY <3>1, <3>2, Completes DEF Settled
  <2>2. UNCHANGED <<started, lost>>
    BY <1>9, Calls
  <2>3. \A v \in Delivery : channel'[v] \in Past => channel[v] \in Past
    BY <1>9, <1>s DEF CompletesReported
  <2>4. \A v \in Delivery : channel'[v] # "handling" \/ channel[v] = "handling"
    BY <1>9, <1>s DEF CompletesReported
  <2> QED BY <2>1, <2>2, <2>3, <2>4
<1>10. ASSUME NEW w \in Delivery, RenewsLease(w) PROVE Once'
  BY <1>10, <1>s, <1>a DEF RenewsLease
<1>11. ASSUME NEW w \in Delivery, CatchReads(w) PROVE Once'
  BY <1>11, <1>s, <1>a DEF CatchReads
<1>12. ASSUME NEW w \in Delivery, CatchSettles(w) PROVE Once'
  <2>1. runStatus' \notin {"queued", "activating"} /\ attempt' = attempt
    <3>1. PICK reported \in Reports :
             CompleteScheduleRun(reported, IF reported = "succeeded" THEN started ELSE {})
      BY <1>12, Calls
    <3>2. started \in SUBSET Session /\ RowShape
      BY DEF Shape, AgentShape
    <3> QED BY <3>1, <3>2, Completes DEF Settled
  <2>2. UNCHANGED <<started, lost>>
    BY <1>12, Calls
  <2>3. \A v \in Delivery : channel'[v] \in Past => channel[v] \in Past
    BY <1>12, <1>s DEF CatchSettles
  <2>4. \A v \in Delivery : channel'[v] # "handling" \/ channel[v] = "handling"
    BY <1>12, <1>s DEF CatchSettles
  <2> QED BY <2>1, <2>2, <2>3, <2>4
<1>13. ASSUME NEW w \in Delivery, ReleasesLease(w) PROVE Once'
  BY <1>13, <1>s, <1>a DEF ReleasesLease, Released
<1>14. ASSUME NEW w \in Delivery, WorkerCrashes(w) PROVE Once'
  BY <1>14, <1>s, <1>a DEF WorkerCrashes
<1>15. ASSUME NEW w \in Delivery, RedeemScheduleRunDispatch(w) PROVE Once'
  BY <1>15, <1>s, <1>a DEF RedeemScheduleRunDispatch, Past, Reports
<1>16. ASSUME NEW w \in Delivery, CompletionChecked(w) PROVE Once'
  BY <1>16, <1>s, <1>a DEF CompletionChecked, Checked, Past, Reports
<1>17. ASSUME NEW w \in Delivery, CompletionApplied(w) PROVE Once'
  <2>1. runStatus' \notin {"queued", "activating"} /\ attempt' = attempt
    <3>1. PICK reported \in Reports :
             CompleteScheduleRun(reported, IF reported = "succeeded" THEN started ELSE {})
      BY <1>17, Calls
    <3>2. started \in SUBSET Session /\ RowShape
      BY DEF Shape, AgentShape
    <3> QED BY <3>1, <3>2, Completes DEF Settled
  <2>2. UNCHANGED <<started, lost>>
    BY <1>17, Calls
  <2>3. \A v \in Delivery : channel'[v] \in Past => channel[v] \in Past
    BY <1>17, <1>s DEF CompletionApplied, Past, Reports, Checked
  <2>4. \A v \in Delivery : channel'[v] # "handling" \/ channel[v] = "handling"
    BY <1>17, <1>s DEF CompletionApplied, Past, Reports, Checked
  <2> QED BY <2>1, <2>2, <2>3, <2>4
<1>18. ASSUME NEW w \in Delivery, ReportLost(w) PROVE Once'
  BY <1>18, <1>s, <1>a DEF ReportLost, Past, Reports
<1>19. ASSUME NEW w \in Delivery, NEW result \in Reports, NEW sessions \in SUBSET Session,
             HandlerSettles(w, result, sessions) PROVE Once'
  BY <1>19, <1>s, <1>a DEF HandlerSettles, Past, Reports, AgentShape, Shape
<1>20. ASSUME RuntimeDies PROVE Once'
  BY <1>20, <1>s, <1>a DEF RuntimeDies, Past, Reports
<1>21. ASSUME NEW c \in Consumer, NEW s \in Session, NEW event \in {"turn", "session"},
             NEW verdict \in Outcome, IngestBegins(c, s, event, verdict)
      PROVE Once'
  BY <1>21, <1>s, <1>a DEF IngestBegins
<1>22. ASSUME NEW c \in Consumer, IngestReads(c) PROVE Once'
  BY <1>22, <1>s, <1>a DEF IngestReads
<1>23. ASSUME NEW c \in Consumer, IngestCommits(c) PROVE Once'
  <2>1. ingest[c].verdict # "unread" => ingest[c].verdict \in {"none", "succeeded", "failed"}
    BY DEF Shape, RowShape, IngestType
  <2> QED BY <1>23, <2>1 DEF IngestCommits
<1>24. ASSUME FailExpiredScheduleExecutions PROVE Once'
  BY <1>24, <1>s, <1>a DEF FailExpiredScheduleExecutions, Selects
<1>25. ASSUME FailScheduleExecutions PROVE Once'
  BY <1>25, <1>s, <1>a DEF FailScheduleExecutions, Selects
<1>26. ASSUME FailRunningSessions PROVE Once'
  BY <1>26, <1>s, <1>a DEF FailRunningSessions, Selects
<1>30. ASSUME FailsSelected PROVE Once'
  BY <1>30, <1>s, <1>a DEF FailsSelected, Released
<1>27. ASSUME ActivationAges PROVE Once'
  BY <1>27, <1>s, <1>a DEF ActivationAges
<1>28. ASSUME LeaseExpires PROVE Once'
  BY <1>28, <1>s, <1>a DEF LeaseExpires
<1>29. CASE UNCHANGED runVars
  BY <1>29 DEF runVars
<1> QED
  BY <1>1, <1>2, <1>3, <1>4, <1>5, <1>6, <1>7, <1>8, <1>9, <1>10, <1>11, <1>12,
     <1>13, <1>14, <1>15, <1>16, <1>17, <1>18, <1>19, <1>20, <1>21, <1>22,
     <1>23, <1>24, <1>25, <1>26, <1>27, <1>28, <1>29, <1>30 DEF RunNext, WorkerStep,
     ChannelStep, Reconciles

-----------------------------------------------------------------------------
(***************************************************************************)
(* Links, transactions and the verdict                                     *)
(***************************************************************************)
Rest == Links /\ Exclusive /\ Holds /\ Pending /\ Agree

\* What the five parts are about.
restVars == <<execution, started, stored, ingest>>

LEMMA RestFrame ==
    ASSUME Rest, UNCHANGED restVars,
           runStatus' = runStatus \/ runStatus' \notin {"running", "succeeded"}
    PROVE  Rest'
BY DEF Rest, restVars, Links, Exclusive, Holds, Pending, Agree, Open

\* Linking: nothing that is started is left out, and no open transaction is about
\* a Session that is linked here.
LEMMA RestComplete ==
    ASSUME Shape, Rest, NEW w \in Delivery,
           CompletesReported(w) \/ CatchSettles(w) \/ CompletionApplied(w)
    PROVE  Rest'
<1> USE DEF Rest
<1>1. PICK reported \in Reports :
         CompleteScheduleRun(reported, IF reported = "succeeded" THEN started ELSE {})
  BY Calls
<1>2. UNCHANGED <<started, stored, outcome, ingest>>
  BY Calls
<1>t. RowShape /\ started \subseteq Session
  BY DEF Shape, AgentShape
<1> DEFINE sessions == IF reported = "succeeded" THEN started ELSE {}
<1>3. sessions \in SUBSET Session /\ (reported # "succeeded" => sessions = {})
  BY <1>t
<1>s. sessions \in {{}, started} /\ (reported = "succeeded" => sessions = started)
  OBVIOUS
<1>4. CompleteScheduleRun(reported, sessions)
  BY <1>1
<1> HIDE DEF sessions
<1>5. /\ \A c \in Open : ingest[c].session \notin sessions
      /\ \A s \in Session :
            execution'[s] = IF s \in sessions /\ execution[s] = "none"
                            THEN IF stored[s] # {} THEN outcome[s] ELSE "running"
                            ELSE execution[s]
      /\ runStatus' = "running" => /\ reported = "succeeded"
                                   /\ \E s \in Session : execution'[s] = "running"
      /\ runStatus' = "succeeded" =>
            /\ reported = "succeeded"
            /\ sessions # {} => \A s \in Session : execution'[s] \notin {"running", "failed"}
  BY <1>3, <1>4, <1>t, Completes
<1>o. /\ \A s \in Session : stored[s] # {} => outcome[s] \in Ended
      /\ execution \in [Session -> {"none", "running"} \cup Ended]
  BY <1>t DEF RowShape
<1>6. \A s \in Session : execution[s] # "none" => execution'[s] = execution[s]
  BY <1>5
<1>7. \A s \in sessions : execution'[s] # "none"
  BY <1>5, <1>o, <1>3 DEF Ended
<1>8. Links'
  BY <1>2, <1>5, <1>6, <1>7, <1>s, <1>t DEF Links
<1>9. Open' = Open
  BY <1>2 DEF Open
<1>10. Exclusive'
  BY <1>2, <1>9 DEF Exclusive
<1>11. Holds'
  <2> SUFFICES ASSUME NEW c \in Open
               PROVE  /\ execution'[ingest[c].session] = execution[ingest[c].session]
                      /\ ingest[c].verdict = "succeeded" =>
                            \A t \in Session : execution'[t] = execution[t]
    BY <1>2, <1>9, <1>t DEF Holds
  <2>1. ingest[c].session \in started /\ ingest[c].session \in Session
    BY <1>t DEF Holds
  <2>2. sessions = {}
    BY <1>5, <1>s, <2>1
  <2> QED BY <1>5, <2>1, <2>2
<1>12. Pending'
  <2> SUFFICES ASSUME NEW s \in Session, execution'[s] = "running", stored[s] # {}
               PROVE  \E c \in Open : /\ ingest[c].session = s
                                      /\ "session" \in stored[s] => ingest[c].project
    BY <1>2, <1>9 DEF Pending
  <2>1. execution[s] = "running"
    BY <1>5, <1>o DEF Ended
  <2> QED BY <2>1 DEF Pending
<1>13. Agree'
  <2>1. ASSUME runStatus' = "running" PROVE \E s \in started : "session" \notin stored[s]
    <3>1. PICK s \in Session : execution'[s] = "running"
      BY <1>5, <2>1
    <3>2. sessions = started /\ s \in started
      BY <1>5, <1>s, <2>1, <3>1 DEF Links
    <3>3. stored[s] = {}
      BY <1>5, <1>o, <3>1, <3>2 DEF Pending, Ended
    <3> QED BY <3>2, <3>3
  <2>2. ASSUME runStatus' = "succeeded", NEW s \in Session
        PROVE  execution'[s] \notin {"failed", "running"}
    <3>1. CASE started = {}
      BY <1>5, <1>s, <2>2, <3>1 DEF Links
    <3>2. CASE started # {}
      BY <1>5, <1>s, <2>2, <3>2
    <3> QED BY <3>1, <3>2
  <2> QED BY <2>1, <2>2, <1>2 DEF Agree
<1> QED BY <1>8, <1>10, <1>11, <1>12, <1>13

\* The reconciler fails executions that no open transaction is about, none when ingests
\* have ended all of those it had selected.
LEMMA RestInterrupted ==
    ASSUME Shape, Rest, FailsSelected
    PROVE  Rest'
<1> USE DEF Rest
<1>1. /\ UNCHANGED <<started, stored, ingest>>
      /\ \A c \in Open : ingest[c].session \notin Interrupted
      /\ \A s \in Session :
            execution'[s] = IF s \in Interrupted THEN "failed" ELSE execution[s]
      /\ \A s \in Interrupted : s \in Session /\ execution[s] = "running"
      /\ \/ runStatus' = "failed"
         \/ runStatus' = runStatus /\ runStatus # "running"
  BY DEF FailsSelected, Interrupted, agentVars, RunningExecutions
<1>t. started \subseteq Session
  BY DEF Shape, AgentShape
<1>2. Open' = Open
  BY <1>1 DEF Open
<1>3. Links'
  BY <1>1, <1>t DEF Links
<1>4. Exclusive'
  BY <1>1, <1>2 DEF Exclusive
<1>5. Holds'
  BY <1>1, <1>2, <1>t DEF Holds
<1>6. Pending'
  BY <1>1, <1>2 DEF Pending
<1>7. Agree'
  BY <1>1, <1>2 DEF Agree
<1> QED BY <1>3, <1>4, <1>5, <1>6, <1>7

-----------------------------------------------------------------------------
(***************************************************************************)
(* Ingest                                                                  *)
(***************************************************************************)
\* A transaction that begins holds its Session alone.  When it stores the last
\* session boundary of a running run, the verdict is its to write.
LEMMA RestBegins ==
    ASSUME Shape, Rest, NEW c \in Consumer, NEW s \in Session,
           NEW event \in {"turn", "session"}, NEW verdict \in Outcome,
           IngestBegins(c, s, event, verdict)
    PROVE  Rest'
<1> USE DEF Rest
<1> DEFINE new == [session |-> s, project |-> event = "session", verdict |-> "unread",
                   wrote |-> IF execution[s] = "running" THEN verdict ELSE execution[s]]
<1>1. /\ c \notin Open /\ s \in started
      /\ \A o \in Open : ingest[o].session # s
      /\ event = "session" => \A o \in Open : ~ ingest[o].project
      /\ stored' = [stored EXCEPT ![s] = @ \cup {event}]
      /\ ingest' = [ingest EXCEPT ![c] = new]
      /\ UNCHANGED <<runStatus, execution, started>>
  BY DEF IngestBegins, runRow, agentVars
<1>t. /\ RowShape /\ started \subseteq Session /\ NoSession \notin Session
      /\ ingest \in [Consumer -> IngestType] /\ stored \in [Session -> SUBSET {"turn", "session"}]
      /\ verdict \in Ended
  BY RunAssumption DEF Shape, AgentShape, RowShape, Ended
<1>n. /\ new.session = s /\ (new.project <=> event = "session") /\ new.verdict = "unread"
      /\ new.wrote = IF execution[s] = "running" THEN verdict ELSE execution[s]
  OBVIOUS
<1> HIDE DEF new
<1>2. /\ Open' = Open \cup {c} /\ ingest'[c] = new
      /\ \A o \in Open : ingest'[o] = ingest[o]
  BY <1>1, <1>t, <1>n DEF Open
<1>3. \A t \in Session : stored'[t] = IF t = s THEN stored[t] \cup {event} ELSE stored[t]
  BY <1>1, <1>t
<1>4. Links'
  BY <1>1 DEF Links
<1>5. Exclusive'
  <2> SUFFICES ASSUME NEW d \in Open', NEW o \in Open', d # o
               PROVE  /\ ingest'[d].session # ingest'[o].session
                      /\ ~ (ingest'[d].project /\ ingest'[o].project)
    BY DEF Exclusive
  <2>1. CASE d = c
    BY <2>1, <1>1, <1>2, <1>n
  <2>2. CASE o = c
    BY <2>2, <1>1, <1>2, <1>n
  <2>3. CASE d # c /\ o # c
    BY <2>3, <1>2 DEF Exclusive
  <2> QED BY <2>1, <2>2, <2>3
<1>6. Holds'
  <2> SUFFICES ASSUME NEW o \in Open'
               PROVE  Holds!(o)'
    BY DEF Holds
  <2>1. CASE o = c
    BY <2>1, <1>1, <1>2, <1>3, <1>n, <1>t DEF Ended
  <2>2. CASE o # c
    BY <2>2, <1>1, <1>2, <1>3, <1>t DEF Holds
  <2> QED BY <2>1, <2>2
<1>7. Pending'
  <2> SUFFICES ASSUME NEW t \in Session, execution[t] = "running", stored'[t] # {}
               PROVE  \E o \in Open' : /\ ingest'[o].session = t
                                       /\ "session" \in stored'[t] => ingest'[o].project
    BY <1>1 DEF Pending
  <2>1. CASE t = s
    <3>1. stored[s] = {}
      BY <2>1, <1>1 DEF Pending
    <3> QED BY <2>1, <3>1, <1>2, <1>3, <1>n
  <2>2. CASE t # s
    BY <2>2, <1>2, <1>3 DEF Pending
  <2> QED BY <2>1, <2>2
<1>8. Agree'
  <2>1. ASSUME runStatus = "running", \A t \in started : "session" \in stored'[t]
        PROVE  \E o \in Open' : ingest'[o].project /\ ingest'[o].verdict # "none"
    <3>1. CASE event = "session"
      BY <3>1, <1>2, <1>n
    <3>2. CASE event = "turn"
      <4>1. \A t \in started : "session" \in stored[t]
        <5> SUFFICES ASSUME NEW t \in started PROVE "session" \in stored[t]
          OBVIOUS
        <5>1. t \in Session /\ "session" \in stored'[t] /\ event # "session"
          BY <2>1, <3>2, <1>t
        <5> QED BY <5>1, <1>3
      <4> QED BY <2>1, <4>1, <1>2 DEF Agree
    <3> QED BY <3>1, <3>2
  <2> QED BY <2>1, <1>1 DEF Agree
<1> QED BY <1>4, <1>5, <1>6, <1>7, <1>8

\* What a transaction sees: its own write over the committed executions.
LEMMA SeenRows ==
    ASSUME RowShape, NEW c \in Consumer, ingest[c].session \in Session
    PROVE  /\ Seen(c)[ingest[c].session] = ingest[c].wrote
           /\ \A t \in Session \ {ingest[c].session} : Seen(c)[t] = execution[t]
BY DEF Seen, RowShape

\* The verdict it reads: none while an execution runs, and otherwise failed when
\* one did.
LEMMA VerdictOf ==
    ASSUME NEW rows
    PROVE  /\ Verdict(rows) \in {"none", "succeeded", "failed"}
           /\ Verdict(rows) = "none" => \E t \in Session : rows[t] = "running"
           /\ Verdict(rows) = "succeeded" =>
                 \A t \in Session : rows[t] \notin {"running", "failed"}
BY DEF Verdict, AllEnded

\* The transaction of the last session boundary finds every execution ended: one
\* that still ran would be another transaction's, which would hold the Project.
LEMMA RestReads ==
    ASSUME Shape, Rest, NEW c \in Consumer, IngestReads(c)
    PROVE  Rest'
<1> USE DEF Rest
<1> DEFINE s == ingest[c].session
           v == IF ingest[c].wrote = "none" THEN "none" ELSE Verdict(Seen(c))
<1>1. /\ c \in Open
      /\ ingest' = [ingest EXCEPT ![c].verdict = v]
      /\ UNCHANGED <<runStatus, execution, started, stored>>
  BY DEF IngestReads, runRow, agentVars
<1>t. /\ RowShape /\ started \subseteq Session
      /\ ingest \in [Consumer -> IngestType] /\ ingest[c] \in IngestType
  BY DEF Shape, AgentShape, RowShape
<1>s. s \in Session /\ s \in started
  BY <1>1, <1>t DEF Holds
<1>v. /\ v \in {"none", "succeeded", "failed"} /\ (ingest[c].wrote = "none" => v = "none")
      /\ v = "succeeded" => /\ ingest[c].wrote \notin {"failed", "none"}
                            /\ \A t \in Session \ {s} : execution[t] \notin {"running", "failed"}
      /\ v = "none" /\ ingest[c].wrote # "none" =>
            \E t \in Session \ {s} : execution[t] = "running"
  <2>1. ingest[c].wrote # "running"
    BY <1>t DEF IngestType, Ended
  <2> QED BY <1>t, <1>s, <2>1, SeenRows, VerdictOf
<1> HIDE DEF v
<1>2. /\ Open' = Open
      /\ \A o \in Open : /\ ingest'[o].session = ingest[o].session
                         /\ ingest'[o].project = ingest[o].project
                         /\ ingest'[o].wrote = ingest[o].wrote
                         /\ ingest'[o].verdict = IF o = c THEN v ELSE ingest[o].verdict
  BY <1>1, <1>t DEF Open, IngestType
<1>3. Links' /\ Exclusive'
  BY <1>1, <1>2 DEF Links, Exclusive
<1>4. Holds'
  <2> SUFFICES ASSUME NEW o \in Open'
               PROVE  Holds!(o)'
    BY DEF Holds
  <2>1. CASE o = c
    BY <2>1, <1>1, <1>2, <1>v, <1>s DEF Holds
  <2>2. CASE o # c
    BY <2>2, <1>1, <1>2 DEF Holds
  <2> QED BY <2>1, <2>2
<1>5. Pending'
  BY <1>1, <1>2 DEF Pending
<1>6. Agree'
  <2>1. ASSUME runStatus = "running", \A t \in started : "session" \in stored[t]
        PROVE  \E o \in Open' : ingest'[o].project /\ ingest'[o].verdict # "none"
    <3>1. PICK o \in Open : ingest[o].project /\ ingest[o].verdict # "none"
      BY <2>1 DEF Agree
    <3>2. CASE o # c
      BY <3>1, <3>2, <1>2
    <3>3. CASE o = c
      <4>1. ingest[c].wrote # "none"
        BY <2>1, <1>1, <1>s DEF Links, Holds
      <4>2. ASSUME NEW t \in Session \ {s}, execution[t] = "running" PROVE FALSE
        <5>1. "session" \in stored[t]
          BY <2>1, <4>2 DEF Links
        <5>2. PICK d \in Open : ingest[d].session = t /\ ingest[d].project
          BY <4>2, <5>1 DEF Pending
        <5> QED BY <1>1, <3>1, <3>3, <4>2, <5>2 DEF Exclusive
      <4>3. v # "none"
        BY <1>v, <4>1, <4>2
      <4> QED BY <3>1, <3>3, <4>3, <1>1, <1>2
    <3> QED BY <3>2, <3>3
  <2> QED BY <2>1, <1>1 DEF Agree
<1> QED BY <1>3, <1>4, <1>5, <1>6

\* A commit settles its own execution and, when it read a verdict, the run.
LEMMA RestCommits ==
    ASSUME Shape, Rest, NEW c \in Consumer, IngestCommits(c)
    PROVE  Rest'
<1> USE DEF Rest
<1> DEFINE s == ingest[c].session
<1>1. /\ c \in Open /\ ingest[c].verdict # "unread"
      /\ execution' = Seen(c)
      /\ runStatus' = IF ingest[c].verdict # "none" /\ runStatus = "running"
                      THEN ingest[c].verdict ELSE runStatus
      /\ ingest' = [ingest EXCEPT ![c] = NoIngest]
      /\ UNCHANGED <<started, stored>>
  BY DEF IngestCommits, agentVars
<1>t. /\ RowShape /\ started \subseteq Session
      /\ ingest \in [Consumer -> IngestType] /\ ingest[c] \in IngestType
  BY DEF Shape, AgentShape, RowShape
<1>s. s \in Session /\ s \in started
  BY <1>1, <1>t DEF Holds
<1>w. /\ ingest[c].wrote # "running" /\ ingest[c].verdict \in {"none", "succeeded", "failed"}
      /\ ingest[c].wrote = "none" <=> execution[s] = "none"
      /\ execution[s] # "running" => ingest[c].wrote = execution[s]
  BY <1>1, <1>t DEF Holds, IngestType, Ended
<1>2. execution'[s] = ingest[c].wrote /\ \A t \in Session \ {s} : execution'[t] = execution[t]
  BY <1>1, <1>t, <1>s, SeenRows
<1>3. Open' = Open \ {c} /\ \A o \in Open \ {c} : ingest'[o] = ingest[o]
  BY <1>1, <1>t DEF Open, NoIngest
<1>o. \A o \in Open \ {c} : ingest[o].session # s /\ ingest[o].session \in Session
  BY <1>1, <1>t DEF Exclusive, Holds
<1>4. Links'
  <2>1. \A t \in Session : execution'[t] = "none" <=> execution[t] = "none"
    BY <1>2, <1>w
  <2>2. runStatus' = "running" => runStatus = "running"
    BY <1>1, <1>w
  <2> QED BY <1>1, <1>t, <2>1, <2>2 DEF Links
<1>5. Exclusive'
  BY <1>3 DEF Exclusive
<1>6. Holds'
  BY <1>1, <1>2, <1>3, <1>o, <1>w, <1>s DEF Holds
<1>7. Pending'
  BY <1>1, <1>2, <1>3, <1>w DEF Pending
<1>8. Agree'
  <2>1. ASSUME runStatus' = "running", \A t \in started : "session" \in stored[t]
        PROVE  \E o \in Open' : ingest'[o].project /\ ingest'[o].verdict # "none"
    <3>1. runStatus = "running" /\ ingest[c].verdict = "none"
      BY <2>1, <1>1, <1>w
    <3>2. PICK o \in Open : ingest[o].project /\ ingest[o].verdict # "none"
      BY <2>1, <3>1 DEF Agree
    <3> QED BY <3>1, <3>2, <1>3
  <2>2. ASSUME runStatus' = "succeeded", NEW t \in Session
        PROVE  execution'[t] \notin {"failed", "running"}
    <3>1. CASE runStatus = "succeeded"
      BY <3>1, <1>2, <1>w DEF Agree
    <3>2. CASE runStatus # "succeeded"
      <4>1. ingest[c].verdict = "succeeded"
        BY <2>2, <3>2, <1>1
      <4> QED BY <4>1, <1>1, <1>2, <1>w DEF Holds
    <3> QED BY <3>1, <3>2
  <2> QED BY <2>1, <2>2, <1>1 DEF Agree
<1> QED BY <1>4, <1>5, <1>6, <1>7, <1>8

-----------------------------------------------------------------------------
(***************************************************************************)
(* The invariant and the theorems                                          *)
(***************************************************************************)
LEMMA RestNext == Shape /\ Once /\ Rest /\ [RunNext]_runVars => Rest'
<1> SUFFICES ASSUME Shape, Once, Rest, [RunNext]_runVars PROVE Rest'
  OBVIOUS
<1> USE DEF restVars, runRow, leaseRow, workerVars, agentVars, transactionVars
<1>1. ASSUME NEW w \in Delivery, ClaimScheduleRunActivation(w) PROVE Rest'
  BY <1>1, RestFrame DEF ClaimScheduleRunActivation
<1>2. ASSUME NEW w \in Delivery, RedeemScheduleRunDispatch(w) PROVE Rest'
  BY <1>2, RestFrame DEF RedeemScheduleRunDispatch
<1>3. ASSUME NEW w \in Delivery, CompletesReported(w) \/ CatchSettles(w) \/ CompletionApplied(w)
      PROVE  Rest'
  BY <1>3, RestComplete
<1>4. ASSUME NEW w \in Delivery, NEW result \in Reports, NEW sessions \in SUBSET Session,
             HandlerSettles(w, result, sessions)
      PROVE  Rest'
  <2>1. started = {} /\ UNCHANGED <<runStatus, execution, stored, ingest>>
    BY <1>4 DEF HandlerSettles, Once
  <2>2. \A s \in Session : execution[s] = "none"
    BY <2>1 DEF Rest, Links
  <2>3. Open = {} /\ Open' = {}
    BY <2>1 DEF Rest, Holds, Open
  <2>4. runStatus # "running"
    BY <2>1, <2>3 DEF Rest, Agree
  <2> QED BY <2>1, <2>2, <2>3, <2>4 DEF Rest, Links, Exclusive, Holds, Pending, Agree
<1>5. ASSUME NEW c \in Consumer, NEW s \in Session, NEW event \in {"turn", "session"},
             NEW verdict \in Outcome, IngestBegins(c, s, event, verdict)
      PROVE  Rest'
  BY <1>5, RestBegins
<1>6. ASSUME NEW c \in Consumer, IngestReads(c) \/ IngestCommits(c) PROVE Rest'
  BY <1>6, RestReads, RestCommits
<1>7. ASSUME \/ FailExpiredScheduleExecutions \/ FailScheduleExecutions
             \/ FailRunningSessions
      PROVE  Rest'
  BY <1>7, RestFrame
     DEF FailExpiredScheduleExecutions, FailScheduleExecutions, FailRunningSessions, Selects
<1>8. ASSUME FailsSelected PROVE Rest'
  BY <1>8, RestInterrupted
<1>9. ASSUME NEW w \in Delivery,
             \/ JobClaimed(w) \/ ValidationThrows(w) \/ EnsureDeploymentActive(w)
             \/ ActivationThrows(w) \/ DispatchReturns(w) \/ DispatchThrows(w)
             \/ ReadsReported(w) \/ RenewsLease(w) \/ CatchReads(w) \/ ReleasesLease(w)
             \/ WorkerCrashes(w) \/ CompletionChecked(w) \/ ReportLost(w)
      PROVE  Rest'
  BY <1>9, RestFrame DEF JobClaimed, ValidationThrows, EnsureDeploymentActive,
     ActivationThrows, DispatchReturns, DispatchThrows, ReadsReported, RenewsLease,
     CatchReads, ReleasesLease, WorkerCrashes, CompletionChecked, ReportLost
<1>10. ASSUME RuntimeDies \/ ActivationAges \/ LeaseExpires \/ UNCHANGED runVars PROVE Rest'
  BY <1>10, RestFrame DEF RuntimeDies, ActivationAges, LeaseExpires, runVars
<1> QED
  BY <1>1, <1>2, <1>3, <1>4, <1>5, <1>6, <1>7, <1>8, <1>9, <1>10
  DEF RunNext, WorkerStep, ChannelStep, Reconciles

LEMMA RunInvInit == RunInit => RunInv
<1> SUFFICES ASSUME RunInit PROVE RunInv
  OBVIOUS
<1>1. Open = {}
  BY DEF RunInit, Open, NoIngest
<1>2. RowShape
  <2>1. NoIngest \in IngestType
    BY DEF NoIngest, IngestType
  <2> QED BY <2>1 DEF RunInit, RowShape, Protected, NoSelection
<1>3. PlaceShape /\ AgentShape
  BY DEF RunInit, PlaceShape, AgentShape, Place
<1>4. Once
  BY DEF RunInit, Once, Past, Reports
<1> QED BY <1>1, <1>2, <1>3, <1>4 DEF RunInit, RunInv, Shape, Links, Exclusive, Holds,
           Pending, Agree

\* Every reachable state of a run satisfies the inductive invariant.
THEOREM RunInvariant == RunSpec => []RunInv
<1>1. RunInv /\ [RunNext]_runVars => RunInv'
  BY RowNext, PlaceNext, OnceNext, RestNext DEF RunInv, Shape, Rest
<1> QED BY <1>1, RunInvInit, PTL DEF RunSpec

\* Type correctness of the run's rows, of its job and of the ingest transactions,
\* and that what is linked or lost was started.
THEOREM RunTypeCorrect == RunSpec => []RunTypeOK
<1>1. RunInv => RunTypeOK
  <2> SUFFICES ASSUME RunInv PROVE RunTypeOK
    OBVIOUS
  <2>1. RowShape /\ PlaceShape /\ AgentShape
    BY DEF RunInv, Shape
  <2>2. Linked \subseteq started
    BY DEF RunInv, Links, Linked
  <2>3. \A c \in Open : ingest[c].session \in Session
    BY <2>1 DEF RunInv, Holds, AgentShape
  <2> QED BY <2>1, <2>2, <2>3 DEF RunInv, Once, RunTypeOK, RowShape, PlaceShape
<1> QED BY <1>1, RunInvariant, PTL

\* "duplicate dispatch requests never trigger double execution" (scheduling.md): for
\* any number of executions of the job, crashes and stale reclaims, the authored
\* handler is let in at most once (redeemScheduleRunDispatch).
THEOREM HandlerRunsOnceCorrect == RunSpec => []HandlerRunsOnce
<1>1. RunInv => HandlerRunsOnce
  <2> SUFFICES ASSUME RunInv PROVE HandlerRunsOnce
    OBVIOUS
  <2> DEFINE P == {w \in Delivery : channel[w] \notin {"none", "redeem", "error"}}
  <2>1. \A w \in P : channel[w] \in Past
    BY DEF RunInv, Shape, AgentShape
  <2>2. \A v, w \in P : v = w
    BY <2>1 DEF RunInv, Once
  <2>3. P = {} \/ \E w \in P : P = {w}
    BY <2>2
  <2>4. Cardinality(P) <= 1
    BY <2>3, FS_EmptySet, FS_Singleton
  <2> QED BY <2>4 DEF RunInv, Once, HandlerRunsOnce
<1> QED BY <1>1, RunInvariant, PTL

\* A run is not left running once its Sessions' boundaries are ingested, and never
\* succeeded over an execution that failed or still runs, however ingest
\* transactions, late completions and the reconciler interleave.
THEOREM VerdictAgreesCorrect == RunSpec => []VerdictAgrees
<1>1. RunInv => VerdictAgrees
  BY DEF RunInv, Links, Linked, Agree, VerdictAgrees, Shape, AgentShape
<1> QED BY <1>1, RunInvariant, PTL
=============================================================================
