--------------------------- MODULE JobQueueProofs ---------------------------
(***************************************************************************)
(* Proofs about JobQueue for any projects, jobs, loops, caps and bounds:   *)
(* type correctness, the exclusion of conflicting running jobs with the    *)
(* build cap, the fencing of superseded executions, one deletion job per   *)
(* project, and the refinement of JobLocks.                                *)
(***************************************************************************)
EXTENDS JobQueue, FiniteSetTheorems, TLAPS

\* Exclusion does not depend on which of the two jobs asks.
LEMMA ConflictSymmetric ==
    ASSUME NEW s, NEW t, Conflict(s, t) PROVE Conflict(t, s)
BY DEF Conflict, UnknownTarget, DeploymentScoped

LEMMA KnownSpecsTyped == KnownSpecs \subseteq SpecType
<1>1. ASSUME NEW p \in Project PROVE DeleteSpec(p) \in SpecType
  BY <1>1 DEF DeleteSpec, SpecType, JobType
<1> QED BY <1>1, SpecAssumption DEF KnownSpecs

LEMMA DeleteSpecKnown == \A p \in Project : DeleteSpec(p) \in KnownSpecs
BY DEF KnownSpecs

LEMMA JobFacts ==
    /\ Job \subseteq Nat
    /\ None \notin Job
    /\ MaxJobs \in Nat
    /\ \A j \in Nat : j \in Job <=> 1 <= j /\ j <= MaxJobs
BY BoundAssumption, NoneAssumption DEF Job

-----------------------------------------------------------------------------
(***************************************************************************)
(* Type correctness                                                        *)
(***************************************************************************)
LEMMA TypeInit == Init => TypeOK
<1> SUFFICES ASSUME Init PROVE TypeOK
  OBVIOUS
<1> DEFINE q == CHOOSE p \in Project : TRUE
<1>1. q \in Project
  BY SpecAssumption
<1>2. DeleteSpec(q) \in KnownSpecs
  BY <1>1, DeleteSpecKnown
<1>3. spec \in [Job -> KnownSpecs]
  <2> HIDE DEF q
  <2>1. spec \in [Job -> {DeleteSpec(q)}]
    BY DEF Init, q
  <2> QED BY <2>1, <1>2
<1> QED BY <1>3, BoundAssumption, NoneAssumption DEF Init, TypeOK, Job

\* A row whose lock a claim holds is still queued when the claim commits.
LockedQueued == \A l \in Loop : phase[l] = "locked" => status[cur[l]] = "queued"

LEMMA TypeNext == TypeOK /\ LockedQueued /\ [Next]_vars => TypeOK'
<1> SUFFICES ASSUME TypeOK, LockedQueued, [Next]_vars PROVE TypeOK'
  OBVIOUS
<1> USE JobFacts
<1> USE DEF TypeOK, vars, rowVars, loopVars
<1>1. ASSUME NEW s \in JobSpecs, enqueueJob(s) PROVE TypeOK'
  BY <1>1 DEF enqueueJob, insertJobRowTx, KnownSpecs
<1>2. ASSUME NEW s \in JobSpecs, enqueueDeploymentArchive(s) PROVE TypeOK'
  BY <1>2 DEF enqueueDeploymentArchive, insertJobRowTx, KnownSpecs
<1>3. ASSUME NEW s \in JobSpecs, enqueueDeploymentActivation(s) PROVE TypeOK'
  BY <1>3 DEF enqueueDeploymentActivation, insertJobRowTx, KnownSpecs
<1>4. ASSUME NEW p \in Project, requestProjectDeletion(p) PROVE TypeOK'
  BY <1>4, DeleteSpecKnown DEF requestProjectDeletion
<1>5. ASSUME NEW l \in Loop, SelectCandidate(l) PROVE TypeOK'
  BY <1>5 DEF SelectCandidate
<1>6. ASSUME NEW l \in Loop, CommitClaim(l) PROVE TypeOK'
  <2>1. cur[l] \in Job /\ status[cur[l]] = "queued"
    BY <1>6 DEF CommitClaim, LockedQueued
  <2>2. \/ phase' = [phase EXCEPT ![l] = "work"]
        \/ phase' = [phase EXCEPT ![l] = "decode"]
    BY <1>6 DEF CommitClaim
  <2>3. /\ status' = [status EXCEPT ![cur[l]] = "running"]
        /\ attempts' = [attempts EXCEPT ![cur[l]] = attempts[cur[l]] + 1]
        /\ lease' = [lease EXCEPT ![cur[l]] = "fresh"]
        /\ held' = [held EXCEPT ![l] = attempts[cur[l]] + 1]
        /\ aborted' = [aborted EXCEPT ![l] = FALSE]
        /\ UNCHANGED <<spec, deletion, nextJob, cur, crashes>>
    BY <1>6 DEF CommitClaim
  <2>4. /\ status' \in [Job -> {"absent", "queued", "running", "completed", "failed"}]
        /\ lease' \in [Job -> {"none", "fresh", "stale"}]
        /\ attempts' \in [Job -> Nat]
        /\ held' \in [Loop -> Nat]
        /\ aborted' \in [Loop -> BOOLEAN]
    <3>0. attempts \in [Job -> Nat]
      OBVIOUS
    <3>1. attempts[cur[l]] + 1 \in Nat
      <4>1. attempts[cur[l]] \in Nat
        BY <2>1, <3>0
      <4> HIDE DEF TypeOK
      <4> QED BY <4>1
    <3> QED BY <2>1, <2>3, <3>1
  <2>8. phase' \in [Loop -> {"idle", "locked", "decode", "work", "settle"}]
    BY <2>2
  <2>5. \A j \in Job : j >= nextJob => status'[j] = "absent"
    BY <2>1, <2>3
  <2>6. \A j \in Job : lease'[j] = "none" <=> status'[j] # "running"
    BY <2>1, <2>3
  <2>7. \A k \in Loop : phase'[k] # "idle" => cur'[k] \in Job
    BY <2>1, <2>2, <2>3
  <2> QED BY <2>3, <2>4, <2>5, <2>6, <2>7, <2>8
<1>7. ASSUME NEW l \in Loop, QuarantineInvalidJob(l) PROVE TypeOK'
  BY <1>7 DEF QuarantineInvalidJob, Idle, Settle, Fence
<1>8. ASSUME NEW l \in Loop, heartbeatJob(l) PROVE TypeOK'
  <2>1. cur[l] \in Job
    BY <1>8 DEF heartbeatJob
  <2>2. CASE Fence(l)
    BY <1>8, <2>1, <2>2 DEF heartbeatJob, Fence
  <2>3. CASE ~Fence(l)
    BY <1>8, <2>1, <2>3 DEF heartbeatJob
  <2> QED BY <2>2, <2>3
<1>9. ASSUME NEW l \in Loop, deleteProject(l) PROVE TypeOK'
  BY <1>9 DEF deleteProject
<1>10. ASSUME NEW l \in Loop, completeJob(l) PROVE TypeOK'
  BY <1>10 DEF completeJob, Idle, Settle, Fence
<1>11. ASSUME NEW l \in Loop, failJob(l) PROVE TypeOK'
  <2>1. cur[l] \in Job
    BY <1>11 DEF failJob
  <2>2. CASE Fence(l)
    <3>1. /\ status' = [status EXCEPT ![cur[l]] = "failed"]
          /\ lease' = [lease EXCEPT ![cur[l]] = "none"]
          /\ phase' = [phase EXCEPT ![l] = "settle"]
          /\ UNCHANGED <<cur, held, aborted, spec, attempts, deletion, nextJob, crashes>>
      BY <1>11, <2>2 DEF failJob, Settle
    <3>2. status[cur[l]] = "running" /\ phase[l] = "work"
      BY <1>11, <2>2 DEF failJob, Fence
    <3> QED BY <2>1, <3>1, <3>2
  <2>3. CASE ~Fence(l)
    <3>1. Idle(l) /\ UNCHANGED <<status, lease, spec, attempts, deletion, nextJob, crashes>>
      BY <1>11, <2>3 DEF failJob
    <3> QED BY <3>1 DEF Idle
  <2> QED BY <2>2, <2>3
<1>12. ASSUME NEW l \in Loop, settleJobFailure(l) PROVE TypeOK'
  BY <1>12 DEF settleJobFailure, Idle
<1>13. ASSUME NEW j \in Job, LiveLeaseLapses(j) \/ OrphanLeaseLapses(j) PROVE TypeOK'
  BY <1>13 DEF LiveLeaseLapses, OrphanLeaseLapses
<1>14. CASE recoverStaleJobs
  BY <1>14 DEF recoverStaleJobs, Running
<1>15. CASE WorkerCrash
  BY <1>15 DEF WorkerCrash
<1>16. CASE UNCHANGED vars
  BY <1>16
<1> QED
  BY <1>1, <1>2, <1>3, <1>4, <1>5, <1>6, <1>7, <1>8, <1>9, <1>10, <1>11, <1>12,
     <1>13, <1>14, <1>15, <1>16
     DEF Next, Enqueue, LoopStep, Lapse

-----------------------------------------------------------------------------
(***************************************************************************)
(* Exclusion and the build cap                                             *)
(*                                                                         *)
(* ScopeExclusion is not inductive: a claim decides on a snapshot.  The    *)
(* invariant adds what makes the decision still good at the commit: one    *)
(* claim at a time, and what it read about its candidate stays true.       *)
(***************************************************************************)
OneClaim == \A l, k \in Loop : Claiming(l) /\ Claiming(k) => l = k

SnapshotGood ==
    \A l \in Loop : phase[l] = "locked" =>
        /\ \A r \in Running : ~Conflict(spec[cur[l]], spec[r])
        /\ spec[cur[l]].type \in HeavyJobTypes => Cardinality(RunningHeavy) < HeavyCap

ClaimInv == LockedQueued /\ OneClaim /\ SnapshotGood

QueueInv == TypeOK /\ ClaimInv /\ ScopeExclusion /\ HeavyCapHeld

\* What every step other than a commit does to the rows claims have looked at.
Shrinks ==
    /\ Running' \subseteq Running
    /\ \A j \in Running' : spec'[j] = spec[j]
    /\ \A l \in Loop : phase'[l] = "locked" =>
          \/ SelectCandidate(l)
          \/ /\ phase[l] = "locked" /\ cur'[l] = cur[l]
             /\ status'[cur[l]] = "queued" /\ spec'[cur[l]] = spec[cur[l]]
    /\ \A l \in Loop : Claiming(l)' => Claiming(l) \/ SelectCandidate(l)

LEMMA LockedRowsExist ==
    ASSUME TypeOK, LockedQueued, NEW l \in Loop, phase[l] = "locked"
    PROVE  cur[l] \in Job /\ cur[l] < nextJob
<1>1. cur[l] \in Job /\ status[cur[l]] = "queued"
  BY DEF TypeOK, LockedQueued
<1>2. cur[l] \in Nat /\ nextJob \in Nat
  <2>1. nextJob \in 1..(MaxJobs + 1)
    BY DEF TypeOK
  <2>2. nextJob \in Nat
    BY <2>1, BoundAssumption
  <2>3. cur[l] \in Nat
    BY <1>1, JobFacts
  <2> QED BY <2>2, <2>3
<1>3. ~(cur[l] >= nextJob)
  BY <1>1 DEF TypeOK
<1> QED BY <1>1, <1>2, <1>3

LEMMA SelectAlone ==
    \A l, k \in Loop : TypeOK /\ SelectCandidate(l) /\ Claiming(k)' => k = l
BY DEF SelectCandidate, ClaimChainFree, Claiming, TypeOK

\* A fenced settlement takes at most the loop's own running row out of running.
LEMMA FencedSettlement ==
    ASSUME TypeOK, NEW l \in Loop, cur[l] \in Job, NEW o \in {"completed", "failed"},
           (Fence(l) /\ Settle(cur[l], o)) \/ UNCHANGED status
    PROVE  /\ Running' \subseteq Running
           /\ \A j \in Job : status[j] # "running" => status'[j] = status[j]
BY DEF Fence, Settle, Running, TypeOK

\* A loop step that settles its own row and starts no claim.
LEMMA SettlementShrinks ==
    ASSUME LockedQueued, UNCHANGED spec, NEW l \in Loop,
           \A k \in Loop : phase[k] = "locked" => cur[k] \in Job,
           Running' \subseteq Running,
           \A j \in Job : status[j] # "running" => status'[j] = status[j],
           phase'[l] \in {"idle", "settle"},
           \A k \in Loop : k # l => phase'[k] = phase[k] /\ cur'[k] = cur[k]
    PROVE  Shrinks
<1>1. \A k \in Loop : Claiming(k)' => k # l /\ Claiming(k)
  BY DEF Claiming
<1>2. ASSUME NEW k \in Loop, phase'[k] = "locked"
      PROVE  /\ phase[k] = "locked" /\ cur'[k] = cur[k]
             /\ status'[cur[k]] = "queued" /\ spec'[cur[k]] = spec[cur[k]]
  <2>1. k # l /\ phase[k] = "locked" /\ cur'[k] = cur[k]
    BY <1>2
  <2>2. cur[k] \in Job /\ status[cur[k]] = "queued"
    BY <2>1 DEF LockedQueued
  <2> QED BY <2>1, <2>2
<1> QED BY <1>1, <1>2 DEF Shrinks

LEMMA StepShape ==
    ASSUME TypeOK, LockedQueued, [Next]_vars
    PROVE  Shrinks \/ \E l \in Loop : CommitClaim(l)
<1> USE JobFacts
<1> USE DEF TypeOK, LockedQueued, Shrinks, Running, Claiming, vars, rowVars, loopVars
<1>0. \A l \in Loop : phase[l] = "locked" => cur[l] \in Job /\ cur[l] < nextJob
  BY LockedRowsExist
<1>1. ASSUME NEW s \in JobSpecs, insertJobRowTx(s), UNCHANGED <<phase, cur>> PROVE Shrinks
  BY <1>0, <1>1 DEF insertJobRowTx, SelectCandidate
<1>2. ASSUME NEW s \in JobSpecs, enqueueJob(s) PROVE Shrinks
  BY <1>1, <1>2 DEF enqueueJob
<1>3. ASSUME NEW s \in JobSpecs, enqueueDeploymentArchive(s) PROVE Shrinks
  BY <1>1, <1>3 DEF enqueueDeploymentArchive
<1>4. ASSUME NEW s \in JobSpecs, enqueueDeploymentActivation(s) PROVE Shrinks
  <2>1. CASE insertJobRowTx(s)
    BY <1>1, <1>4, <2>1 DEF enqueueDeploymentActivation
  <2>2. CASE ~insertJobRowTx(s)
    <3>1. PICK j \in Job : /\ status[j] = "running"
                           /\ status' = [status EXCEPT ![j] = "queued"]
                           /\ UNCHANGED <<spec, phase, cur>>
      BY <1>4, <2>2 DEF enqueueDeploymentActivation
    <3> QED BY <1>0, <3>1
  <2> QED BY <2>1, <2>2
<1>5. ASSUME NEW p \in Project, requestProjectDeletion(p) PROVE Shrinks
  BY <1>0, <1>5 DEF requestProjectDeletion, SelectCandidate
<1>6. ASSUME NEW l \in Loop, SelectCandidate(l) PROVE Shrinks
  <2>1. UNCHANGED <<status, spec>> /\ phase' = [phase EXCEPT ![l] = "locked"]
    BY <1>6 DEF SelectCandidate
  <2>2. \A k \in Loop : k # l => phase'[k] = phase[k] /\ cur'[k] = cur[k]
    BY <1>6 DEF SelectCandidate
  <2> QED BY <1>0, <1>6, <2>1, <2>2
<1>7. ASSUME NEW l \in Loop, QuarantineInvalidJob(l) PROVE Shrinks
  <2>1. cur[l] \in Job /\ UNCHANGED spec
    BY <1>7 DEF QuarantineInvalidJob
  <2>2. /\ Running' \subseteq Running
        /\ \A j \in Job : status[j] # "running" => status'[j] = status[j]
    BY <1>7, <2>1, FencedSettlement DEF QuarantineInvalidJob
  <2>3. /\ phase'[l] = "idle"
        /\ \A k \in Loop : k # l => phase'[k] = phase[k] /\ cur'[k] = cur[k]
    BY <1>7 DEF QuarantineInvalidJob, Idle
  <2> HIDE DEF TypeOK, Shrinks, LockedQueued, Running, Claiming
  <2> QED BY <1>0, <2>1, <2>2, <2>3, SettlementShrinks
<1>8. ASSUME NEW l \in Loop, heartbeatJob(l) PROVE Shrinks
  BY <1>0, <1>8 DEF heartbeatJob, SelectCandidate
<1>9. ASSUME NEW l \in Loop, deleteProject(l) PROVE Shrinks
  BY <1>0, <1>9 DEF deleteProject, SelectCandidate
<1>10. ASSUME NEW l \in Loop, completeJob(l) PROVE Shrinks
  <2>1. cur[l] \in Job /\ UNCHANGED spec
    BY <1>10 DEF completeJob
  <2>2. /\ Running' \subseteq Running
        /\ \A j \in Job : status[j] # "running" => status'[j] = status[j]
    BY <1>10, <2>1, FencedSettlement DEF completeJob
  <2>3. /\ phase'[l] = "idle"
        /\ \A k \in Loop : k # l => phase'[k] = phase[k] /\ cur'[k] = cur[k]
    BY <1>10 DEF completeJob, Idle
  <2> HIDE DEF TypeOK, Shrinks, LockedQueued, Running, Claiming
  <2> QED BY <1>0, <2>1, <2>2, <2>3, SettlementShrinks
<1>11. ASSUME NEW l \in Loop, failJob(l) PROVE Shrinks
  <2>1. cur[l] \in Job /\ UNCHANGED spec
    BY <1>11 DEF failJob
  <2>2. /\ Running' \subseteq Running
        /\ \A j \in Job : status[j] # "running" => status'[j] = status[j]
    BY <1>11, <2>1, FencedSettlement DEF failJob
  <2>3. /\ phase'[l] \in {"idle", "settle"}
        /\ \A k \in Loop : k # l => phase'[k] = phase[k] /\ cur'[k] = cur[k]
    BY <1>11 DEF failJob, Idle
  <2> HIDE DEF TypeOK, Shrinks, LockedQueued, Running, Claiming
  <2> QED BY <1>0, <2>1, <2>2, <2>3, SettlementShrinks
<1>12. ASSUME NEW l \in Loop, settleJobFailure(l) PROVE Shrinks
  BY <1>0, <1>12 DEF settleJobFailure, Idle, SelectCandidate
<1>13. ASSUME NEW j \in Job, LiveLeaseLapses(j) \/ OrphanLeaseLapses(j) PROVE Shrinks
  BY <1>0, <1>13 DEF LiveLeaseLapses, OrphanLeaseLapses, SelectCandidate
<1>14. ASSUME recoverStaleJobs PROVE Shrinks
  BY <1>0, <1>14 DEF recoverStaleJobs, SelectCandidate
<1>15. ASSUME WorkerCrash PROVE Shrinks
  BY <1>0, <1>15 DEF WorkerCrash, SelectCandidate
<1>16. ASSUME UNCHANGED vars PROVE Shrinks
  BY <1>0, <1>16 DEF SelectCandidate
<1> QED
  BY <1>2, <1>3, <1>4, <1>5, <1>6, <1>7, <1>8, <1>9, <1>10, <1>11, <1>12, <1>13,
     <1>14, <1>15, <1>16
     DEF Next, Enqueue, LoopStep, Lapse

LEMMA HeavyFinite ==
    /\ IsFiniteSet(RunningHeavy)
    /\ Cardinality(RunningHeavy) \in Nat
    /\ IsFiniteSet(Job)
<1>1. IsFiniteSet(Job)
  BY FS_Interval, BoundAssumption DEF Job
<1>2. RunningHeavy \subseteq Job
  BY DEF RunningHeavy, Running
<1> QED BY <1>1, <1>2, FS_Subset, FS_CardinalityType

LEMMA QueueInit == Init => QueueInv
<1> SUFFICES ASSUME Init PROVE QueueInv
  OBVIOUS
<1>1. TypeOK
  BY TypeInit
<1>2. ClaimInv
  BY DEF Init, ClaimInv, LockedQueued, OneClaim, SnapshotGood, Claiming
<1>3. Running = {}
  BY DEF Init, Running
<1>4. ScopeExclusion
  BY <1>3 DEF ScopeExclusion
<1>5. HeavyCapHeld
  <2>1. RunningHeavy = {}
    BY <1>3 DEF RunningHeavy
  <2> QED BY <2>1, FS_EmptySet, BoundAssumption DEF HeavyCapHeld
<1> QED BY <1>1, <1>2, <1>4, <1>5 DEF QueueInv

\* A step that adds no running row keeps the invariant.
LEMMA ShrinkKeepsInv ==
    ASSUME QueueInv, [Next]_vars, Shrinks PROVE QueueInv'
<1> USE DEF QueueInv, ClaimInv
<1>1. TypeOK'
  BY TypeNext
<1>2. LockedQueued'
  <2> SUFFICES ASSUME NEW l \in Loop, phase'[l] = "locked" PROVE status'[cur'[l]] = "queued"
    BY DEF LockedQueued
  <2>1. CASE SelectCandidate(l)
    BY <2>1 DEF SelectCandidate, Eligible, rowVars, TypeOK
  <2> QED BY <2>1 DEF Shrinks
<1>3. OneClaim'
  BY SelectAlone DEF OneClaim, Shrinks
<1>4. RunningHeavy' \subseteq RunningHeavy
  BY DEF Shrinks, RunningHeavy
<1>5. Cardinality(RunningHeavy') <= Cardinality(RunningHeavy) /\ Cardinality(RunningHeavy') \in Nat
  BY <1>4, HeavyFinite, FS_Subset, FS_CardinalityType
<1>6. SnapshotGood'
  <2> SUFFICES ASSUME NEW l \in Loop, phase'[l] = "locked"
               PROVE  /\ \A r \in Running' : ~Conflict(spec'[cur'[l]], spec'[r])
                      /\ spec'[cur'[l]].type \in HeavyJobTypes
                           => Cardinality(RunningHeavy') < HeavyCap
    BY DEF SnapshotGood
  <2>1. /\ \A r \in Running : ~Conflict(spec'[cur'[l]], spec[r])
        /\ spec'[cur'[l]].type \in HeavyJobTypes => Cardinality(RunningHeavy) < HeavyCap
    <3>1. CASE SelectCandidate(l)
      <4>1. Eligible(cur'[l]) /\ UNCHANGED spec
        BY <3>1 DEF SelectCandidate, rowVars, TypeOK
      <4>2. cur'[l] \notin Running
        BY <4>1 DEF Eligible, Running
      <4> QED BY <4>1, <4>2 DEF Eligible
    <3>2. CASE ~SelectCandidate(l)
      BY <3>2 DEF Shrinks, SnapshotGood
    <3> QED BY <3>1, <3>2
  <2>2. \A r \in Running' : ~Conflict(spec'[cur'[l]], spec'[r])
    BY <2>1 DEF Shrinks
  <2> QED BY <2>1, <2>2, <1>5, HeavyFinite, BoundAssumption
<1>7. ScopeExclusion'
  BY DEF ScopeExclusion, Shrinks
<1>8. HeavyCapHeld'
  BY <1>5, HeavyFinite, BoundAssumption DEF HeavyCapHeld
<1> QED BY <1>1, <1>2, <1>3, <1>6, <1>7, <1>8

\* The commit of a claim keeps it, because what the claim read is still true.
LEMMA CommitKeepsInv ==
    ASSUME QueueInv, [Next]_vars, NEW l \in Loop, CommitClaim(l) PROVE QueueInv'
<1> USE DEF QueueInv, ClaimInv
<1> DEFINE j == cur[l]
<1>1. TypeOK'
  BY TypeNext
<1>2. /\ j \in Job /\ status[j] = "queued" /\ phase[l] = "locked"
      /\ UNCHANGED <<spec, cur>>
  BY DEF CommitClaim, LockedQueued, TypeOK
<1>3. Running' = Running \cup {j}
  BY <1>2 DEF CommitClaim, Running, TypeOK
<1>4. \A k \in Loop : phase'[k] # "locked"
  <2>1. \A k \in Loop : k # l => phase[k] # "locked"
    BY <1>2 DEF OneClaim, Claiming
  <2> QED BY <2>1 DEF CommitClaim, TypeOK
<1>5. OneClaim'
  BY <1>2 DEF OneClaim, Claiming, CommitClaim, TypeOK
<1>6. \A r \in Running : ~Conflict(spec[j], spec[r]) /\ ~Conflict(spec[r], spec[j])
  BY <1>2, ConflictSymmetric DEF SnapshotGood
<1>7. ScopeExclusion'
  BY <1>2, <1>3, <1>6 DEF ScopeExclusion
<1>8. HeavyCapHeld'
  <2>1. CASE spec[j].type \in HeavyJobTypes
    <3>1. RunningHeavy' = RunningHeavy \cup {j}
      BY <1>2, <1>3, <2>1 DEF RunningHeavy
    <3>2. Cardinality(RunningHeavy) < HeavyCap
      BY <1>2, <2>1 DEF SnapshotGood
    <3>3. j \notin RunningHeavy
      BY <1>2 DEF RunningHeavy, Running
    <3>4. Cardinality(RunningHeavy') = Cardinality(RunningHeavy) + 1
      BY <3>1, <3>3, HeavyFinite, FS_AddElement
    <3> QED BY <3>2, <3>4, HeavyFinite, BoundAssumption DEF HeavyCapHeld
  <2>2. CASE spec[j].type \notin HeavyJobTypes
    <3>1. RunningHeavy' = RunningHeavy
      BY <1>2, <1>3, <2>2 DEF RunningHeavy
    <3> QED BY <3>1 DEF HeavyCapHeld
  <2> QED BY <2>1, <2>2
<1> QED BY <1>1, <1>4, <1>5, <1>7, <1>8 DEF LockedQueued, SnapshotGood

LEMMA QueueInvariant == Spec => []QueueInv
<1>1. Init => QueueInv
  BY QueueInit
<1>2. QueueInv /\ [Next]_vars => QueueInv'
  BY StepShape, ShrinkKeepsInv, CommitKeepsInv DEF QueueInv, ClaimInv
<1> QED BY <1>1, <1>2, PTL DEF Spec

\* Rows, loops and projects keep their types, ids not handed out have no row,
\* and locked_at is set exactly while a row is running.
THEOREM TypeCorrect == Spec => []TypeOK
<1>1. QueueInv => TypeOK
  BY DEF QueueInv
<1> QED BY <1>1, QueueInvariant, PTL

\* For any set of projects, jobs and pump loops: no two running rows conflict.
THEOREM ExclusionCorrect == Spec => []ScopeExclusion
<1>1. QueueInv => ScopeExclusion
  BY DEF QueueInv
<1> QED BY <1>1, QueueInvariant, PTL

\* For any cap: never more running builds than the cap.
THEOREM HeavyCapCorrect == Spec => []HeavyCapHeld
<1>1. QueueInv => HeavyCapHeld
  BY DEF QueueInv
<1> QED BY <1>1, QueueInvariant, PTL

\* What claimNextJob promises of the jobs it admits holds for any projects, jobs,
\* loops, cap and bounds: exclusive scopes and capped builds.
THEOREM AdmissionCorrect == Spec => []Admission
<1>1. ScopeExclusion /\ HeavyCapHeld => Admission
  BY DEF Admission
<1> QED BY <1>1, ExclusionCorrect, HeavyCapCorrect, PTL

-----------------------------------------------------------------------------
(***************************************************************************)
(* Executions and their fences                                             *)
(*                                                                         *)
(* Executions of different jobs that both hold their fence are running     *)
(* rows, so ScopeExclusion parts them.  Two of the same job are parted by  *)
(* the attempt: every claim counts one, so no two hold the same.           *)
(***************************************************************************)
HeldCounted == \A l \in Loop : Executing(l) => held[l] <= attempts[cur[l]]

HeldDistinct ==
    \A l, k \in Loop : /\ l # k /\ Executing(l) /\ Executing(k)
                       /\ cur[l] = cur[k]
                       => held[l] # held[k]

FenceInv == HeldCounted /\ HeldDistinct

\* Only the commit of a claim starts an execution or counts an attempt.
ExecutionsKept ==
    /\ attempts' = attempts
    /\ \A l \in Loop : Executing(l)' => Executing(l) /\ cur'[l] = cur[l] /\ held'[l] = held[l]

LEMMA ExecutionShape ==
    ASSUME TypeOK, [Next]_vars
    PROVE  ExecutionsKept \/ \E l \in Loop : CommitClaim(l)
<1> USE DEF TypeOK, ExecutionsKept, Executing, vars, rowVars, loopVars
<1>1. ASSUME NEW s \in JobSpecs,
             enqueueJob(s) \/ enqueueDeploymentArchive(s) \/ enqueueDeploymentActivation(s)
      PROVE  ExecutionsKept
  BY <1>1 DEF enqueueJob, enqueueDeploymentArchive, enqueueDeploymentActivation, insertJobRowTx
<1>2. ASSUME NEW p \in Project, requestProjectDeletion(p) PROVE ExecutionsKept
  BY <1>2 DEF requestProjectDeletion
<1>3. ASSUME NEW l \in Loop, SelectCandidate(l) PROVE ExecutionsKept
  BY <1>3 DEF SelectCandidate
<1>4. ASSUME NEW l \in Loop, QuarantineInvalidJob(l) \/ completeJob(l) \/ settleJobFailure(l)
      PROVE  ExecutionsKept
  BY <1>4 DEF QuarantineInvalidJob, completeJob, settleJobFailure, Idle
<1>5. ASSUME NEW l \in Loop, heartbeatJob(l) \/ deleteProject(l) PROVE ExecutionsKept
  BY <1>5 DEF heartbeatJob, deleteProject
<1>6. ASSUME NEW l \in Loop, failJob(l) PROVE ExecutionsKept
  BY <1>6 DEF failJob, Idle
<1>7. ASSUME NEW j \in Job, LiveLeaseLapses(j) \/ OrphanLeaseLapses(j) PROVE ExecutionsKept
  BY <1>7 DEF LiveLeaseLapses, OrphanLeaseLapses
<1>8. ASSUME recoverStaleJobs PROVE ExecutionsKept
  BY <1>8 DEF recoverStaleJobs
<1>9. ASSUME WorkerCrash PROVE ExecutionsKept
  BY <1>9 DEF WorkerCrash
<1>10. ASSUME UNCHANGED vars PROVE ExecutionsKept
  BY <1>10
<1> QED
  BY <1>1, <1>2, <1>3, <1>4, <1>5, <1>6, <1>7, <1>8, <1>9, <1>10
     DEF Next, Enqueue, LoopStep, Lapse

LEMMA FenceNext == TypeOK /\ FenceInv /\ [Next]_vars => FenceInv'
<1> SUFFICES ASSUME TypeOK, FenceInv, [Next]_vars PROVE FenceInv'
  OBVIOUS
<1> USE DEF FenceInv, HeldCounted, HeldDistinct
<1>1. CASE ExecutionsKept
  BY <1>1 DEF ExecutionsKept
<1>2. ASSUME NEW l \in Loop, CommitClaim(l) PROVE FenceInv'
  <2>1. /\ cur[l] \in Job /\ attempts[cur[l]] \in Nat
        /\ attempts \in [Job -> Nat] /\ held \in [Loop -> Nat]
    BY <1>2 DEF CommitClaim, TypeOK
  <2>2. /\ attempts' = [attempts EXCEPT ![cur[l]] = attempts[cur[l]] + 1]
        /\ held' = [held EXCEPT ![l] = attempts[cur[l]] + 1]
        /\ cur' = cur
    BY <1>2 DEF CommitClaim
  <2>3. \A k \in Loop : k # l => (Executing(k)' <=> Executing(k)) /\ held'[k] = held[k]
    BY <1>2, <2>1, <2>2 DEF CommitClaim, Executing, TypeOK
  <2>4. \A k \in Loop : Executing(k) => cur[k] \in Job
    BY DEF TypeOK, Executing
  <2>5. \A k \in Loop : k # l /\ Executing(k)' /\ cur[k] = cur[l] => held'[k] <= attempts[cur[l]]
    BY <2>3
  <2>6. held'[l] = attempts[cur[l]] + 1 /\ attempts'[cur[l]] = attempts[cur[l]] + 1
    BY <2>1, <2>2
  <2>7. HeldDistinct'
    <3> SUFFICES ASSUME NEW k \in Loop, NEW m \in Loop, k # m, Executing(k)', Executing(m)',
                        cur[k] = cur[m]
                 PROVE  held'[k] # held'[m]
      BY <2>2
    <3>1. \A i \in Loop : held'[i] \in Nat
      BY <2>1, <2>2
    <3>2. CASE k = l
      BY <2>1, <2>5, <2>6, <3>1, <3>2
    <3>3. CASE m = l
      BY <2>1, <2>5, <2>6, <3>1, <3>3
    <3>4. CASE k # l /\ m # l
      BY <2>3, <3>4
    <3> QED BY <3>2, <3>3, <3>4
  <2>8. HeldCounted'
    <3> SUFFICES ASSUME NEW k \in Loop, Executing(k)' PROVE held'[k] <= attempts'[cur[k]]
      BY <2>2
    <3>1. CASE k = l
      BY <2>1, <2>6, <3>1
    <3>2. CASE k # l /\ cur[k] = cur[l]
      <4>1. held'[k] \in Nat /\ held'[k] <= attempts[cur[l]]
        BY <2>1, <2>2, <2>5, <3>2
      <4> QED BY <2>1, <2>6, <3>2, <4>1
    <3>3. CASE k # l /\ cur[k] # cur[l]
      <4>1. Executing(k) /\ held'[k] = held[k] /\ cur[k] \in Job
        BY <2>3, <2>4, <3>3
      <4>2. attempts'[cur[k]] = attempts[cur[k]]
        BY <2>1, <2>2, <3>3, <4>1
      <4> QED BY <4>1, <4>2
    <3> QED BY <3>1, <3>2, <3>3
  <2> QED BY <2>7, <2>8
<1> QED BY <1>1, <1>2, ExecutionShape

LEMMA FenceInvariant == Spec => []FenceInv
<1>1. Init => FenceInv
  BY DEF Init, FenceInv, HeldCounted, HeldDistinct, Executing
<1>2. QueueInv /\ FenceInv /\ [Next]_vars => FenceInv'
  BY FenceNext DEF QueueInv
<1> QED BY <1>1, <1>2, QueueInvariant, PTL DEF Spec

\* Stale recovery may leave an old execution behind; of two executions that
\* exclude each other, on one row or on two, at most one can still change its row.
THEOREM FencingCorrect == Spec => []ConflictingExecutionsAreFenced
<1>1. QueueInv /\ FenceInv => ConflictingExecutionsAreFenced
  <2> SUFFICES ASSUME QueueInv, FenceInv, NEW l \in Loop, NEW k \in Loop,
                      l # k, Executing(l), Executing(k), Fence(l), Fence(k)
               PROVE  cur[l] # cur[k] /\ ~Conflict(spec[cur[l]], spec[cur[k]])
    BY DEF ConflictingExecutionsAreFenced
  <2>1. cur[l] # cur[k]
    BY DEF FenceInv, HeldDistinct, Fence
  <2>2. cur[l] \in Running /\ cur[k] \in Running
    BY DEF Fence, Running, QueueInv, TypeOK, Executing
  <2> QED BY <2>1, <2>2 DEF QueueInv, ScopeExclusion
<1> QED BY <1>1, QueueInvariant, FenceInvariant, PTL

-----------------------------------------------------------------------------
(***************************************************************************)
(* Deletion jobs                                                           *)
(*                                                                         *)
(* A deletion is open from the request until its job has been settled for  *)
(* the project too: a failed row whose failure hook has not run yet still  *)
(* stands for the project's one deletion.                                  *)
(***************************************************************************)
Settling(j) == \E l \in Loop : phase[l] = "settle" /\ cur[l] = j

OpenDeletion(j) == spec[j].type = "delete_project" /\ (Active(j) \/ Settling(j))

OneOpenDeletion ==
    \A j, k \in Job : /\ OpenDeletion(j) /\ OpenDeletion(k)
                      /\ spec[j].project = spec[k].project
                      => j = k

DeletionMarked ==
    \A j \in Job : OpenDeletion(j) =>
        \/ deletion[spec[j].project] = "deleting"
        \/ deletion[spec[j].project] = "gone" /\ ~Active(j)

\* A failure hook runs once per job, on a row that is over.
HookOnce ==
    /\ \A l \in Loop : phase[l] = "settle" =>
          cur[l] \in Job /\ cur[l] < nextJob /\ status[cur[l]] \in {"failed", "absent"}
    /\ \A l, k \in Loop : phase[l] = "settle" /\ phase[k] = "settle" /\ cur[l] = cur[k] => l = k

DeletionInv == HookOnce /\ OneOpenDeletion /\ DeletionMarked

\* A step that opens no deletion and marks no project.
DeletionKept ==
    /\ deletion' = deletion
    /\ \A j \in Job : OpenDeletion(j)' =>
          /\ OpenDeletion(j) /\ spec'[j] = spec[j]
          /\ Active(j)' => Active(j)

LEMMA KeptDeletions ==
    ASSUME DeletionInv, DeletionKept PROVE OneOpenDeletion' /\ DeletionMarked'
BY DEF DeletionInv, DeletionKept, OneOpenDeletion, DeletionMarked

\* The hooks that are due stay due on rows that are over.
LEMMA KeptHooks ==
    ASSUME HookOnce, nextJob \in Nat, nextJob' \in {nextJob, nextJob + 1},
           \A k \in Loop : phase'[k] = "settle" =>
              /\ phase[k] = "settle" /\ cur'[k] = cur[k]
              /\ status'[cur[k]] \in {status[cur[k]], "absent"}
    PROVE  HookOnce'
<1>1. ASSUME NEW l \in Loop, phase'[l] = "settle"
      PROVE  /\ cur'[l] \in Job /\ cur'[l] < nextJob'
             /\ status'[cur'[l]] \in {"failed", "absent"}
  <2>1. /\ phase[l] = "settle" /\ cur'[l] = cur[l]
        /\ status'[cur[l]] \in {status[cur[l]], "absent"}
    BY <1>1
  <2>2. cur[l] \in Job /\ cur[l] < nextJob /\ status[cur[l]] \in {"failed", "absent"}
    BY <2>1 DEF HookOnce
  <2>3. cur[l] \in Nat
    BY <2>2, JobFacts
  <2> QED BY <2>1, <2>2, <2>3
<1>2. ASSUME NEW l \in Loop, NEW k \in Loop,
             phase'[l] = "settle", phase'[k] = "settle", cur'[l] = cur'[k]
      PROVE  l = k
  BY <1>2 DEF HookOnce
<1> QED BY <1>1, <1>2 DEF HookOnce

LEMMA DeletionNext ==
    ASSUME QueueInv, DeletionInv, [Next]_vars PROVE DeletionInv'
<1> USE JobFacts
<1> USE DEF QueueInv, ClaimInv, TypeOK, vars, rowVars, loopVars
<1>0. /\ nextJob \in Nat
      /\ \A j \in Job : j >= nextJob => ~Active(j) /\ ~Settling(j)
  <2>1. nextJob \in Nat
    BY BoundAssumption
  <2>2. ASSUME NEW j \in Job, j >= nextJob PROVE ~Active(j) /\ ~Settling(j)
    BY <2>1, <2>2 DEF Active, Settling, DeletionInv, HookOnce
  <2> QED BY <2>1, <2>2
<1>1. ASSUME NEW s \in JobSpecs, insertJobRowTx(s), UNCHANGED <<phase, cur, deletion>>
      PROVE  DeletionInv'
  <2>1. HookOnce'
    <3>1. \A k \in Loop : phase[k] = "settle" => cur[k] # nextJob
      BY <1>0 DEF DeletionInv, HookOnce
    <3>2. status' = [status EXCEPT ![nextJob] = "queued"] /\ nextJob' = nextJob + 1
      BY <1>1 DEF insertJobRowTx
    <3> QED BY <1>0, <1>1, <3>1, <3>2, KeptHooks DEF DeletionInv
  <2>2. DeletionKept
    BY <1>0, <1>1, SpecAssumption
       DEF DeletionKept, insertJobRowTx, OpenDeletion, Active, Settling
  <2> QED BY <2>1, <2>2, KeptDeletions DEF DeletionInv
<1>2. ASSUME NEW s \in JobSpecs, enqueueJob(s) \/ enqueueDeploymentArchive(s)
      PROVE  DeletionInv'
  BY <1>1, <1>2 DEF enqueueJob, enqueueDeploymentArchive
<1>3. ASSUME NEW s \in JobSpecs, enqueueDeploymentActivation(s) PROVE DeletionInv'
  <2>1. CASE insertJobRowTx(s)
    BY <1>1, <1>3, <2>1 DEF enqueueDeploymentActivation
  <2>2. CASE ~insertJobRowTx(s)
    <3>1. PICK j \in Job : /\ status[j] = "running"
                           /\ status' = [status EXCEPT ![j] = "queued"]
                           /\ UNCHANGED <<spec, phase, cur, nextJob, deletion>>
      BY <1>3, <2>2 DEF enqueueDeploymentActivation
    <3>2. HookOnce'
      BY <3>1 DEF DeletionInv, HookOnce
    <3>3. DeletionKept
      BY <3>1 DEF DeletionKept, OpenDeletion, Active, Settling
    <3> QED BY <3>2, <3>3, KeptDeletions DEF DeletionInv
  <2> QED BY <2>1, <2>2
<1>4. ASSUME NEW p \in Project, requestProjectDeletion(p) PROVE DeletionInv'
  <2>1. /\ nextJob \in Job /\ deletion[p] \in {"none", "failed"}
        /\ deletion' = [deletion EXCEPT ![p] = "deleting"]
        /\ spec' = [spec EXCEPT ![nextJob] = DeleteSpec(p)]
        /\ status'[nextJob] = "queued"
        /\ \A j \in Job : j # nextJob => status'[j] \in {status[j], "absent"}
        /\ nextJob' = nextJob + 1
        /\ UNCHANGED <<phase, cur>>
    BY <1>4 DEF requestProjectDeletion
  <2>2. HookOnce'
    <3>1. \A k \in Loop : phase[k] = "settle" => cur[k] # nextJob /\ cur[k] \in Job
      BY <1>0 DEF DeletionInv, HookOnce
    <3> QED BY <1>0, <2>1, <3>1, KeptHooks DEF DeletionInv
  <2>3. \A j \in Job : OpenDeletion(j) => spec[j].project # p
    BY <2>1 DEF DeletionInv, DeletionMarked
  <2>4. spec'[nextJob].project = p /\ spec'[nextJob].type = "delete_project"
    BY <2>1 DEF DeleteSpec
  <2>5. \A j \in Job : OpenDeletion(j)' /\ j # nextJob =>
            OpenDeletion(j) /\ spec'[j] = spec[j] /\ (Active(j)' => Active(j))
    BY <2>1 DEF OpenDeletion, Active, Settling
  <2>6. OneOpenDeletion'
    BY <2>3, <2>4, <2>5 DEF OneOpenDeletion, DeletionInv
  <2>7. DeletionMarked'
    <3> SUFFICES ASSUME NEW j \in Job, OpenDeletion(j)'
                 PROVE  \/ deletion'[spec'[j].project] = "deleting"
                        \/ deletion'[spec'[j].project] = "gone" /\ ~Active(j)'
      BY DEF DeletionMarked
    <3>1. CASE j = nextJob
      BY <2>1, <2>4, <3>1
    <3>2. CASE j # nextJob
      <4>1. OpenDeletion(j) /\ spec'[j] = spec[j] /\ (Active(j)' => Active(j))
        BY <2>5, <3>2
      <4>2. deletion'[spec[j].project] = deletion[spec[j].project]
        BY <2>1, <2>3, <4>1
      <4> QED BY <4>1, <4>2 DEF DeletionInv, DeletionMarked
    <3> QED BY <3>1, <3>2
  <2> QED BY <2>2, <2>6, <2>7 DEF DeletionInv
<1>5. ASSUME NEW l \in Loop, SelectCandidate(l) PROVE DeletionInv'
  <2>1. /\ UNCHANGED <<status, spec, deletion, nextJob>>
        /\ \A k \in Loop : phase'[k] = "settle" => phase[k] = "settle" /\ cur'[k] = cur[k]
    BY <1>5 DEF SelectCandidate
  <2>2. HookOnce'
    BY <2>1 DEF DeletionInv, HookOnce
  <2>3. DeletionKept
    BY <2>1 DEF DeletionKept, OpenDeletion, Active, Settling
  <2> QED BY <2>2, <2>3, KeptDeletions DEF DeletionInv
<1>6. ASSUME NEW l \in Loop, CommitClaim(l) PROVE DeletionInv'
  <2>1. /\ cur[l] \in Job /\ status[cur[l]] = "queued"
        /\ status' = [status EXCEPT ![cur[l]] = "running"]
        /\ UNCHANGED <<spec, deletion, nextJob, cur>>
        /\ \A k \in Loop : phase'[k] = "settle" => phase[k] = "settle"
    BY <1>6 DEF CommitClaim, LockedQueued
  <2>2. HookOnce'
    BY <2>1 DEF DeletionInv, HookOnce
  <2>3. DeletionKept
    BY <2>1 DEF DeletionKept, OpenDeletion, Active, Settling
  <2> QED BY <2>2, <2>3, KeptDeletions DEF DeletionInv
<1>7. ASSUME NEW l \in Loop, QuarantineInvalidJob(l) \/ completeJob(l) PROVE DeletionInv'
  <2>1. /\ cur[l] \in Job /\ UNCHANGED <<spec, deletion, nextJob>>
        /\ \A j \in Job : status'[j] # status[j] =>
              status[j] = "running" /\ status'[j] \in {"completed", "failed"}
    BY <1>7 DEF QuarantineInvalidJob, completeJob, Fence, Settle
  <2>2. \A k \in Loop : phase'[k] = "settle" => phase[k] = "settle" /\ cur'[k] = cur[k]
    BY <1>7 DEF QuarantineInvalidJob, completeJob, Idle
  <2>3. HookOnce'
    <3>1. \A k \in Loop : phase[k] = "settle" => status'[cur[k]] = status[cur[k]]
      BY <2>1 DEF DeletionInv, HookOnce
    <3> QED BY <1>0, <2>1, <2>2, <3>1, KeptHooks DEF DeletionInv
  <2>4. DeletionKept
    BY <2>1, <2>2 DEF DeletionKept, OpenDeletion, Active, Settling
  <2> QED BY <2>3, <2>4, KeptDeletions DEF DeletionInv
<1>8. ASSUME NEW l \in Loop, failJob(l) PROVE DeletionInv'
  <2>1. cur[l] \in Job /\ phase[l] = "work" /\ UNCHANGED <<spec, deletion, nextJob>>
    BY <1>8 DEF failJob
  <2>2. CASE Fence(l)
    <3>1. /\ status[cur[l]] = "running"
          /\ status' = [status EXCEPT ![cur[l]] = "failed"]
          /\ phase' = [phase EXCEPT ![l] = "settle"]
          /\ cur' = cur
      BY <1>8, <2>2 DEF failJob, Settle, Fence
    <3>2. cur[l] < nextJob
      <4>1. ~(cur[l] >= nextJob) /\ cur[l] \in Nat
        BY <1>0, <2>1, <3>1 DEF Active
      <4> HIDE DEF TypeOK
      <4> QED BY <1>0, <4>1
    <3>3. HookOnce'
      BY <2>1, <3>1, <3>2 DEF DeletionInv, HookOnce
    <3>4. DeletionKept
      BY <2>1, <3>1 DEF DeletionKept, OpenDeletion, Active, Settling
    <3> QED BY <3>3, <3>4, KeptDeletions DEF DeletionInv
  <2>3. CASE ~Fence(l)
    <3>1. /\ UNCHANGED status
          /\ \A k \in Loop : phase'[k] = "settle" => phase[k] = "settle" /\ cur'[k] = cur[k]
      BY <1>8, <2>3 DEF failJob, Idle
    <3>2. HookOnce'
      BY <2>1, <3>1 DEF DeletionInv, HookOnce
    <3>3. DeletionKept
      BY <2>1, <3>1 DEF DeletionKept, OpenDeletion, Active, Settling
    <3> QED BY <3>2, <3>3, KeptDeletions DEF DeletionInv
  <2> QED BY <2>2, <2>3
<1>9. ASSUME NEW l \in Loop, deleteProject(l) PROVE DeletionInv'
  <2> DEFINE p == spec[cur[l]].project
  <2>1. /\ p \in Project
        /\ deletion' = [deletion EXCEPT ![p] = "gone"]
        /\ status' = [j \in Job |-> IF spec[j].project = p THEN "absent" ELSE status[j]]
        /\ UNCHANGED <<spec, nextJob, phase, cur>>
    <3>1. cur[l] \in Job
      BY <1>9 DEF deleteProject
    <3>2. spec[cur[l]] \in SpecType
      BY <3>1, KnownSpecsTyped
    <3> QED BY <1>9, <3>2 DEF deleteProject, SpecType
  <2> HIDE DEF p
  <2>2. HookOnce'
    BY <2>1 DEF DeletionInv, HookOnce
  <2>3. \A j \in Job : OpenDeletion(j)' => OpenDeletion(j) /\ (Active(j)' => Active(j))
    BY <2>1 DEF OpenDeletion, Active, Settling
  <2>4. OneOpenDeletion'
    BY <2>1, <2>3 DEF DeletionInv, OneOpenDeletion
  <2>5. DeletionMarked'
    BY <2>1, <2>3 DEF DeletionInv, DeletionMarked, Active
  <2> QED BY <2>2, <2>4, <2>5 DEF DeletionInv
<1>10. ASSUME NEW l \in Loop, settleJobFailure(l) PROVE DeletionInv'
  <2>1. /\ cur[l] \in Job /\ phase[l] = "settle"
        /\ UNCHANGED <<status, spec, nextJob>>
        /\ \A k \in Loop : phase'[k] = "settle" => k # l /\ phase[k] = "settle" /\ cur'[k] = cur[k]
    BY <1>10 DEF settleJobFailure, Idle
  <2>2. HookOnce'
    BY <2>1 DEF DeletionInv, HookOnce
  <2>3. \A j \in Job : j = cur[l] => ~OpenDeletion(j)'
    <3>1. status[cur[l]] \in {"failed", "absent"}
      BY <2>1 DEF DeletionInv, HookOnce
    <3>2. \A k \in Loop : phase'[k] = "settle" => cur'[k] # cur[l]
      BY <2>1 DEF DeletionInv, HookOnce
    <3> QED BY <2>1, <3>1, <3>2 DEF OpenDeletion, Active, Settling
  <2>4. \A j \in Job : OpenDeletion(j)' => OpenDeletion(j) /\ (Active(j)' => Active(j))
    BY <2>1 DEF OpenDeletion, Active, Settling
  <2>5. CASE deletion' = deletion
    BY <2>1, <2>2, <2>4, <2>5, KeptDeletions DEF DeletionKept, DeletionInv
  <2>6. CASE deletion' # deletion
    <3>1. /\ spec[cur[l]].type = "delete_project"
          /\ deletion' = [deletion EXCEPT ![spec[cur[l]].project] = "failed"]
      BY <1>10, <2>6 DEF settleJobFailure
    <3>2. OpenDeletion(cur[l])
      BY <2>1, <3>1 DEF OpenDeletion, Settling
    <3>3. \A j \in Job : OpenDeletion(j)' => spec[j].project # spec[cur[l]].project
      BY <2>1, <2>3, <2>4, <3>2 DEF DeletionInv, OneOpenDeletion
    <3>4. OneOpenDeletion'
      BY <2>1, <2>4 DEF DeletionInv, OneOpenDeletion
    <3>5. DeletionMarked'
      BY <2>1, <2>4, <3>1, <3>3 DEF DeletionInv, DeletionMarked
    <3> QED BY <2>2, <3>4, <3>5 DEF DeletionInv
  <2> QED BY <2>5, <2>6
<1>11. ASSUME UNCHANGED <<status, spec, deletion, nextJob, phase, cur>> PROVE DeletionInv'
  BY <1>11 DEF DeletionInv, HookOnce, OneOpenDeletion, DeletionMarked, OpenDeletion,
               Active, Settling
<1>12. ASSUME NEW l \in Loop, heartbeatJob(l) PROVE DeletionInv'
  BY <1>11, <1>12 DEF heartbeatJob
<1>13. ASSUME NEW j \in Job, LiveLeaseLapses(j) \/ OrphanLeaseLapses(j) PROVE DeletionInv'
  BY <1>11, <1>13 DEF LiveLeaseLapses, OrphanLeaseLapses
<1>14. ASSUME recoverStaleJobs PROVE DeletionInv'
  <2>1. /\ UNCHANGED <<spec, deletion, nextJob, phase, cur>>
        /\ \A j \in Job : \/ status'[j] = status[j]
                          \/ status[j] = "running" /\ status'[j] = "queued"
    BY <1>14 DEF recoverStaleJobs, Running
  <2>2. HookOnce'
    BY <2>1 DEF DeletionInv, HookOnce
  <2>3. DeletionKept
    BY <2>1 DEF DeletionKept, OpenDeletion, Active, Settling
  <2> QED BY <2>2, <2>3, KeptDeletions DEF DeletionInv
<1>15. ASSUME WorkerCrash PROVE DeletionInv'
  <2>1. UNCHANGED <<status, spec, deletion, nextJob>> /\ \A l \in Loop : phase'[l] # "settle"
    BY <1>15 DEF WorkerCrash
  <2>2. HookOnce'
    BY <2>1 DEF HookOnce
  <2>3. DeletionKept
    BY <2>1 DEF DeletionKept, OpenDeletion, Active, Settling
  <2> QED BY <2>2, <2>3, KeptDeletions DEF DeletionInv
<1> QED
  BY <1>2, <1>3, <1>4, <1>5, <1>6, <1>7, <1>8, <1>9, <1>10, <1>11, <1>12, <1>13,
     <1>14, <1>15
     DEF Next, Enqueue, LoopStep, Lapse

LEMMA DeletionInvariant == Spec => []DeletionInv
<1>1. Init => DeletionInv
  BY DEF Init, DeletionInv, HookOnce, OneOpenDeletion, DeletionMarked, OpenDeletion,
         Active, Settling
<1>2. QueueInv /\ DeletionInv /\ [Next]_vars => DeletionInv'
  BY DeletionNext
<1> QED BY <1>1, <1>2, QueueInvariant, PTL DEF Spec

\* A project never has two active delete_project jobs, nor one without being
\* marked deleting, whatever superseded executions settle late.
THEOREM DeletionCorrect == Spec => []DeletionJobUnique
<1>1. DeletionInv => DeletionJobUnique
  BY DEF DeletionInv, OneOpenDeletion, DeletionMarked, OpenDeletion, DeletionJobUnique,
         DeletionJobs
<1> QED BY <1>1, DeletionInvariant, PTL

-----------------------------------------------------------------------------
(***************************************************************************)
(* The queue implements JobLocks                                           *)
(***************************************************************************)
Held == {<<j, spec[j]>> : j \in Running}
HeavyHeld == {h \in Held : h[2].type \in HeavyJobTypes}

\* The heavy locks are as many as the running builds.
LEMMA HeavyLocksCounted == Cardinality(HeavyHeld) = Cardinality(RunningHeavy)
<1> DEFINE f == [j \in RunningHeavy |-> <<j, spec[j]>>]
<1>1. f \in Bijection(RunningHeavy, HeavyHeld)
  <2>1. f \in [RunningHeavy -> HeavyHeld]
    BY DEF HeavyHeld, Held, RunningHeavy
  <2>2. \A j, k \in RunningHeavy : f[j] = f[k] => j = k
    OBVIOUS
  <2>3. \A h \in HeavyHeld : \E j \in RunningHeavy : f[j] = h
    BY DEF HeavyHeld, Held, RunningHeavy
  <2> HIDE DEF f
  <2> QED BY <2>1, <2>2, <2>3 DEF Bijection, Injection, Surjection, IsInjective
<1> HIDE DEF f
<1>2. ExistsBijection(RunningHeavy, HeavyHeld)
  BY <1>1 DEF ExistsBijection
<1> QED BY <1>2, HeavyFinite, FS_Bijection

\* JobLocks counts with the same Cardinality.
LEMMA SameCardinality == \A S : Locks!Cardinality(S) = Cardinality(S)
BY DEF Cardinality, Locks!Cardinality, IsFiniteSet, Locks!IsFiniteSet

\* A step other than a commit only gives locks back.
LEMMA ShrinkReleases ==
    ASSUME Shrinks PROVE Held' \subseteq Held
BY DEF Shrinks, Held

\* The commit of a claim grants the locks of its job, in one step and rightly:
\* what the claim read about the holders still holds.
LEMMA CommitGrants ==
    ASSUME QueueInv, NEW l \in Loop, CommitClaim(l)
    PROVE  /\ cur[l] \in Job /\ spec[cur[l]] \in KnownSpecs
           /\ \A h \in Held : h[1] # cur[l] /\ ~Conflict(spec[cur[l]], h[2])
           /\ spec[cur[l]].type \in HeavyJobTypes => Cardinality(HeavyHeld) < HeavyCap
           /\ Held' = Held \cup {<<cur[l], spec[cur[l]]>>}
<1> USE DEF QueueInv, ClaimInv
<1> DEFINE j == cur[l]
<1>1. /\ j \in Job /\ status[j] = "queued" /\ phase[l] = "locked" /\ UNCHANGED spec
      /\ spec[j] \in KnownSpecs
  BY DEF CommitClaim, LockedQueued, TypeOK
<1>2. Running' = Running \cup {j} /\ j \notin Running
  BY <1>1 DEF CommitClaim, Running, TypeOK
<1>3. \A r \in Running : r # j /\ ~Conflict(spec[j], spec[r])
  BY <1>1, <1>2 DEF SnapshotGood
<1>4. spec[j].type \in HeavyJobTypes => Cardinality(HeavyHeld) < HeavyCap
  BY <1>1, HeavyLocksCounted DEF SnapshotGood
<1> QED BY <1>1, <1>2, <1>3, <1>4 DEF Held

\* Every behaviour of the queue, with its claims that read and commit in two
\* steps, is one in which locks are granted atomically and only when free.
THEOREM LocksImplemented == Spec => LocksSpec
<1>1. Init => Locks!LocksInit
  BY DEF Init, Locks!LocksInit, Running
<1>2. QueueInv /\ [Next]_vars => [Locks!LocksNext]_Held
  <2> SUFFICES ASSUME QueueInv, [Next]_vars PROVE [Locks!LocksNext]_Held
    OBVIOUS
  <2>1. CASE Shrinks
    BY <2>1, ShrinkReleases DEF Locks!LocksNext, Locks!Release, Held
  <2>2. ASSUME NEW l \in Loop, CommitClaim(l) PROVE Locks!LocksNext
    <3>1. cur[l] \in Job /\ spec[cur[l]] \in KnownSpecs
      BY <2>2, CommitGrants
    <3>2. /\ \A h \in Held : h[1] # cur[l] /\ ~Conflict(spec[cur[l]], h[2])
          /\ spec[cur[l]].type \in HeavyJobTypes => Locks!Cardinality(HeavyHeld) < HeavyCap
          /\ Held' = Held \cup {<<cur[l], spec[cur[l]]>>}
      BY <2>2, CommitGrants, SameCardinality
    <3>3. HeavyHeld = Locks!HeavyLocks
      BY DEF HeavyHeld, Held, Locks!HeavyLocks
    <3> QED BY <3>1, <3>2, <3>3 DEF Locks!LocksNext, Locks!Grant, Held
  <2> QED BY <2>1, <2>2, StepShape DEF QueueInv, ClaimInv
<1> QED BY <1>1, <1>2, QueueInvariant, PTL DEF Spec, LocksSpec, Locks!LocksSpec, Held
=============================================================================
