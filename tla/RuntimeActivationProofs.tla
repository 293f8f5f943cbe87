---------------------- MODULE RuntimeActivationProofs ----------------------
(***************************************************************************)
(* Proofs about RuntimeActivation for any clients, ports, operations and   *)
(* bounds: type correctness, one starter, the exclusion of archiving and   *)
(* starting, and what becomes of an operator's decisions, from one         *)
(* inductive invariant IInv; and that a granted request keeps its process  *)
(* from the reaper, from a second one, LeaseInv.  The facts about updates  *)
(* come first.                                                             *)
(***************************************************************************)
EXTENDS RuntimeActivation, TLAPS

\* The lane's resting state, and a lane whose job moves on, keep their shape.
LEMMA IdleTyped == Idle \in LaneType
BY BoundAssumption DEF Idle, LaneType, LanePC, Prior

LEMMA GotoTyped ==
    ASSUME lane \in LaneType, NEW pc \in LanePC
    PROVE  /\ [lane EXCEPT !.pc = pc] \in LaneType
           /\ [lane EXCEPT !.pc = pc].pc = pc
           /\ [lane EXCEPT !.pc = pc].kind = lane.kind
           /\ [lane EXCEPT !.pc = pc].prior = lane.prior
           /\ [lane EXCEPT !.pc = pc].gen = lane.gen
BY DEF LaneType

\* One more onFailure to run keeps the counts' shape.
LEMMA HooksTyped ==
    ASSUME NEW h \in [Gen -> Nat], NEW g
    PROVE  [h EXCEPT ![g] = @ + 1] \in [Gen -> Nat]
<1>1. CASE g \in Gen
  BY <1>1
<1>2. CASE g \notin Gen
  <2>1. \A k \in Gen : [h EXCEPT ![g] = @ + 1][k] = h[k]
    BY <1>2
  <2> QED BY <2>1
<1> QED BY <1>1, <1>2

\* Type correctness holds at first and is kept; ArchiveReverts needs ArchivePrior.
LEMMA TypeInit == Init => TypeOK
<1> SUFFICES ASSUME Init PROVE TypeOK
  OBVIOUS
<1>1. hooks \in [Gen -> Nat] /\ overruled \in BOOLEAN
  BY DEF Init, NoHooks
<1>2. reconciler \in ReconcilerType
  BY BoundAssumption DEF Init, NoCheck, ReconcilerType
<1> QED BY <1>1, <1>2, PortAssumption, InitAssumption, BoundAssumption, IdleTyped
        DEF Init, TypeOK, DepStatus, InstStatus, LeaseStatus, Gen, NoCheck

\* An archive reverts to the status it read.
ArchivePrior == lane.pc = "a_revert" => lane.prior \in DepStatus \ {"archiving"}

LEMMA TypeNext == TypeOK /\ ArchivePrior /\ [Next]_vars => TypeOK'
<1> SUFFICES ASSUME TypeOK, ArchivePrior, [Next]_vars PROVE TypeOK'
  OBVIOUS
<1> USE DEF TypeOK, vars, depVars, instVars, clientVars, sweepVars, hookVars
<1>1. ASSUME NEW c \in Client, RequestChecks(c) PROVE TypeOK'
  BY <1>1 DEF RequestChecks
<1>2. ASSUME NEW c \in Client, RequestAcquires(c) PROVE TypeOK'
  <2>1. inst' \in [Gen -> InstStatus]
    BY <1>2 DEF RequestAcquires, acquireActivationLease, InstStatus
  <2>2. lease' \in [Owner -> LeaseStatus]
    BY <1>2 DEF RequestAcquires, acquireActivationLease, LeaseStatus
  <2>3. latest' \in 0..MaxGen
    BY <1>2, BoundAssumption DEF RequestAcquires, acquireActivationLease
  <2>4. endpoint' \in [Gen -> Port \cup {None}]
    BY <1>2 DEF RequestAcquires, acquireActivationLease
  <2> QED BY <1>2, <2>1, <2>2, <2>3, <2>4 DEF RequestAcquires
<1>3. ASSUME NEW c \in Client, RequestGivesUp(c) PROVE TypeOK'
  BY <1>3 DEF RequestGivesUp
<1>4. ASSUME NEW c \in Client, RequestEnqueues(c) PROVE TypeOK'
  <2>1. jobs' \subseteq [kind : Kind, gen : 0..MaxGen]
    BY <1>4 DEF RequestEnqueues, enqueueDeploymentActivation, EnsureJob, Kind
  <2> QED BY <1>4, <2>1 DEF RequestEnqueues
<1>5. ASSUME NEW c \in Client, RequestGranted(c) PROVE TypeOK'
  BY <1>5 DEF RequestGranted
<1>6. ASSUME NEW c \in Client, RequestFails(c) PROVE TypeOK'
  BY <1>6 DEF RequestFails
<1>7. ASSUME NEW c \in Client, RequestReleases(c) PROVE TypeOK'
  BY <1>7 DEF RequestReleases, LeaseStatus
<1>8. ASSUME NEW c \in Client, RequestDies(c) PROVE TypeOK'
  BY <1>8 DEF RequestDies
<1>9. ASSUME NEW o \in Owner, LeaseExpires(o) PROVE TypeOK'
  BY <1>9 DEF LeaseExpires, LeaseStatus
<1>10. ASSUME NEW j \in jobs, ClaimJob(j) PROVE TypeOK'
  <2>1. lane' \in LaneType
    BY <1>10, BoundAssumption DEF ClaimJob, FirstStep, LaneType, LanePC, Kind,
       Archives, Prior
  <2> QED BY <1>10, <2>1 DEF ClaimJob
<1>11. ASSUME StartOpens PROVE TypeOK'
  <2>1. lane' \in LaneType
    BY <1>11, IdleTyped, GotoTyped DEF StartOpens, StartFails, EnsureFails, EndJob, Goto,
       AfterReady, LanePC
  <2>2. inst' \in [Gen -> InstStatus]
    BY <1>11 DEF StartOpens, StartFails, EnsureFails, InstStatus
  <2>3. lease' \in [Owner -> LeaseStatus]
    BY <1>11 DEF StartOpens, StartFails, EnsureFails, LeaseStatus
  <2>4. hooks' \in [Gen -> Nat]
    BY <1>11 DEF StartOpens, StartFails, EnsureFails
  <2> QED BY <1>11, <2>1, <2>2, <2>3, <2>4 DEF StartOpens
<1>12. ASSUME reserveRuntimeInstancePort PROVE TypeOK'
  <2>1. lane' \in LaneType
    BY <1>12, IdleTyped, GotoTyped DEF reserveRuntimeInstancePort, StartFails, EnsureFails,
       EndJob, Goto, LanePC
  <2>2. inst' \in [Gen -> InstStatus]
    BY <1>12 DEF reserveRuntimeInstancePort, StartFails, EnsureFails, InstStatus
  <2>3. lease' \in [Owner -> LeaseStatus]
    BY <1>12 DEF reserveRuntimeInstancePort, StartFails, EnsureFails, LeaseStatus
  <2>4. endpoint' \in [Gen -> Port \cup {None}]
    BY <1>12 DEF reserveRuntimeInstancePort, StartFails, EnsureFails
  <2>5. hooks' \in [Gen -> Nat]
    BY <1>12 DEF reserveRuntimeInstancePort, StartFails, EnsureFails
  <2> QED BY <1>12, <2>1, <2>2, <2>3, <2>4, <2>5 DEF reserveRuntimeInstancePort
<1>13. ASSUME StartProcess PROVE TypeOK'
  <2>1. lane' \in LaneType
    BY <1>13, IdleTyped, GotoTyped DEF StartProcess, StartFails, EnsureFails, EndJob, Goto,
       LanePC
  <2>2. inst' \in [Gen -> InstStatus]
    BY <1>13 DEF StartProcess, StartFails, EnsureFails, InstStatus
  <2>3. lease' \in [Owner -> LeaseStatus]
    BY <1>13 DEF StartProcess, StartFails, EnsureFails, LeaseStatus
  <2>4. hooks' \in [Gen -> Nat]
    BY <1>13 DEF StartProcess, StartFails, EnsureFails
  <2> QED BY <1>13, <2>1, <2>2, <2>3, <2>4 DEF StartProcess
<1>14. ASSUME StartSettles PROVE TypeOK'
  <2>1. lane' \in LaneType
    BY <1>14, IdleTyped, GotoTyped DEF StartSettles, StartFails, EnsureFails, EndJob, Goto,
       AfterReady, LanePC
  <2>2. inst' \in [Gen -> InstStatus]
    BY <1>14 DEF StartSettles, StartFails, EnsureFails, InstStatus
  <2>3. lease' \in [Owner -> LeaseStatus]
    BY <1>14 DEF StartSettles, StartFails, EnsureFails, LeaseStatus
  <2>4. hooks' \in [Gen -> Nat]
    BY <1>14 DEF StartSettles, StartFails, EnsureFails
  <2> QED BY <1>14, <2>1, <2>2, <2>3, <2>4 DEF StartSettles
<1>15. ASSUME EnsureChecks PROVE TypeOK'
  <2>1. lane' \in LaneType
    BY <1>15, IdleTyped, GotoTyped DEF EnsureChecks, EndJob, Goto, LanePC
  <2>2. inst' \in [Gen -> InstStatus]
    BY <1>15 DEF EnsureChecks, InstStatus
  <2> QED BY <1>15, <2>1, <2>2 DEF EnsureChecks
<1>16. ASSUME EnsureSettles PROVE TypeOK'
  BY <1>16, IdleTyped DEF EnsureSettles, EndJob, transitionDeploymentStatus,
     DepStatus
<1>17. ASSUME EnsureThrows PROVE TypeOK'
  <2>1. hooks' = [hooks EXCEPT ![lane.gen] = @ + 1]
    BY <1>17 DEF EnsureThrows, EnsureFails
  <2>2. hooks' \in [Gen -> Nat]
    BY <2>1, HooksTyped
  <2> QED BY <1>17, <2>2, IdleTyped DEF EnsureThrows, EnsureFails, EndJob
<1>18. ASSUME TriggerAcquires PROVE TypeOK'
  <2>1. latest' \in 0..MaxGen
    BY <1>18, BoundAssumption DEF TriggerAcquires, acquireActivationLease
  <2>2. (IF Joinable THEN inst[latest] ELSE "starter") \in Prior
    BY <1>18 DEF TriggerAcquires, Joinable, LatestIn, Prior
  <2>3. lane' \in LaneType
    BY <1>18, <2>1, <2>2 DEF TriggerAcquires, LaneType, LanePC
  <2>4. inst' \in [Gen -> InstStatus]
    BY <1>18 DEF TriggerAcquires, acquireActivationLease, InstStatus
  <2>5. lease' \in [Owner -> LeaseStatus]
    BY <1>18 DEF TriggerAcquires, acquireActivationLease, LeaseStatus
  <2>6. endpoint' \in [Gen -> Port \cup {None}]
    BY <1>18 DEF TriggerAcquires, acquireActivationLease
  <2> QED BY <1>18, <2>1, <2>2, <2>3, <2>4, <2>5, <2>6 DEF TriggerAcquires
<1>19. ASSUME TriggerGivesUp PROVE TypeOK'
  BY <1>19, IdleTyped DEF TriggerGivesUp, EndJob
<1>20. ASSUME TriggerGuards PROVE TypeOK'
  <2>1. lane' \in LaneType
    BY <1>20, IdleTyped, GotoTyped DEF TriggerGuards, EndJob, Goto, LanePC
  <2>2. inst' \in [Gen -> InstStatus]
    BY <1>20 DEF TriggerGuards, InstStatus
  <2>3. lease' \in [Owner -> LeaseStatus]
    BY <1>20 DEF TriggerGuards, LeaseStatus
  <2> QED BY <1>20, <2>1, <2>2, <2>3 DEF TriggerGuards
<1>21. ASSUME TriggerPolls PROVE TypeOK'
  BY <1>21, IdleTyped, GotoTyped DEF TriggerPolls, EndJob, Goto, LanePC, LeaseStatus
<1>22. ASSUME TriggerMarks PROVE TypeOK'
  BY <1>22, GotoTyped DEF TriggerMarks, Goto, LanePC, DepStatus
<1>23. ASSUME TriggerDispatches PROVE TypeOK'
  BY <1>23, IdleTyped DEF TriggerDispatches, EndJob, LeaseStatus
<1>24. ASSUME RestartChecks PROVE TypeOK'
  BY <1>24, IdleTyped, GotoTyped DEF RestartChecks, EndJob, Goto, LanePC
<1>25. ASSUME RestartStops PROVE TypeOK'
  BY <1>25, IdleTyped, GotoTyped DEF RestartStops, EndJob, Goto, LanePC
<1>26. ASSUME RestartRetires PROVE TypeOK'
  BY <1>26, GotoTyped DEF RestartRetires, Goto, LanePC, InstStatus
<1>27. ASSUME RestartStarts PROVE TypeOK'
  <2>1. lane' \in LaneType
    BY <1>27, IdleTyped, GotoTyped DEF RestartStarts, EndJob, Goto, LanePC
  <2>2. dep' \in DepStatus
    BY <1>27 DEF RestartStarts, transitionDeploymentStatus, DepStatus
  <2> QED BY <1>27, <2>1, <2>2, PortAssumption DEF RestartStarts
<1>28. ASSUME RestartSettles PROVE TypeOK'
  BY <1>28, IdleTyped, PortAssumption DEF RestartSettles, EndJob,
     transitionDeploymentStatus, DepStatus
<1>29. ASSUME ArchiveReads PROVE TypeOK'
  <2>1. lane' \in LaneType
    BY <1>29, IdleTyped DEF ArchiveReads, EndJob, LaneType, LanePC, Prior
  <2> QED BY <1>29, <2>1 DEF ArchiveReads
<1>30. ASSUME ArchiveClaims PROVE TypeOK'
  <2>1. lane' \in LaneType
    BY <1>30, IdleTyped DEF ArchiveClaims, EndJob, LaneType, LanePC, Prior,
       DepStatus
  <2>2. dep' \in DepStatus
    BY <1>30 DEF ArchiveClaims, transitionDeploymentStatus, DepStatus
  <2> QED BY <1>30, <2>1, <2>2 DEF ArchiveClaims
<1>31. ASSUME ArchiveRetains PROVE TypeOK'
  BY <1>31, GotoTyped DEF ArchiveRetains, Goto, LanePC
<1>32. ASSUME ArchiveStops PROVE TypeOK'
  BY <1>32, GotoTyped DEF ArchiveStops, Goto, LanePC
<1>33. ASSUME ArchiveRemoves PROVE TypeOK'
  BY <1>33, GotoTyped DEF ArchiveRemoves, Goto, LanePC
<1>34. ASSUME ArchiveFinishes PROVE TypeOK'
  BY <1>34, IdleTyped, GotoTyped DEF ArchiveFinishes, EndJob, Goto, LanePC,
     transitionDeploymentStatus, DepStatus
<1>35. ASSUME ArchiveReverts PROVE TypeOK'
  <2>1. lane' \in LaneType
    BY <1>35, IdleTyped DEF ArchiveReverts, EndJob
  <2>2. dep' \in DepStatus
    BY <1>35 DEF ArchiveReverts, transitionDeploymentStatus, ArchivePrior, At
  <2> QED BY <1>35, <2>1, <2>2 DEF ArchiveReverts
<1>36. ASSUME NEW g \in Gen, recoverStartingRuntimeInstances(g) PROVE TypeOK'
  <2>1. jobs' \subseteq [kind : Kind, gen : 0..MaxGen]
    BY <1>36, BoundAssumption DEF recoverStartingRuntimeInstances,
       enqueueDeploymentActivation, EnsureJob, Kind, Gen
  <2> QED BY <1>36, <2>1 DEF recoverStartingRuntimeInstances
<1>37. ASSUME NEW g \in Gen, ReconcilerInspects(g) PROVE TypeOK'
  <2>1. reconciler' \in ReconcilerType /\ (reconciler'.pc # "idle" => reconciler'.verdict # "none")
    BY <1>37, BoundAssumption DEF ReconcilerInspects, ReconcilerType, Gen
  <2> QED BY <1>37, <2>1 DEF ReconcilerInspects
<1>38. ASSUME ReaperClaims PROVE TypeOK'
  BY <1>38 DEF ReaperClaims, InstStatus
<1>39. ASSUME ReaperNext PROVE TypeOK'
  BY <1>39 DEF ReaperNext
<1>40. ASSUME ReaperChecks PROVE TypeOK'
  BY <1>40 DEF ReaperChecks
<1>41. ASSUME ReaperRestores PROVE TypeOK'
  BY <1>41 DEF ReaperRestores, InstStatus
<1>42. ASSUME ReaperConfirms PROVE TypeOK'
  BY <1>42 DEF ReaperConfirms
<1>43. ASSUME ReaperStops PROVE TypeOK'
  BY <1>43 DEF ReaperStops
<1>44. ASSUME ReaperReports PROVE TypeOK'
  BY <1>44 DEF ReaperReports, InstStatus
<1>45. ASSUME ReaperSettles PROVE TypeOK'
  BY <1>45 DEF ReaperSettles, transitionDeploymentStatus, DepStatus
<1>46. ASSUME ReconcilerRechecks PROVE TypeOK'
  <2>1. reconciler' \in ReconcilerType /\ (reconciler'.pc # "idle" => reconciler'.verdict # "none")
    BY <1>46, BoundAssumption DEF ReconcilerRechecks, ReconcilerType, NoCheck
  <2> QED BY <1>46, <2>1 DEF ReconcilerRechecks
<1>47. ASSUME ReconcilerWrites PROVE TypeOK'
  <2>1. reconciler' \in ReconcilerType /\ (reconciler'.pc # "idle" => reconciler'.verdict # "none")
    BY <1>47 DEF ReconcilerWrites, ReconcilerType
  <2>2. inst' \in [Gen -> InstStatus]
    BY <1>47 DEF ReconcilerWrites, ReconcilerType, InstStatus
  <2> QED BY <1>47, <2>1, <2>2 DEF ReconcilerWrites
<1>48. ASSUME ReconcilerSettles PROVE TypeOK'
  <2>1. reconciler' \in ReconcilerType /\ (reconciler'.pc # "idle" => reconciler'.verdict # "none")
    BY <1>48, BoundAssumption DEF ReconcilerSettles, ReconcilerType, NoCheck
  <2>2. dep' \in DepStatus
    BY <1>48 DEF ReconcilerSettles, transitionDeploymentStatus, ReconcilerType,
       DepStatus
  <2> QED BY <1>48, <2>1, <2>2 DEF ReconcilerSettles
<1>49. ASSUME OrphanReads PROVE TypeOK'
  BY <1>49 DEF OrphanReads
<1>50. ASSUME adoptRuntimeInstance PROVE TypeOK'
  BY <1>50, PortAssumption, BoundAssumption DEF adoptRuntimeInstance, InstStatus
<1>51. ASSUME OrphanStops PROVE TypeOK'
  BY <1>51 DEF OrphanStops
<1>52. ASSUME EnqueueRestart PROVE TypeOK'
  BY <1>52, BoundAssumption DEF EnqueueRestart, enqueueJob, Kind
<1>53. ASSUME EnqueueTrigger PROVE TypeOK'
  BY <1>53, BoundAssumption DEF EnqueueTrigger, enqueueJob, Kind
<1>54. ASSUME EnqueueArchive PROVE TypeOK'
  BY <1>54, BoundAssumption DEF EnqueueArchive, enqueueJob, Kind, Archives
<1>55. ASSUME DrainReads PROVE TypeOK'
  BY <1>55 DEF DrainReads
<1>56. ASSUME DrainWrites PROVE TypeOK'
  BY <1>56 DEF DrainWrites, DepStatus
<1>57. ASSUME PromoteReads PROVE TypeOK'
  BY <1>57 DEF PromoteReads
<1>58. ASSUME PromoteCommits PROVE TypeOK'
  BY <1>58 DEF PromoteCommits
<1>59. ASSUME Unroute PROVE TypeOK'
  BY <1>59 DEF Unroute
<1>60. ASSUME ProcessDies PROVE TypeOK'
  BY <1>60 DEF ProcessDies
<1>61. ASSUME WorkerCrash PROVE TypeOK'
  <2>1. lane' \in LaneType
    BY <1>61, IdleTyped DEF WorkerCrash
  <2>2. reconciler' \in ReconcilerType /\ (reconciler'.pc # "idle" => reconciler'.verdict # "none")
    BY <1>61, BoundAssumption DEF WorkerCrash, ReconcilerType, NoCheck
  <2>3. jobs' \subseteq [kind : Kind, gen : 0..MaxGen]
    BY <1>61, BoundAssumption DEF WorkerCrash, LaneType, Kind
  <2> QED BY <1>61, <2>1, <2>2, <2>3 DEF WorkerCrash, NoHooks
<1>62. CASE UNCHANGED vars
  BY <1>62
<1>63. ASSUME NEW g \in Gen, FailureHook(g) PROVE TypeOK'
  <2>1. inst' \in [Gen -> InstStatus] /\ hooks' \in [Gen -> Nat]
    BY <1>63 DEF FailureHook, InstStatus
  <2>2. overruled' \in BOOLEAN
    BY <1>63 DEF FailureHook
  <2> QED BY <1>63, <2>1, <2>2 DEF FailureHook
<1> QED
  BY <1>1, <1>2, <1>3, <1>4, <1>5, <1>6, <1>7, <1>8, <1>9, <1>10, <1>11, <1>12,
     <1>13, <1>14, <1>15, <1>16, <1>17, <1>18, <1>19, <1>20, <1>21, <1>22, <1>23,
     <1>24, <1>25, <1>26, <1>27, <1>28, <1>29, <1>30, <1>31, <1>32, <1>33, <1>34,
     <1>35, <1>36, <1>37, <1>38, <1>39, <1>40, <1>41, <1>42, <1>43, <1>44, <1>45,
     <1>46, <1>47, <1>48, <1>49, <1>50, <1>51, <1>52, <1>53, <1>54, <1>55, <1>56,
     <1>57, <1>58, <1>59, <1>60, <1>61, <1>62, <1>63
  DEF Next, Request, LaneStep, StartSteps, EnsureSteps, TriggerSteps, RestartSteps,
      ArchiveSteps, ReaperStep, ReconcilerStep, OrphanStep, OperatorStep

-----------------------------------------------------------------------------
(***************************************************************************)
(* Archiving and starting exclude each other                               *)
(***************************************************************************)
Working == {"a_retain", "a_stop", "a_remove", "a_finish", "a_revert"}

\* An archive job keeps the status to revert to and never claims an archived
\* Deployment, and nobody takes the claim between its reading and its claiming.
ArchiveLane ==
    /\ lane.pc \in Working => lane.kind \in Archives /\ lane.prior \in DepStatus \ {"archiving"}
    /\ lane.pc = "a_claim" => /\ lane.kind \in Archives
                              /\ lane.prior \in DepStatus \ {"archived"}
                              /\ dep = "archiving" => lane.prior = "archiving"

\* StartNotArchived from the check on, and for a schedule run up to its mark.
SafeStart == Starting \/ lane.pc \in {"open", "poll", "mark"} => dep \notin Retired
StartPC == {"open", "poll", "mark", "port", "start", "health",
            "r_stop", "r_retire", "r_start", "r_health"}

Control == ArchiveLane /\ SafeStart /\ ArchivingHasOwner

\* Control is inductive: one step per action that writes dep, jobs or lane.
LEMMA ControlInit == Init => Control
BY InitAssumption DEF Init, Control, ArchiveLane, SafeStart, ArchivingHasOwner,
   Working,
   Starting, Idle, Retired

\* A job that is not an archive's ends, or moves on; an archive's works on.
LEMMA Ends ==
    ASSUME Control, EndJob, UNCHANGED jobs, lane.kind \notin Archives,
           dep' = dep \/ dep' \notin Retired
    PROVE  Control'
BY DEF Control, ArchiveLane, SafeStart, ArchivingHasOwner, Working, Starting,
   Retired,
       EndJob, Idle

LEMMA Moves ==
    ASSUME TypeOK, Control, NEW pc \in LanePC, Goto(pc), UNCHANGED jobs,
           dep' = dep \/ dep' \notin Retired,
           lane.kind \notin Archives, pc \notin Working, pc # "a_claim",
           pc \in StartPC => dep \notin Retired
    PROVE  Control'
<1>1. lane'.pc = pc /\ lane'.kind = lane.kind
  BY GotoTyped DEF TypeOK, Goto
<1> QED BY <1>1 DEF Control, ArchiveLane, SafeStart, ArchivingHasOwner, Working,
           Starting,
                    Retired, StartPC

LEMMA Works ==
    ASSUME TypeOK, Control, NEW pc \in Working, Goto(pc), UNCHANGED <<dep, jobs>>,
           lane.pc \in Working
    PROVE  Control'
<1>1. lane'.pc = pc /\ lane'.kind = lane.kind /\ lane'.prior = lane.prior
  BY GotoTyped DEF TypeOK, Goto, Working, LanePC
<1> QED BY <1>1 DEF Control, ArchiveLane, SafeStart, ArchivingHasOwner, Working,
           Starting

LEMMA ControlNext == TypeOK /\ Control /\ [Next]_vars => Control'
<1> SUFFICES ASSUME TypeOK, Control, [Next]_vars PROVE Control'
  OBVIOUS
<1>a. lane \in LaneType /\ dep \in DepStatus /\ reconciler \in ReconcilerType
      /\ (reconciler.pc # "idle" => reconciler.verdict # "none")
  BY DEF TypeOK
<1>b. jobs \subseteq [kind : Kind, gen : 0..MaxGen]
  BY DEF TypeOK
<1>c. ASSUME UNCHANGED <<dep, jobs, lane>> PROVE Control'
  BY <1>c DEF Control, ArchiveLane, SafeStart, ArchivingHasOwner, Working, Starting
<1>1. ASSUME NEW c \in Client, RequestEnqueues(c) PROVE Control'
  BY <1>1 DEF RequestEnqueues, depVars, enqueueDeploymentActivation, Control,
     ArchiveLane, SafeStart, ArchivingHasOwner, Working, Starting, Retired,
     Archives
<1>2. ASSUME NEW j \in jobs, ClaimJob(j) PROVE Control'
  <2>1. lane'.pc \in {"check", "acquire", "r_check", "a_read"} /\ lane'.kind = j.kind
    BY <1>2, <1>b DEF ClaimJob, FirstStep, Kind, Archives
  <2>2. lane.kind = "none" /\ jobs' = jobs \ {j} /\ dep' = dep
    BY <1>2 DEF ClaimJob, Idle, depVars
  <2> QED BY <2>1, <2>2 DEF Control, ArchiveLane, SafeStart, ArchivingHasOwner,
             Working, Starting, Retired, Archives
<1>3. ASSUME StartOpens PROVE Control'
  <2>1. dep \notin Retired /\ lane.kind \notin Archives
    BY <1>3 DEF StartOpens, At, Starters, Archives, Control, SafeStart, Starting
  <2> QED BY <1>3, <2>1, Ends, Moves DEF StartOpens, StartFails, EnsureFails, AfterReady,
             depVars, LanePC, Working, StartPC
<1>4. ASSUME reserveRuntimeInstancePort PROVE Control'
  <2>1. dep \notin Retired /\ lane.kind \notin Archives
    BY <1>4 DEF reserveRuntimeInstancePort, At, Starters, Archives, Control,
       SafeStart, Starting
  <2> QED BY <1>4, <2>1, Ends, Moves DEF reserveRuntimeInstancePort, StartFails, EnsureFails,
             depVars, LanePC, Working, StartPC
<1>5. ASSUME StartProcess PROVE Control'
  <2>1. dep \notin Retired /\ lane.kind \notin Archives
    BY <1>5 DEF StartProcess, At, Starters, Archives, Control, SafeStart, Starting
  <2> QED BY <1>5, <2>1, Ends, Moves DEF StartProcess, StartFails, EnsureFails, depVars,
             LanePC, Working, StartPC
<1>6. ASSUME StartSettles PROVE Control'
  <2>1. dep \notin Retired /\ lane.kind \notin Archives
    BY <1>6 DEF StartSettles, At, Starters, Archives, Control, SafeStart, Starting
  <2> QED BY <1>6, <2>1, Ends, Moves DEF StartSettles, StartFails, EnsureFails, AfterReady,
             depVars, LanePC, Working, StartPC
<1>7. ASSUME EnsureChecks PROVE Control'
  <2>1. lane.kind \notin Archives
    BY <1>7 DEF EnsureChecks, At, Archives
  <2> QED BY <1>7, <2>1, Ends, Moves DEF EnsureChecks, depVars, LanePC, Working,
             StartPC
<1>8. ASSUME EnsureSettles PROVE Control'
  <2>1. lane.kind \notin Archives
    BY <1>8 DEF EnsureSettles, At, Archives
  <2> QED BY <1>8, <2>1, Ends, Moves DEF EnsureSettles, depVars, LanePC, Working,
             StartPC, transitionDeploymentStatus, Retired
<1>9. ASSUME EnsureThrows PROVE Control'
  <2>1. lane.kind \notin Archives
    BY <1>9 DEF EnsureThrows, At, Archives
  <2> QED BY <1>9, <2>1, Ends DEF EnsureThrows, EnsureFails, depVars
<1>10. ASSUME TriggerAcquires PROVE Control'
  BY <1>10, <1>a DEF TriggerAcquires, depVars, At, LaneType, Control, ArchiveLane,
     SafeStart, ArchivingHasOwner, Working, Starting, Retired, Archives
<1>11. ASSUME TriggerGivesUp PROVE Control'
  <2>1. lane.kind \notin Archives
    BY <1>11 DEF TriggerGivesUp, At, Archives
  <2> QED BY <1>11, <2>1, Ends, Moves DEF TriggerGivesUp, depVars, LanePC,
             Working, StartPC
<1>12. ASSUME TriggerGuards PROVE Control'
  <2>1. lane.kind \notin Archives
    BY <1>12 DEF TriggerGuards, At, Archives
  <2> QED BY <1>12, <2>1, Ends, Moves DEF TriggerGuards, depVars, LanePC, Working,
             StartPC
<1>13. ASSUME TriggerPolls PROVE Control'
  <2>1. dep \notin Retired /\ lane.kind \notin Archives
    BY <1>13 DEF TriggerPolls, At, Archives, Control, SafeStart
  <2> QED BY <1>13, <2>1, Ends, Moves DEF TriggerPolls, depVars, LanePC, Working,
             StartPC
<1>14. ASSUME TriggerMarks PROVE Control'
  <2>1. lane.kind \notin Archives
    BY <1>14 DEF TriggerMarks, At, Archives
  <2> QED BY <1>14, <2>1, Ends, Moves DEF TriggerMarks, depVars, LanePC, Working,
             StartPC, Retired
<1>15. ASSUME TriggerDispatches PROVE Control'
  <2>1. lane.kind \notin Archives
    BY <1>15 DEF TriggerDispatches, At, Archives
  <2> QED BY <1>15, <2>1, Ends, Moves DEF TriggerDispatches, depVars, LanePC,
             Working, StartPC
<1>16. ASSUME RestartChecks PROVE Control'
  <2>1. lane.kind \notin Archives
    BY <1>16 DEF RestartChecks, At, Archives
  <2> QED BY <1>16, <2>1, Ends, Moves DEF RestartChecks, depVars, LanePC, Working,
             StartPC
<1>17. ASSUME RestartStops PROVE Control'
  <2>1. dep \notin Retired /\ lane.kind \notin Archives
    BY <1>17 DEF RestartStops, At, Archives, Control, SafeStart, Starting
  <2> QED BY <1>17, <2>1, Ends, Moves DEF RestartStops, depVars, LanePC, Working,
             StartPC
<1>18. ASSUME RestartRetires PROVE Control'
  <2>1. dep \notin Retired /\ lane.kind \notin Archives
    BY <1>18 DEF RestartRetires, At, Archives, Control, SafeStart, Starting
  <2> QED BY <1>18, <2>1, Ends, Moves DEF RestartRetires, depVars, LanePC,
             Working, StartPC
<1>19. ASSUME RestartStarts PROVE Control'
  <2>1. dep \notin Retired /\ lane.kind \notin Archives
    BY <1>19 DEF RestartStarts, At, Archives, Control, SafeStart, Starting
  <2> QED BY <1>19, <2>1, Ends, Moves DEF RestartStarts, depVars, LanePC, Working,
             StartPC, transitionDeploymentStatus, Retired
<1>20. ASSUME RestartSettles PROVE Control'
  <2>1. dep \notin Retired /\ lane.kind \notin Archives
    BY <1>20 DEF RestartSettles, At, Archives, Control, SafeStart, Starting
  <2> QED BY <1>20, <2>1, Ends, Moves DEF RestartSettles, depVars, LanePC,
             Working, StartPC, transitionDeploymentStatus, Retired
<1>21. ASSUME ArchiveReads PROVE Control'
  <2>1. CASE dep \in Claimable
    <3>1. lane'.pc = "a_claim" /\ lane'.prior = dep /\ lane'.kind = lane.kind
      BY <1>21, <2>1, <1>a DEF ArchiveReads, LaneType
    <3>2. dep # "archived"
      BY <2>1 DEF Claimable
    <3> QED BY <1>21, <1>a, <3>1, <3>2 DEF ArchiveReads, At, depVars, Control,
               ArchiveLane, SafeStart, ArchivingHasOwner, Working, Starting,
               Retired, Archives
  <2>2. CASE dep \notin Claimable
    <3>1. dep # "archiving"
      BY <2>2 DEF Claimable
    <3> QED BY <1>21, <2>2, <3>1 DEF ArchiveReads, EndJob, Idle, depVars, Control,
               ArchiveLane, SafeStart, ArchivingHasOwner, Working, Starting,
               Retired, Archives
  <2> QED BY <2>1, <2>2
<1>22. ASSUME ArchiveClaims PROVE Control'
  <2>1. CASE dep = lane.prior
    <3>1. /\ lane'.pc = "a_retain" /\ lane'.kind = lane.kind
          /\ lane'.prior \in DepStatus \ {"archiving"}
      BY <1>22, <2>1, <1>a DEF ArchiveClaims, LaneType, DepStatus
    <3> QED BY <1>22, <3>1 DEF ArchiveClaims, At, Control, ArchiveLane, SafeStart,
               ArchivingHasOwner, Working, Starting, Retired, Archives
  <2>2. CASE dep # lane.prior
    <3>1. dep # "archiving" /\ dep' = dep
      BY <1>22, <2>2 DEF ArchiveClaims, At, transitionDeploymentStatus, Control,
         ArchiveLane
    <3> QED BY <1>22, <2>2, <3>1 DEF ArchiveClaims, EndJob, Idle, Control,
               ArchiveLane, SafeStart, ArchivingHasOwner, Working, Starting,
               Retired, Archives
  <2> QED BY <2>1, <2>2
<1>23. ASSUME ArchiveRetains PROVE Control'
  BY <1>23, Works DEF ArchiveRetains, At, depVars, Working
<1>24. ASSUME ArchiveStops PROVE Control'
  BY <1>24, Works DEF ArchiveStops, At, depVars, Working
<1>25. ASSUME ArchiveRemoves PROVE Control'
  BY <1>25, Works DEF ArchiveRemoves, At, depVars, Working
<1>26. ASSUME ArchiveFinishes PROVE Control'
  <2>1. CASE dep = "archiving"
    BY <1>26, <2>1 DEF ArchiveFinishes, EndJob, Idle, transitionDeploymentStatus,
       Control, ArchiveLane, SafeStart, ArchivingHasOwner, Working, Starting,
       Retired, Archives
  <2>2. CASE dep # "archiving"
    BY <1>26, <2>2, Works DEF ArchiveFinishes, At, Working,
       transitionDeploymentStatus
  <2> QED BY <2>1, <2>2
<1>27. ASSUME ArchiveReverts PROVE Control'
  BY <1>27, <1>a DEF ArchiveReverts, At, EndJob, Idle, transitionDeploymentStatus,
     Control, ArchiveLane, SafeStart, ArchivingHasOwner, Working, Starting,
     Retired, Archives
<1>28. ASSUME NEW g \in Gen, recoverStartingRuntimeInstances(g) PROVE Control'
  BY <1>28 DEF recoverStartingRuntimeInstances, depVars,
     enqueueDeploymentActivation, Control, ArchiveLane, SafeStart,
     ArchivingHasOwner, Working, Starting, Retired, Archives
<1>29. ASSUME ReaperSettles PROVE Control'
  BY <1>29 DEF ReaperSettles, transitionDeploymentStatus, Control, ArchiveLane,
     SafeStart, ArchivingHasOwner, Working, Starting, Retired, Archives
<1>30. ASSUME ReconcilerSettles PROVE Control'
  BY <1>30, <1>a DEF ReconcilerSettles, transitionDeploymentStatus,
     ReconcilerType, Control, ArchiveLane, SafeStart, ArchivingHasOwner, Working,
     Starting, Retired, Archives
<1>31. ASSUME EnqueueRestart PROVE Control'
  BY <1>31 DEF EnqueueRestart, depVars, enqueueJob, Control, ArchiveLane,
     SafeStart, ArchivingHasOwner, Working, Starting, Retired, Archives
<1>32. ASSUME EnqueueTrigger PROVE Control'
  BY <1>32 DEF EnqueueTrigger, depVars, enqueueJob, Control, ArchiveLane,
     SafeStart, ArchivingHasOwner, Working, Starting, Retired, Archives
<1>33. ASSUME EnqueueArchive PROVE Control'
  BY <1>33 DEF EnqueueArchive, depVars, enqueueJob, Control, ArchiveLane,
     SafeStart, ArchivingHasOwner, Working, Starting, Retired, Archives
<1>34. ASSUME DrainWrites PROVE Control'
  BY <1>34 DEF DrainWrites, Control, ArchiveLane, SafeStart, ArchivingHasOwner,
     Working, Starting, Retired, Archives
<1>35. ASSUME WorkerCrash PROVE Control'
  <2>1. lane.kind \in Archives => \E j \in jobs' : j.kind \in Archives
    <3> DEFINE back == [kind |-> lane.kind, gen |-> IF lane.kind = "ensure" THEN lane.gen ELSE 0]
    <3> SUFFICES ASSUME lane.kind \in Archives PROVE back \in jobs' /\ back.kind \in Archives
      OBVIOUS
    <3> QED BY <1>35 DEF WorkerCrash, Archives
  <2>2. jobs \subseteq jobs' /\ lane' = Idle /\ dep' = dep
    BY <1>35 DEF WorkerCrash, depVars
  <2> QED BY <2>1, <2>2 DEF Idle, Control, ArchiveLane, SafeStart,
             ArchivingHasOwner, Working, Starting, Retired, Archives
<1>36. ASSUME NEW c \in Client,
             \/ RequestChecks(c)
             \/ RequestAcquires(c)
             \/ RequestGivesUp(c)
             \/ RequestGranted(c)
             \/ RequestFails(c)
             \/ RequestReleases(c)
             \/ RequestDies(c)
     PROVE  UNCHANGED <<dep, jobs, lane>>
  BY <1>36 DEF RequestChecks, RequestAcquires, RequestGivesUp, RequestGranted,
     RequestFails, RequestReleases, RequestDies, depVars
<1>37. ASSUME NEW o \in Owner,
             \/ LeaseExpires(o)
     PROVE  UNCHANGED <<dep, jobs, lane>>
  BY <1>37 DEF LeaseExpires, depVars
<1>38. ASSUME NEW g \in Gen,
             \/ FailureHook(g)
             \/ ReconcilerInspects(g)
     PROVE  UNCHANGED <<dep, jobs, lane>>
  BY <1>38 DEF FailureHook, ReconcilerInspects, depVars
<1>39. ASSUME
             \/ ReaperClaims
             \/ ReaperNext
             \/ ReaperChecks
             \/ ReaperRestores
             \/ ReaperConfirms
             \/ ReaperStops
             \/ ReaperReports
             \/ ReconcilerRechecks
             \/ ReconcilerWrites
             \/ OrphanReads
             \/ adoptRuntimeInstance
             \/ OrphanStops
             \/ DrainReads
             \/ PromoteReads
             \/ PromoteCommits
             \/ Unroute
             \/ ProcessDies
     PROVE  UNCHANGED <<dep, jobs, lane>>
  BY <1>39 DEF ReaperClaims, ReaperNext, ReaperChecks, ReaperRestores,
     ReaperConfirms, ReaperStops, ReaperReports, ReconcilerRechecks,
     ReconcilerWrites, OrphanReads, adoptRuntimeInstance, OrphanStops, DrainReads,
     PromoteReads, PromoteCommits, Unroute, ProcessDies, depVars
<1>40. CASE UNCHANGED vars
  BY <1>40, <1>c DEF vars
<1> QED
  BY <1>c, <1>1, <1>2, <1>3, <1>4, <1>5, <1>6, <1>7, <1>8, <1>9, <1>10, <1>11,
     <1>12, <1>13, <1>14, <1>15, <1>16, <1>17, <1>18, <1>19, <1>20, <1>21, <1>22,
     <1>23, <1>24, <1>25, <1>26, <1>27, <1>28, <1>29, <1>30, <1>31, <1>32, <1>33,
     <1>34, <1>35, <1>36, <1>37, <1>38, <1>39, <1>40
  DEF Next, Request, LaneStep, StartSteps, EnsureSteps, TriggerSteps, RestartSteps,
      ArchiveSteps, ReaperStep, ReconcilerStep, OrphanStep, OperatorStep

-----------------------------------------------------------------------------
(***************************************************************************)
(* One starter                                                             *)
(***************************************************************************)
\* No instance begins to start.
NoneStarts == latest' = latest /\ \A g \in Gen : inst'[g] = "starting" => inst[g] = "starting"

\* Only a new generation starts, and only when no instance does.
LEMMA SingleNext == TypeOK /\ SingleStarter /\ [Next]_vars => SingleStarter'
<1> SUFFICES ASSUME TypeOK, SingleStarter, [Next]_vars PROVE SingleStarter'
  OBVIOUS
<1>t. inst \in [Gen -> InstStatus] /\ latest \in 0..MaxGen /\ MaxGen \in Nat
  BY BoundAssumption DEF TypeOK
<1>a. ASSUME NoneStarts PROVE SingleStarter'
  BY <1>a DEF NoneStarts, SingleStarter
<1>b. ASSUME NEW o, acquireActivationLease(o) PROVE SingleStarter'
  <2>1. CASE Joinable
    BY <1>b, <2>1 DEF acquireActivationLease, SingleStarter, instVars
  <2>2. CASE ~Joinable
    <3>1. \A g \in Gen : inst[g] # "starting"
      BY <2>2, <1>t DEF Joinable, LatestIn, SingleStarter, Gen
    <3>2. latest' = latest + 1 /\ inst' = [inst EXCEPT ![latest + 1] = "starting"]
      BY <1>b, <2>2 DEF acquireActivationLease
    <3> QED BY <1>t, <3>1, <3>2 DEF SingleStarter
  <2> QED BY <2>1, <2>2
<1>1. ASSUME NEW c \in Client, RequestAcquires(c) PROVE SingleStarter'
  BY <1>1, <1>b DEF RequestAcquires
<1>2. ASSUME TriggerAcquires PROVE SingleStarter'
  BY <1>2, <1>b DEF TriggerAcquires
<1>3. ASSUME adoptRuntimeInstance PROVE SingleStarter'
  <2>1. CASE UNCHANGED instVars
    BY <2>1 DEF SingleStarter, instVars
  <2>2. CASE ~UNCHANGED instVars
    <3>1. ~LatestIn(Live) /\ latest' = latest + 1 /\ inst' = [inst EXCEPT ![latest + 1] = "ready"]
      BY <1>3, <2>2 DEF adoptRuntimeInstance
    <3>2. \A g \in Gen : inst[g] # "starting"
      BY <3>1, <1>t DEF LatestIn, SingleStarter, Gen, Live
    <3> QED BY <1>t, <3>1, <3>2 DEF SingleStarter
  <2> QED BY <2>1, <2>2
<1>4. ASSUME StartOpens PROVE NoneStarts
  BY <1>4, <1>t DEF StartOpens, NoneStarts, StartFails
<1>5. ASSUME reserveRuntimeInstancePort PROVE NoneStarts
  BY <1>5, <1>t DEF reserveRuntimeInstancePort, NoneStarts, StartFails
<1>6. ASSUME StartProcess PROVE NoneStarts
  BY <1>6, <1>t DEF StartProcess, NoneStarts, StartFails
<1>7. ASSUME StartSettles PROVE NoneStarts
  BY <1>7, <1>t DEF StartSettles, NoneStarts, StartFails
<1>8. ASSUME EnsureChecks PROVE NoneStarts
  BY <1>8, <1>t DEF EnsureChecks, NoneStarts
<1>9. ASSUME TriggerGuards PROVE NoneStarts
  BY <1>9, <1>t DEF TriggerGuards, NoneStarts
<1>10. ASSUME RestartRetires PROVE NoneStarts
  BY <1>10, <1>t DEF RestartRetires, NoneStarts, Live
<1>11. ASSUME ReaperClaims PROVE NoneStarts
  BY <1>11, <1>t DEF ReaperClaims, NoneStarts
<1>12. ASSUME ReaperRestores PROVE NoneStarts
  BY <1>12, <1>t DEF ReaperRestores, NoneStarts
<1>13. ASSUME ReaperReports PROVE NoneStarts
  BY <1>13, <1>t DEF ReaperReports, NoneStarts
<1>14. ASSUME ReconcilerWrites PROVE NoneStarts
  BY <1>14, <1>t DEF ReconcilerWrites, NoneStarts, TypeOK, ReconcilerType
<1>15. ASSUME NEW c \in Client,
             \/ RequestChecks(c)
             \/ RequestGivesUp(c)
             \/ RequestEnqueues(c)
             \/ RequestGranted(c)
             \/ RequestFails(c)
             \/ RequestReleases(c)
             \/ RequestDies(c)
     PROVE  NoneStarts
  BY <1>15 DEF RequestChecks, RequestGivesUp, RequestEnqueues, RequestGranted,
     RequestFails, RequestReleases, RequestDies, NoneStarts, instVars
<1>16. ASSUME NEW o \in Owner,
             \/ LeaseExpires(o)
     PROVE  NoneStarts
  BY <1>16 DEF LeaseExpires, NoneStarts, instVars
<1>17. ASSUME NEW j \in jobs,
             \/ ClaimJob(j)
     PROVE  NoneStarts
  BY <1>17 DEF ClaimJob, NoneStarts, instVars
<1>18. ASSUME
             \/ EnsureSettles
             \/ EnsureThrows
             \/ TriggerGivesUp
             \/ TriggerPolls
             \/ TriggerMarks
             \/ TriggerDispatches
             \/ RestartChecks
             \/ RestartStops
             \/ RestartStarts
             \/ RestartSettles
             \/ ArchiveReads
             \/ ArchiveClaims
             \/ ArchiveRetains
             \/ ArchiveStops
             \/ ArchiveRemoves
             \/ ArchiveFinishes
             \/ ArchiveReverts
             \/ ReaperNext
             \/ ReaperChecks
             \/ ReaperConfirms
             \/ ReaperStops
             \/ ReaperSettles
             \/ ReconcilerRechecks
             \/ ReconcilerSettles
             \/ OrphanReads
             \/ OrphanStops
             \/ EnqueueRestart
             \/ EnqueueTrigger
             \/ EnqueueArchive
             \/ DrainReads
             \/ DrainWrites
             \/ PromoteReads
             \/ PromoteCommits
             \/ Unroute
             \/ ProcessDies
             \/ WorkerCrash
     PROVE  NoneStarts
  BY <1>18 DEF EnsureSettles, EnsureThrows, EnsureFails, TriggerGivesUp, TriggerPolls,
     TriggerMarks, TriggerDispatches, RestartChecks, RestartStops, RestartStarts,
     RestartSettles, ArchiveReads, ArchiveClaims, ArchiveRetains, ArchiveStops,
     ArchiveRemoves, ArchiveFinishes, ArchiveReverts, ReaperNext, ReaperChecks,
     ReaperConfirms, ReaperStops, ReaperSettles, ReconcilerRechecks,
     ReconcilerSettles, OrphanReads, OrphanStops, EnqueueRestart, EnqueueTrigger,
     EnqueueArchive, DrainReads, DrainWrites, PromoteReads, PromoteCommits,
     Unroute, ProcessDies, WorkerCrash, NoneStarts, instVars
<1>19. ASSUME NEW g \in Gen,
             \/ recoverStartingRuntimeInstances(g)
             \/ ReconcilerInspects(g)
     PROVE  NoneStarts
  BY <1>19 DEF recoverStartingRuntimeInstances, ReconcilerInspects, NoneStarts,
     instVars
<1>20. CASE UNCHANGED vars
  BY <1>20 DEF vars, SingleStarter
<1>21. ASSUME NEW g \in Gen, FailureHook(g) PROVE NoneStarts
  BY <1>21, <1>t DEF FailureHook, NoneStarts
<1> QED
  BY <1>a, <1>b, <1>1, <1>2, <1>3, <1>4, <1>5, <1>6, <1>7, <1>8, <1>9, <1>10,
     <1>11, <1>12, <1>13, <1>14, <1>15, <1>16, <1>17, <1>18, <1>19, <1>20, <1>21
  DEF Next, Request, LaneStep, StartSteps, EnsureSteps, TriggerSteps, RestartSteps,
      ArchiveSteps, ReaperStep, ReconcilerStep, OrphanStep, OperatorStep

-----------------------------------------------------------------------------
IInv == TypeOK /\ Control /\ SingleStarter

LEMMA IInvInit == Init => IInv
<1>1. Init => SingleStarter
  BY DEF Init, SingleStarter
<1> QED BY <1>1, TypeInit, ControlInit DEF IInv

LEMMA IInvNext == IInv /\ [Next]_vars => IInv'
<1>1. TypeOK /\ Control => ArchivePrior
  BY DEF Control, ArchiveLane, ArchivePrior, Working
<1> QED BY <1>1, TypeNext, ControlNext, SingleNext DEF IInv

\* Every reachable state satisfies the inductive invariant.
THEOREM ActivationInvariant == Spec => []IInv
BY IInvInit, IInvNext, PTL DEF Spec

\* Type correctness of the rows and of the in-memory state of the handlers.
THEOREM ActivationTypeCorrect == Spec => []TypeOK
<1>1. IInv => TypeOK
  BY DEF IInv
<1> QED BY <1>1, ActivationInvariant, PTL

\* Concurrent wake-ups coalesce (acquireActivationLease): at most one generation
\* is starting, the newest, for any number of requests, operations and crashes.
THEOREM SingleStarterCorrect == Spec => []SingleStarter
<1>1. IInv => SingleStarter
  BY DEF IInv
<1> QED BY <1>1, ActivationInvariant, PTL

\* No job starts the process of an archived Deployment or of one whose archive
\* claim is held (the checks of ensure, trigger and restart).
THEOREM StartNotArchivedCorrect == Spec => []StartNotArchived
<1>1. IInv => StartNotArchived
  BY DEF IInv, Control, SafeStart, StartNotArchived
<1> QED BY <1>1, ActivationInvariant, PTL

\* The "archiving" claim always has a job that will finish or revert it
\* (handleArchiveDeploymentJob and the recovery of its job).
THEOREM ArchivingHasOwnerCorrect == Spec => []ArchivingHasOwner
<1>1. IInv => ArchivingHasOwner
  BY DEF IInv, Control
<1> QED BY <1>1, ActivationInvariant, PTL

-----------------------------------------------------------------------------
(***************************************************************************)
(* Draining and archived are retained                                      *)
(***************************************************************************)
Retained ==
    /\ dep = "draining" /\ dep' = "running" => At({"trigger"}, "mark")
    /\ dep = "archived" /\ dep' # dep => operator = "drain"

\* Every write of the status respects them; the statement of each action that
\* writes it, and no write at all for the others.
LEMMA RetainedNext == IInv /\ [Next]_vars => Retained
<1> SUFFICES ASSUME IInv, [Next]_vars PROVE Retained
  OBVIOUS
<1>a. ASSUME UNCHANGED dep PROVE Retained
  BY <1>a DEF Retained
<1>1. ASSUME EnsureSettles PROVE Retained
  BY <1>1 DEF EnsureSettles, transitionDeploymentStatus, Retained
<1>2. ASSUME TriggerMarks PROVE Retained
  <2>1. dep # "archived"
    BY <1>2 DEF TriggerMarks, At, IInv, Control, SafeStart, Retired
  <2> QED BY <1>2, <2>1 DEF TriggerMarks, Retained
<1>3. ASSUME RestartStarts PROVE Retained
  BY <1>3 DEF RestartStarts, transitionDeploymentStatus, Retained
<1>4. ASSUME RestartSettles PROVE Retained
  BY <1>4 DEF RestartSettles, transitionDeploymentStatus, Retained
<1>5. ASSUME ArchiveClaims PROVE Retained
  <2>1. lane.prior # "archived"
    BY <1>5 DEF ArchiveClaims, At, IInv, Control, ArchiveLane
  <2> QED BY <1>5, <2>1 DEF ArchiveClaims, transitionDeploymentStatus, Retained
<1>6. ASSUME ArchiveFinishes PROVE Retained
  BY <1>6 DEF ArchiveFinishes, transitionDeploymentStatus, Retained
<1>7. ASSUME ArchiveReverts PROVE Retained
  BY <1>7 DEF ArchiveReverts, transitionDeploymentStatus, Retained
<1>8. ASSUME ReaperSettles PROVE Retained
  BY <1>8 DEF ReaperSettles, transitionDeploymentStatus, Retained
<1>9. ASSUME ReconcilerSettles PROVE Retained
  <2>1. reconciler.verdict \in {"stopped", "failed"}
    BY <1>9 DEF ReconcilerSettles, IInv, TypeOK, ReconcilerType
  <2> QED BY <1>9, <2>1 DEF ReconcilerSettles, transitionDeploymentStatus, Retained
<1>10. ASSUME DrainWrites PROVE Retained
  BY <1>10 DEF DrainWrites, Retained
<1>11. ASSUME NEW c \in Client, Request(c) \/ RequestDies(c) PROVE UNCHANGED dep
  BY <1>11 DEF Request, RequestChecks, RequestAcquires, RequestGivesUp,
     RequestEnqueues, RequestGranted, RequestFails, RequestReleases, RequestDies,
     depVars
<1>12. ASSUME NEW o \in Owner, LeaseExpires(o) PROVE UNCHANGED dep
  BY <1>12 DEF LeaseExpires, depVars
<1>13. ASSUME NEW j \in jobs, ClaimJob(j) PROVE UNCHANGED dep
  BY <1>13 DEF ClaimJob, depVars
<1>14. ASSUME NEW g \in Gen,
              FailureHook(g) \/ recoverStartingRuntimeInstances(g) \/ ReconcilerInspects(g)
       PROVE  UNCHANGED dep
  BY <1>14 DEF FailureHook, recoverStartingRuntimeInstances, ReconcilerInspects, depVars
<1>15. ASSUME \/ StartSteps \/ EnsureChecks \/ EnsureThrows \/ TriggerAcquires
              \/ TriggerGivesUp \/ TriggerGuards \/ TriggerPolls \/ TriggerDispatches
              \/ RestartChecks \/ RestartStops \/ RestartRetires
              \/ ArchiveReads \/ ArchiveRetains \/ ArchiveStops \/ ArchiveRemoves
       PROVE  UNCHANGED dep
  BY <1>15 DEF StartSteps, StartOpens, reserveRuntimeInstancePort, StartProcess,
     StartSettles, EnsureChecks, EnsureThrows, TriggerAcquires, TriggerGivesUp,
     TriggerGuards, TriggerPolls, TriggerDispatches, RestartChecks, RestartStops,
     RestartRetires, ArchiveReads, ArchiveRetains, ArchiveStops, ArchiveRemoves,
     depVars
<1>16. ASSUME \/ ReaperClaims \/ ReaperNext \/ ReaperChecks \/ ReaperRestores
              \/ ReaperConfirms \/ ReaperStops \/ ReaperReports
              \/ ReconcilerRechecks \/ ReconcilerWrites \/ OrphanReads \/ OrphanStep
       PROVE  UNCHANGED dep
  BY <1>16 DEF ReaperClaims, ReaperNext, ReaperChecks, ReaperRestores,
     ReaperConfirms, ReaperStops, ReaperReports, ReconcilerRechecks,
     ReconcilerWrites, OrphanReads, OrphanStep, adoptRuntimeInstance, OrphanStops,
     depVars
<1>17. ASSUME \/ EnqueueRestart \/ EnqueueTrigger \/ EnqueueArchive \/ DrainReads
              \/ PromoteReads \/ PromoteCommits \/ Unroute \/ ProcessDies
              \/ WorkerCrash \/ UNCHANGED vars
       PROVE  UNCHANGED dep
  BY <1>17 DEF EnqueueRestart, EnqueueTrigger, EnqueueArchive, DrainReads,
     PromoteReads, PromoteCommits, Unroute, ProcessDies, WorkerCrash, vars, depVars
<1> QED
  BY <1>a, <1>1, <1>2, <1>3, <1>4, <1>5, <1>6, <1>7, <1>8, <1>9, <1>10, <1>11,
     <1>12, <1>13, <1>14, <1>15, <1>16, <1>17
  DEF Next, LaneStep, EnsureSteps, TriggerSteps, RestartSteps, ArchiveSteps,
      ReaperStep, ReconcilerStep, OperatorStep

\* "Draining and archived are control-plane decisions that a concurrent restart or
\* activation must retain": no handler, sweep or crash writes over either, but for
\* trigger_schedule's mark over a drain and the drain route over an archive.
THEOREM DecisionsRetainedCorrect == Spec => DecisionsRetained
<1>1. IInv /\ [Next]_vars => [Retained]_vars
  BY RetainedNext
<1> QED BY <1>1, ActivationInvariant, PTL DEF Spec, DecisionsRetained, Retained

-----------------------------------------------------------------------------
(***************************************************************************)
(* Leases protect a served process from the idle reaper.                   *)
(*                                                                         *)
(* This holds for schedule runs, drains and route changes.  A restart, an  *)
(* archive or an orphan sweep stops the process whatever the leases say,   *)
(* and so may a crash or a fault of the process: they are not among Gentle.*)
(* A stale ensure job may still fail, and its onFailure write over any     *)
(* status: LeaseInv lasts until one is written over a claimed instance.    *)
(***************************************************************************)
Gentle == {"trigger", "drain", "promote"}

\* No job stops the process, and nothing is there to reconcile or to adopt.
Quiet ==
    /\ dep \notin Retired /\ artifacts
    /\ lane.kind \in {"none"} \cup Starters
    /\ \A j \in jobs : j.kind \in Starters
    /\ reconciler = NoCheck /\ orphan = "idle"

\* A request that waits or is served holds its lease on a generation that exists;
\* so does an ensure job know its generation.
Waiting == {"enqueue", "wait", "active"}
GensKnown ==
    /\ \A j \in jobs : j.kind = "ensure" => j.gen \in 1..latest
    /\ lane.kind = "ensure" => lane.gen \in 1..latest
    /\ cpc \in [Client -> {"idle", "checked", "error", "done", "dead"} \cup Waiting]
    /\ \A c \in Client : cpc[c] \in Waiting => cgen[c] \in 1..latest /\ lease[c] = "active"

\* What a failed ensure job has still to write is about an instance that has been
\* started, and that nobody starts again.
HooksKnown == \A g \in Gen : hooks[g] > 0 => g <= latest /\ inst[g] # "starting"

\* Only the newest generation is live, and its row says where the process listens.
NewestLives == \A g \in Gen : inst[g] \in Live => g = latest
Serves ==
    \A g \in Gen :
       /\ inst[g] = "ready" => proc = endpoint[g] /\ proc # None
       /\ inst[g] = "draining" /\ reaper.pc # "stopped" => proc = endpoint[g] /\ proc # None

\* The starter's instance is starting until it settles it.
StarterHolds ==
    \/ At({"trigger"}, "open")
    \/ At({"trigger"}, "guard") /\ lane.prior = "starter"
    \/ lane.pc \in {"port", "start", "health"}
LaneStarts ==
    /\ StarterHolds => lane.gen \in Gen /\ inst[lane.gen] = "starting"
    /\ lane.pc \in {"start", "health"} => endpoint[lane.gen] # None
    /\ lane.pc = "health" => proc = endpoint[lane.gen]

\* What a sweep has claimed stays draining until the sweep is through with it.
SweepPC == {"idle", "next", "leases", "restore", "confirm", "stop", "stopped", "settle"}
Sweeping == {"leases", "restore", "confirm", "stop", "stopped"}
SweepDrains ==
    /\ reaper \in [pc : SweepPC, todo : SUBSET Gen, gen : 0..MaxGen]
    /\ \A g \in reaper.todo : inst[g] = "draining"
    /\ reaper.pc \in Sweeping => /\ reaper.gen \in Gen \ reaper.todo
                                 /\ inst[reaper.gen] = "draining"

\* No sweep has claimed the instance of a request that waits or is served.
Undrained == \A c \in Client, g \in Gen : cpc[c] \in Waiting => inst[g] # "draining"

\* A request is served where its instance says, and generations that come after it,
\* should its row be failed under it, get the same port.
Served ==
    /\ \A g \in Gen : g > latest => endpoint[g] = None
    /\ \A c \in Client : cpc[c] = "active" =>
          /\ proc = endpoint[cgen[c]] /\ proc # None
          /\ \A g \in Gen : g > cgen[c] => endpoint[g] \in {None, proc}

LeaseInv ==
    /\ Quiet /\ GensKnown /\ HooksKnown /\ NewestLives /\ Serves /\ LaneStarts
    /\ SweepDrains /\ Undrained /\ Served

LEMMA LeaseInit == Init => LeaseInv
<1> SUFFICES ASSUME Init PROVE LeaseInv
  OBVIOUS
<1>1. Quiet
  BY InitAssumption DEF Init, Quiet, Idle, Retired
<1>2. GensKnown
  BY DEF Init, GensKnown, Waiting, Idle
<1>3. NewestLives /\ Serves /\ HooksKnown /\ Undrained /\ Served
  BY DEF Init, NewestLives, Serves, HooksKnown, NoHooks, Undrained, Served, Live
<1>4. LaneStarts
  BY DEF Init, LaneStarts, StarterHolds, At, Idle
<1>5. SweepDrains
  BY BoundAssumption DEF Init, SweepDrains, NoSweep, SweepPC, Sweeping
<1> QED BY <1>1, <1>2, <1>3, <1>4, <1>5 DEF LeaseInv

Unleased == \A o \in Owner : lease[o] # "active"

\* LeaseInv is kept by every step that Gentle operations leave possible, but for an
\* onFailure over a claimed instance.  Most steps leave the rows alone.
LEMMA LeaseNext ==
    ASSUME Ops \subseteq Gentle, TypeOK, SingleStarter, ~overruled, LeaseInv, [Next]_vars
    PROVE  overruled' \/ LeaseInv'
<1> USE DEF depVars, instVars, clientVars, sweepVars, hookVars
<1>i. /\ Quiet /\ GensKnown /\ HooksKnown /\ NewestLives /\ Serves /\ LaneStarts
      /\ SweepDrains /\ Undrained /\ Served
  BY DEF LeaseInv
<1>t. /\ inst \in [Gen -> InstStatus] /\ endpoint \in [Gen -> Port \cup {None}]
      /\ latest \in 0..MaxGen /\ MaxGen \in Nat \ {0} /\ lease \in [Owner -> LeaseStatus]
      /\ cgen \in [Client -> 0..MaxGen] /\ lane \in LaneType /\ hooks \in [Gen -> Nat]
      /\ Gen = 1..MaxGen
  BY BoundAssumption DEF TypeOK, Gen
<1>n. /\ None \notin Port /\ HostPort \in Port
      /\ Run \notin Client /\ Client \subseteq Owner /\ Run \in Owner
  BY PortAssumption, ClientAssumption DEF Owner
<1>f. ~Spend("fault") /\ ~Spend("crash") /\ ~Spend("restart") /\ ~Spend("archive")
      /\ ~Spend("sweep") /\ ~Spend("orphan")
  BY DEF Spend, Gentle
<1>g. ASSUME NEW pc \in LanePC, Goto(pc)
      PROVE  /\ lane'.pc = pc /\ lane'.kind = lane.kind
             /\ lane'.gen = lane.gen /\ lane'.prior = lane.prior
  BY <1>g, <1>t, GotoTyped DEF Goto
<1>e. ASSUME EndJob PROVE lane'.kind = "none" /\ lane'.pc = "idle"
  BY <1>e DEF EndJob, Idle
\* The frames: what a step leaves alone keeps its part of the invariant.
<1>r. ASSUME UNCHANGED <<inst, endpoint, latest, proc, hooks, reaper>>
      PROVE  HooksKnown' /\ NewestLives' /\ Serves' /\ SweepDrains'
  BY <1>r, <1>i DEF HooksKnown, NewestLives, Serves, SweepDrains
<1>s. ASSUME UNCHANGED <<inst, endpoint, latest, proc, cpc, cgen>>
      PROVE  Undrained' /\ Served'
  BY <1>s, <1>i DEF Undrained, Served
<1>w. ASSUME UNCHANGED <<dep, artifacts, jobs, lane, reconciler, orphan>> PROVE Quiet'
  BY <1>w, <1>i DEF Quiet
<1>k. ASSUME UNCHANGED <<jobs, lane, latest, cpc, cgen>>,
             \A c \in Client : lease'[c] = lease[c]
      PROVE  GensKnown'
  BY <1>k, <1>i DEF GensKnown
<1>l. ASSUME UNCHANGED <<lane, inst, endpoint, proc>> PROVE LaneStarts'
  BY <1>l, <1>i DEF LaneStarts, StarterHolds, At
\* A lane's step that touches no row, with what it does to the lane and the jobs.
<1>v. ASSUME UNCHANGED <<artifacts, inst, endpoint, latest, proc, hooks, reaper, cpc,
                         cgen, jobs, reconciler, orphan>>,
             \A c \in Client : lease'[c] = lease[c],
             dep' = dep \/ dep' \notin Retired,
             \/ lane'.kind = "none" /\ lane'.pc = "idle"
             \/ /\ lane'.kind = lane.kind /\ lane'.gen = lane.gen /\ lane'.prior = lane.prior
                /\ \/ lane'.pc \in {"settle", "mark", "poll", "dispatch"}
                   \/ lane'.pc = "open" /\ lane'.kind = "ensure"
                   \/ lane'.pc \in {"open", "port"} /\ lane.gen \in Gen
                      /\ inst[lane.gen] = "starting"
      PROVE  LeaseInv'
  <2>1. Quiet'
    BY <1>v, <1>i DEF Quiet, Starters
  <2>2. GensKnown'
    BY <1>v, <1>i DEF GensKnown
  <2>3. LaneStarts'
    BY <1>v, <1>i DEF LaneStarts, StarterHolds, At
  <2> QED BY <1>v, <1>r, <1>s, <2>1, <2>2, <2>3 DEF LeaseInv
<1>q. ASSUME NEW o, acquireActivationLease(o)
      PROVE  /\ latest' \in Gen /\ latest <= latest' /\ endpoint' = endpoint
             /\ \A g \in Gen : inst[g] # "draining"
             /\ \/ UNCHANGED instVars /\ Joinable
                \/ /\ ~Joinable /\ latest' = latest + 1
                   /\ \A g \in Gen : inst[g] \notin Live
                   /\ inst' = [inst EXCEPT ![latest'] = "starting"]
  <2>1. CASE Joinable
    BY <1>q, <2>1, <1>i, <1>t DEF acquireActivationLease, Joinable, LatestIn, NewestLives,
       Live
  <2>2. CASE ~Joinable
    <3>1. \A g \in Gen : inst[g] \notin Live
      BY <1>q, <2>2, <1>i, <1>t DEF acquireActivationLease, Joinable, LatestIn,
         NewestLives, Live
    <3> QED BY <1>q, <2>2, <3>1, <1>t DEF acquireActivationLease, Live
  <2> QED BY <2>1, <2>2
\* The rows after an acquisition, by a request or by a schedule run.
<1>x. ASSUME NEW o, acquireActivationLease(o), UNCHANGED <<proc, hooks, reaper>>
      PROVE  /\ HooksKnown' /\ NewestLives' /\ Serves' /\ SweepDrains'
             /\ \A g \in Gen : inst'[g] # "draining"
             /\ \A g \in Gen : g > latest' => endpoint'[g] = None
  <2>1. /\ latest' \in Gen /\ latest <= latest' /\ endpoint' = endpoint
        /\ \A g \in Gen : inst[g] # "draining"
        /\ \/ UNCHANGED instVars
           \/ /\ latest' = latest + 1
              /\ \A g \in Gen : inst[g] \notin Live
              /\ inst' = [inst EXCEPT ![latest'] = "starting"]
    BY <1>x, <1>q
  <2>2. HooksKnown'
    BY <1>x, <2>1, <1>i, <1>t DEF HooksKnown
  <2>3. NewestLives'
    BY <2>1, <1>i, <1>t DEF NewestLives
  <2>4. Serves'
    BY <1>x, <2>1, <1>i, <1>t DEF Serves
  <2>5. SweepDrains'
    BY <1>x, <2>1, <1>i, <1>t DEF SweepDrains
  <2>6. \A g \in Gen : inst'[g] # "draining"
    BY <2>1, <1>t
  <2>7. \A g \in Gen : g > latest' => endpoint'[g] = None
    BY <2>1, <1>i, <1>t DEF Served
  <2> QED BY <2>2, <2>3, <2>4, <2>5, <2>6, <2>7
\* A starting instance is the lane's to start, on any port.
<1>p. ASSUME lane.pc \in {"port", "start", "health"}
      PROVE  /\ lane.gen \in Gen /\ lane.gen = latest /\ inst[lane.gen] = "starting"
             /\ \A g \in Gen : inst[g] \in Live => g = lane.gen
             /\ \A port : PortFree(lane.gen, port)
  BY <1>p, <1>i, <1>t DEF LaneStarts, StarterHolds, NewestLives, Live, PortFree
<1>1. ASSUME NEW c \in Client,
             \/ RequestChecks(c) \/ RequestGivesUp(c) \/ RequestFails(c)
             \/ RequestReleases(c)
      PROVE  LeaseInv'
  <2>1. /\ UNCHANGED <<dep, artifacts, jobs, lane, reconciler, orphan, inst, endpoint,
                       latest, proc, hooks, reaper, cgen>>
        /\ cpc' = [cpc EXCEPT ![c] = cpc'[c]] /\ cpc'[c] \in {"done", "checked", "error"}
        /\ \A d \in Client : d # c => lease'[d] = lease[d]
    BY <1>1, <1>i, <1>t, <1>n DEF RequestChecks, RequestGivesUp, RequestFails,
       RequestReleases, GensKnown
  <2>2. GensKnown'
    BY <2>1, <1>i DEF GensKnown, Waiting
  <2>3. Undrained' /\ Served'
    BY <2>1, <1>i DEF Undrained, Served, GensKnown, Waiting
  <2> QED BY <2>1, <2>2, <2>3, <1>r, <1>w, <1>l DEF LeaseInv
<1>2. ASSUME NEW c \in Client, RequestAcquires(c) PROVE LeaseInv'
  <2>1. /\ acquireActivationLease(c) /\ cgen' = [cgen EXCEPT ![c] = latest']
        /\ UNCHANGED <<dep, artifacts, jobs, lane, reconciler, orphan, proc, hooks, reaper>>
        /\ cpc' = [cpc EXCEPT ![c] = cpc'[c]] /\ cpc'[c] \in {"enqueue", "wait", "done"}
    BY <1>2, <1>i DEF RequestAcquires, GensKnown
  <2>2. /\ latest' \in Gen /\ latest <= latest' /\ endpoint' = endpoint
        /\ lease' = [lease EXCEPT ![c] = "active"]
        /\ \A g \in Gen : inst[g] = "starting" => inst'[g] = "starting"
    BY <2>1, <1>q, <1>t DEF acquireActivationLease
  <2>3. GensKnown'
    <3>1. \A j \in jobs : j.kind = "ensure" => j.gen \in 1..latest'
      BY <2>2, <1>i, <1>t DEF GensKnown
    <3>2. lane.kind = "ensure" => lane.gen \in 1..latest'
      BY <2>2, <1>i, <1>t DEF GensKnown
    <3>3. \A d \in Client : cpc'[d] \in Waiting => cgen'[d] \in 1..latest' /\ lease'[d] = "active"
      BY <2>1, <2>2, <1>i, <1>t, <1>n DEF GensKnown
    <3>4. cpc' \in [Client -> {"idle", "checked", "error", "done", "dead"} \cup Waiting]
      BY <2>1, <1>i DEF GensKnown, Waiting
    <3> QED BY <2>1, <3>1, <3>2, <3>3, <3>4 DEF GensKnown
  <2>4. LaneStarts'
    BY <2>1, <2>2, <1>i, <1>t DEF LaneStarts, StarterHolds, At
  <2>5. /\ HooksKnown' /\ NewestLives' /\ Serves' /\ SweepDrains'
        /\ \A g \in Gen : inst'[g] # "draining"
        /\ \A g \in Gen : g > latest' => endpoint'[g] = None
    BY <2>1, <1>x
  <2>6. Undrained'
    BY <2>5 DEF Undrained
  <2>7. Served'
    BY <2>1, <2>2, <2>5, <1>i, <1>t DEF Served, GensKnown
  <2> QED BY <2>1, <2>3, <2>4, <2>5, <2>6, <2>7, <1>w DEF LeaseInv
<1>3. ASSUME NEW c \in Client, RequestEnqueues(c) PROVE LeaseInv'
  <2>1. /\ UNCHANGED <<dep, artifacts, lane, reconciler, orphan, inst, endpoint, latest,
                       proc, hooks, reaper, cgen, lease>>
        /\ cpc[c] = "enqueue" /\ jobs' \subseteq jobs \cup {EnsureJob(cgen[c])}
        /\ cpc' = [cpc EXCEPT ![c] = cpc'[c]] /\ cpc'[c] \in {"done", "wait"}
    BY <1>3, <1>i DEF RequestEnqueues, enqueueDeploymentActivation, GensKnown
  <2>2. GensKnown'
    BY <2>1, <1>i DEF GensKnown, EnsureJob, Waiting
  <2>3. Quiet'
    BY <2>1, <1>i DEF Quiet, EnsureJob, Starters
  <2>4. Undrained' /\ Served'
    BY <2>1, <1>i DEF Undrained, Served, GensKnown, Waiting
  <2> QED BY <2>1, <2>2, <2>3, <2>4, <1>r, <1>l DEF LeaseInv
<1>4. ASSUME NEW c \in Client, RequestGranted(c) PROVE LeaseInv'
  <2>1. /\ UNCHANGED <<dep, artifacts, jobs, lane, reconciler, orphan, inst, endpoint,
                       latest, proc, hooks, reaper, cgen, lease>>
        /\ cpc[c] = "wait" /\ inst[cgen[c]] = "ready" /\ cgen[c] \in 1..latest
        /\ cpc' = [cpc EXCEPT ![c] = cpc'[c]] /\ cpc'[c] \in {"active", "error"}
    BY <1>4, <1>i DEF RequestGranted, GensKnown, Waiting
  <2>2. cgen[c] \in Gen /\ cgen[c] = latest /\ proc = endpoint[cgen[c]] /\ proc # None
    BY <2>1, <1>i, <1>t DEF NewestLives, Serves, Live
  <2>3. GensKnown' /\ Undrained'
    BY <2>1, <1>i DEF GensKnown, Undrained, Waiting
  <2>4. Served'
    BY <2>1, <2>2, <1>i, <1>t DEF Served, GensKnown
  <2> QED BY <2>1, <2>3, <2>4, <1>r, <1>w, <1>l DEF LeaseInv
<1>5. ASSUME NEW o \in Owner, LeaseExpires(o) PROVE LeaseInv'
  <2>1. \A c \in Client : cpc[c] \in Waiting => lease'[c] = "active"
    BY <1>5, <1>i, <1>t, <1>n DEF LeaseExpires, HolderGone, GensKnown, Waiting
  <2>2. GensKnown'
    BY <1>5, <2>1, <1>i DEF LeaseExpires, GensKnown
  <2> QED BY <1>5, <2>2, <1>r, <1>s, <1>w, <1>l DEF LeaseExpires, LeaseInv
<1>6. ASSUME NEW j \in jobs, ClaimJob(j) PROVE LeaseInv'
  <2>1. /\ lane' = [kind |-> j.kind, gen |-> j.gen, pc |-> FirstStep(j.kind), prior |-> "none"]
        /\ j.kind \in Starters /\ FirstStep(j.kind) \in {"check", "acquire"}
        /\ jobs' = jobs \ {j}
    BY <1>6, <1>i DEF ClaimJob, Quiet, FirstStep, Starters
  <2>2. Quiet'
    BY <1>6, <2>1, <1>i DEF ClaimJob, Quiet
  <2>3. GensKnown'
    BY <1>6, <2>1, <1>i DEF ClaimJob, GensKnown
  <2>4. LaneStarts'
    BY <2>1 DEF LaneStarts, StarterHolds, At
  <2> QED BY <1>6, <2>2, <2>3, <2>4, <1>r, <1>s DEF ClaimJob, LeaseInv
<1>7. ASSUME StartOpens PROVE LeaseInv'
  <2>1. At({"trigger"}, "open") => lane.gen \in Gen /\ inst[lane.gen] = "starting"
    BY <1>i DEF LaneStarts, StarterHolds
  <2>2. lane.kind = "ensure" => lane.gen \in Gen /\ lane.gen <= latest
    BY <1>i, <1>t DEF GensKnown
  <2>3. CASE inst[lane.gen] = "ready"
    <3>1. Goto(AfterReady) /\ AfterReady \in {"settle", "mark"}
      BY <1>7, <2>3 DEF StartOpens, AfterReady
    <3>2. /\ lane'.pc \in {"settle", "mark"} /\ lane'.kind = lane.kind
          /\ lane'.gen = lane.gen /\ lane'.prior = lane.prior
      BY <3>1, <1>g DEF LanePC
    <3> QED BY <1>7, <2>3, <3>2, <1>v DEF StartOpens
  <2>4. CASE inst[lane.gen] = "starting"
    <3>1. Goto("port") /\ lane.gen \in Gen
      BY <1>7, <2>1, <2>2, <2>4 DEF StartOpens, At, Starters
    <3>2. /\ lane'.pc = "port" /\ lane'.kind = lane.kind
          /\ lane'.gen = lane.gen /\ lane'.prior = lane.prior
      BY <3>1, <1>g DEF LanePC
    <3> QED BY <1>7, <2>4, <3>1, <3>2, <1>v DEF StartOpens
  <2>5. CASE inst[lane.gen] \notin {"ready", "starting"}
    <3>1. lane.kind = "ensure" /\ EnsureFails /\ UNCHANGED <<inst, lease>>
      BY <1>7, <2>1, <2>5 DEF StartOpens, At, Starters
    <3>2. lane'.kind = "none" /\ lane'.pc = "idle"
      BY <3>1, <1>e DEF EnsureFails
    <3>3. HooksKnown'
      BY <1>7, <2>2, <2>5, <3>1, <1>i, <1>t DEF StartOpens, EnsureFails, HooksKnown
    <3>4. Quiet' /\ GensKnown' /\ LaneStarts'
      BY <1>7, <3>1, <3>2, <1>i DEF StartOpens, Quiet, GensKnown, LaneStarts,
         StarterHolds, At
    <3>5. NewestLives' /\ Serves' /\ SweepDrains'
      BY <1>7, <3>1, <1>i DEF StartOpens, NewestLives, Serves, SweepDrains
    <3> QED BY <1>7, <3>1, <3>3, <3>4, <3>5, <1>s DEF StartOpens, LeaseInv
  <2> QED BY <1>7, <2>3, <2>4, <2>5 DEF StartOpens
<1>8. ASSUME reserveRuntimeInstancePort PROVE LeaseInv'
  <2>1. /\ lane.gen \in Gen /\ lane.gen = latest /\ inst[lane.gen] = "starting"
        /\ \A port : PortFree(lane.gen, port)
    BY <1>8, <1>p DEF reserveRuntimeInstancePort, At
  <2>2. /\ Goto("start") /\ UNCHANGED <<inst, lease, hooks>>
        /\ \/ endpoint[lane.gen] # None /\ UNCHANGED endpoint
           \/ /\ endpoint[lane.gen] = None
              /\ \E preferred, p \in Port :
                    /\ PreferredPort(lane.gen, preferred)
                    /\ proc = preferred => p = preferred
                    /\ endpoint' = [endpoint EXCEPT ![lane.gen] = p]
    BY <1>8, <2>1 DEF reserveRuntimeInstancePort
  <2>3. /\ lane'.pc = "start" /\ lane'.kind = lane.kind
        /\ lane'.gen = lane.gen /\ lane'.prior = lane.prior
    BY <2>2, <1>g DEF LanePC
  <2>4. endpoint'[lane.gen] # None /\ \A g \in Gen \ {lane.gen} : endpoint'[g] = endpoint[g]
    BY <2>1, <2>2, <1>t, <1>n
  <2>5. UNCHANGED <<dep, artifacts, proc, latest, cpc, cgen, jobs, reaper, reconciler, orphan>>
    BY <1>8 DEF reserveRuntimeInstancePort
  <2>6. Quiet' /\ GensKnown'
    BY <2>2, <2>3, <2>5, <1>i DEF Quiet, GensKnown
  <2>7. LaneStarts'
    BY <2>1, <2>2, <2>3, <2>4, <1>i DEF LaneStarts, StarterHolds, At
  <2>8. HooksKnown' /\ NewestLives' /\ SweepDrains' /\ Undrained'
    BY <2>2, <2>5, <1>i DEF HooksKnown, NewestLives, SweepDrains, Undrained
  <2>9. Serves'
    BY <2>1, <2>2, <2>4, <2>5, <1>i DEF Serves
  <2>10. Served'
    <3>1. ASSUME NEW c \in Client, cpc[c] = "active"
          PROVE  /\ proc = endpoint'[cgen[c]]
                 /\ \A g \in Gen : g > cgen[c] => endpoint'[g] \in {None, proc}
      <4>1. /\ cgen[c] \in Gen /\ cgen[c] <= latest
            /\ proc = endpoint[cgen[c]] /\ proc # None
            /\ \A g \in Gen : g > cgen[c] => endpoint[g] \in {None, proc}
        BY <3>1, <1>i, <1>t DEF Served, GensKnown, Waiting
      <4>2. CASE UNCHANGED endpoint
        BY <4>1, <4>2
      <4>3. CASE ~UNCHANGED endpoint
        <5>1. PICK preferred \in Port, p \in Port :
                 /\ PreferredPort(lane.gen, preferred)
                 /\ proc = preferred => p = preferred
                 /\ endpoint' = [endpoint EXCEPT ![lane.gen] = p]
          BY <2>2, <4>3
        <5>2. cgen[c] # lane.gen /\ endpoint[lane.gen] = None
          BY <2>2, <4>1, <4>3
        <5>3. preferred = proc
          BY <5>1, <5>2, <4>1, <1>t DEF PreferredPort
        <5> QED BY <5>1, <5>2, <5>3, <4>1, <2>1, <1>t
      <4> QED BY <4>2, <4>3
    <3>2. \A g \in Gen : g > latest => endpoint'[g] = None
      BY <2>1, <2>4, <1>i, <1>t DEF Served
    <3>3. \A c \in Client : cpc[c] = "active" => proc # None
      BY <1>i DEF Served
    <3> QED BY <2>5, <3>1, <3>2, <3>3 DEF Served
  <2> QED BY <2>6, <2>7, <2>8, <2>9, <2>10 DEF LeaseInv
<1>9. ASSUME StartProcess PROVE LeaseInv'
  <2>1. /\ lane.gen \in Gen /\ lane.gen = latest /\ inst[lane.gen] = "starting"
        /\ \A g \in Gen : inst[g] \in Live => g = lane.gen
        /\ lane.pc = "start" /\ endpoint[lane.gen] # None
    BY <1>9, <1>p, <1>i DEF StartProcess, At, LaneStarts
  <2>2. Goto("health") /\ proc' = endpoint[lane.gen] /\ UNCHANGED <<inst, lease, hooks>>
    BY <1>9, <1>f, <1>i DEF StartProcess, Quiet
  <2>3. /\ lane'.pc = "health" /\ lane'.kind = lane.kind
        /\ lane'.gen = lane.gen /\ lane'.prior = lane.prior
    BY <2>2, <1>g DEF LanePC
  <2>4. UNCHANGED <<dep, artifacts, endpoint, latest, cpc, cgen, jobs, reaper, reconciler, orphan>>
    BY <1>9 DEF StartProcess
  <2>5. Quiet' /\ GensKnown'
    BY <2>2, <2>3, <2>4, <1>i DEF Quiet, GensKnown
  <2>6. LaneStarts'
    BY <2>1, <2>2, <2>3, <2>4 DEF LaneStarts, StarterHolds, At
  <2>7. HooksKnown' /\ NewestLives' /\ SweepDrains' /\ Undrained'
    BY <2>2, <2>4, <1>i DEF HooksKnown, NewestLives, SweepDrains, Undrained
  <2>8. Serves'
    BY <2>1, <2>2, <2>4 DEF Serves, Live
  <2>9. \A c \in Client : cpc[c] = "active" => proc' = proc
    BY <2>1, <2>2, <1>i, <1>t DEF Served, GensKnown, Waiting
  <2>10. Served'
    BY <2>4, <2>9, <1>i DEF Served
  <2> QED BY <2>5, <2>6, <2>7, <2>8, <2>10 DEF LeaseInv
<1>10. ASSUME StartSettles PROVE LeaseInv'
  <2>1. /\ lane.gen \in Gen /\ lane.gen = latest /\ inst[lane.gen] = "starting"
        /\ PortFree(lane.gen, endpoint[lane.gen])
        /\ lane.pc = "health" /\ proc = endpoint[lane.gen] /\ proc # None
    BY <1>10, <1>p, <1>i DEF StartSettles, At, LaneStarts
  <2>2. /\ inst' = [inst EXCEPT ![lane.gen] = "ready"] /\ UNCHANGED <<lease, hooks>>
        /\ Goto(AfterReady) /\ AfterReady \in {"settle", "mark"}
    BY <1>10, <2>1, <1>f DEF StartSettles, AfterReady
  <2>3. /\ lane'.pc \in {"settle", "mark"} /\ lane'.kind = lane.kind
        /\ lane'.gen = lane.gen /\ lane'.prior = lane.prior
    BY <2>2, <1>g DEF LanePC
  <2>4. UNCHANGED <<dep, artifacts, proc, endpoint, latest, cpc, cgen, jobs, reaper,
                    reconciler, orphan>>
    BY <1>10 DEF StartSettles
  <2>5. Quiet' /\ GensKnown' /\ LaneStarts'
    BY <2>2, <2>3, <2>4, <1>i DEF Quiet, GensKnown, LaneStarts, StarterHolds, At
  <2>6. HooksKnown' /\ NewestLives' /\ Undrained'
    BY <2>1, <2>2, <2>4, <1>i, <1>t DEF HooksKnown, NewestLives, Undrained, Live
  <2>7. Serves' /\ SweepDrains'
    BY <2>1, <2>2, <2>4, <1>i, <1>t DEF Serves, SweepDrains
  <2>8. Served'
    BY <2>4, <1>i DEF Served
  <2> QED BY <2>5, <2>6, <2>7, <2>8 DEF LeaseInv
<1>11. ASSUME EnsureChecks PROVE LeaseInv'
  <2>1. Goto("open") /\ lane.kind = "ensure" /\ UNCHANGED inst
    BY <1>11, <1>i DEF EnsureChecks, Quiet, At
  <2>2. /\ lane'.pc = "open" /\ lane'.kind = lane.kind
        /\ lane'.gen = lane.gen /\ lane'.prior = lane.prior
    BY <2>1, <1>g DEF LanePC
  <2> QED BY <1>11, <2>1, <2>2, <1>v DEF EnsureChecks
<1>12. ASSUME EnsureSettles PROVE LeaseInv'
  BY <1>12, <1>e, <1>v DEF EnsureSettles, transitionDeploymentStatus, Retired
<1>13. ASSUME TriggerAcquires PROVE LeaseInv'
  <2>1. acquireActivationLease(Run) /\ lane.kind = "trigger"
    BY <1>13 DEF TriggerAcquires, At
  <2>2. /\ lane'.kind = "trigger" /\ lane'.gen = latest' /\ lane'.pc = "guard"
        /\ lane'.prior = IF Joinable THEN inst[latest] ELSE "starter"
    BY <1>13, <2>1, <1>t DEF TriggerAcquires, LaneType
  <2>3. /\ UNCHANGED <<dep, artifacts, proc, hooks, reaper, cpc, cgen, jobs, reconciler, orphan>>
        /\ \A c \in Client : lease'[c] = lease[c]
    BY <1>13, <2>1, <1>t, <1>n DEF TriggerAcquires, acquireActivationLease
  <2>4. /\ HooksKnown' /\ NewestLives' /\ Serves' /\ SweepDrains'
        /\ \A g \in Gen : inst'[g] # "draining"
        /\ \A g \in Gen : g > latest' => endpoint'[g] = None
    BY <2>1, <2>3, <1>x
  <2>5. Quiet'
    BY <2>2, <2>3, <1>i DEF Quiet, Starters
  <2>6. latest' \in Gen /\ latest <= latest' /\ endpoint' = endpoint
    BY <2>1, <1>q
  <2>7. GensKnown'
    <3>1. \A j \in jobs : j.kind = "ensure" => j.gen \in 1..latest'
      BY <2>6, <1>i, <1>t DEF GensKnown
    <3>2. \A c \in Client : cpc[c] \in Waiting => cgen[c] \in 1..latest' /\ lease[c] = "active"
      BY <2>6, <1>i, <1>t DEF GensKnown
    <3> QED BY <2>2, <2>3, <3>1, <3>2, <1>i DEF GensKnown
  <2>8. Undrained' /\ Served'
    BY <2>3, <2>4, <2>6, <1>i DEF Undrained, Served
  <2>9. LaneStarts'
    <3>1. ~Joinable => inst'[latest'] = "starting"
      BY <2>1, <1>q, <1>t
    <3>2. Joinable => inst[latest] # "starter"
      BY <1>t DEF Joinable, LatestIn
    <3> QED BY <2>2, <2>6, <3>1, <3>2 DEF LaneStarts, StarterHolds, At
  <2> QED BY <2>4, <2>5, <2>7, <2>8, <2>9 DEF LeaseInv
<1>14. ASSUME TriggerGivesUp PROVE LeaseInv'
  BY <1>14, <1>e, <1>v DEF TriggerGivesUp
<1>15. ASSUME TriggerGuards PROVE LeaseInv'
  <2>1. UNCHANGED <<inst, lease>>
    BY <1>15, <1>i DEF TriggerGuards, Quiet
  <2>2. \/ Goto("open") /\ lane.prior = "starter"
        \/ Goto("poll")
        \/ Goto("mark")
    BY <1>15, <1>i DEF TriggerGuards, Quiet
  <2>3. lane.prior = "starter" => lane.gen \in Gen /\ inst[lane.gen] = "starting"
    BY <1>15, <1>i DEF TriggerGuards, LaneStarts, StarterHolds
  <2>4. /\ lane'.kind = lane.kind /\ lane'.gen = lane.gen /\ lane'.prior = lane.prior
        /\ \/ lane'.pc = "open" /\ lane.prior = "starter"
           \/ lane'.pc \in {"poll", "mark"}
    BY <2>2, <1>g DEF LanePC
  <2> QED BY <1>15, <2>1, <2>3, <2>4, <1>v DEF TriggerGuards
<1>16. ASSUME TriggerPolls PROVE LeaseInv'
  <2>1. \/ EndJob
        \/ Goto("mark")
    BY <1>16 DEF TriggerPolls
  <2>2. \A c \in Client : lease'[c] = lease[c]
    BY <1>16, <1>t, <1>n DEF TriggerPolls
  <2>3. \/ lane'.kind = "none" /\ lane'.pc = "idle"
        \/ /\ lane'.kind = lane.kind /\ lane'.gen = lane.gen /\ lane'.prior = lane.prior
           /\ lane'.pc = "mark"
    BY <2>1, <1>e, <1>g DEF LanePC
  <2> QED BY <1>16, <2>2, <2>3, <1>v DEF TriggerPolls
<1>17. ASSUME TriggerMarks PROVE LeaseInv'
  <2>1. /\ lane'.pc = "dispatch" /\ lane'.kind = lane.kind
        /\ lane'.gen = lane.gen /\ lane'.prior = lane.prior
    BY <1>17, <1>g DEF TriggerMarks, LanePC
  <2> QED BY <1>17, <2>1, <1>v DEF TriggerMarks, Retired
<1>18. ASSUME TriggerDispatches PROVE LeaseInv'
  <2>1. \A c \in Client : lease'[c] = lease[c]
    BY <1>18, <1>t, <1>n DEF TriggerDispatches
  <2> QED BY <1>18, <2>1, <1>e, <1>v DEF TriggerDispatches
<1>19. ASSUME NEW g \in Gen, recoverStartingRuntimeInstances(g) PROVE LeaseInv'
  <2>1. /\ jobs' \subseteq jobs \cup {EnsureJob(g)} /\ inst[g] = "starting"
        /\ UNCHANGED <<depVars, proc, instVars, clientVars, lane, sweepVars, hookVars>>
    BY <1>19 DEF recoverStartingRuntimeInstances, enqueueDeploymentActivation
  <2>2. g \in 1..latest
    BY <2>1, <1>i, <1>t DEF NewestLives, Live
  <2>3. GensKnown'
    BY <2>1, <2>2, <1>i DEF GensKnown, EnsureJob
  <2>4. Quiet'
    BY <2>1, <1>i DEF Quiet, EnsureJob, Starters
  <2> QED BY <2>1, <2>3, <2>4, <1>r, <1>s, <1>l DEF LeaseInv
<1>20. ASSUME ReaperClaims PROVE LeaseInv'
  <2>1. UNCHANGED <<dep, artifacts, jobs, lane, reconciler, orphan, endpoint, latest,
                    proc, hooks, lease, cpc, cgen>>
    BY <1>20 DEF ReaperClaims
  <2>2. PICK claimed \in SUBSET Gen :
           /\ \A g \in claimed : inst[g] = "draining" \/ (inst[g] = "ready" /\ Unleased)
           /\ \A g \in Gen : inst[g] = "draining" => g \in claimed
           /\ inst' = [g \in Gen |-> IF g \in claimed THEN "draining" ELSE inst[g]]
           /\ reaper' = [pc |-> "next", todo |-> claimed, gen |-> 0]
    <3>1. PICK idle \in SUBSET IdleCandidates :
             LET claimed == idle \cup {g \in Gen : inst[g] = "draining"}
             IN  /\ inst' = [g \in Gen |-> IF g \in claimed THEN "draining" ELSE inst[g]]
                 /\ reaper' = [pc |-> "next", todo |-> claimed, gen |-> 0]
      BY <1>20 DEF ReaperClaims
    <3> DEFINE claimed == idle \cup {g \in Gen : inst[g] = "draining"}
    <3>2. \A g \in claimed : inst[g] = "draining" \/ (inst[g] = "ready" /\ Unleased)
      <4>1. \A g \in idle : inst[g] = "ready" /\ Unleased
        BY DEF IdleCandidates, ActiveLeases, Unleased
      <4> QED BY <4>1
    <3>3. claimed \in SUBSET Gen /\ \A g \in Gen : inst[g] = "draining" => g \in claimed
      BY DEF IdleCandidates
    <3> HIDE DEF claimed
    <3> QED BY <3>1, <3>2, <3>3 DEF claimed
  <2>3. /\ \A g \in Gen : inst'[g] = inst[g] \/ (inst[g] = "ready" /\ inst'[g] = "draining")
        /\ \A g \in Gen : inst'[g] # inst[g] => Unleased
    <3> SUFFICES ASSUME NEW g \in Gen
                 PROVE  \/ inst'[g] = inst[g]
                        \/ inst[g] = "ready" /\ inst'[g] = "draining" /\ Unleased
      OBVIOUS
    <3>1. inst'[g] = IF g \in claimed THEN "draining" ELSE inst[g]
      BY <2>2
    <3>2. g \in claimed => inst[g] = "draining" \/ (inst[g] = "ready" /\ Unleased)
      BY <2>2
    <3> QED BY <3>1, <3>2
  <2>4. LaneStarts'
    BY <2>1, <2>3, <1>i DEF LaneStarts, StarterHolds, At
  <2>5. HooksKnown' /\ NewestLives'
    BY <2>1, <2>3, <1>i DEF HooksKnown, NewestLives, Live
  <2>6. Serves'
    BY <1>20, <2>1, <2>2, <2>3, <1>i DEF ReaperClaims, NoSweep, Serves
  <2>7. SweepDrains'
    <3>1. \A g \in claimed : inst'[g] = "draining"
      BY <2>2
    <3>2. reaper'.pc = "next" /\ reaper'.todo = claimed
      BY <2>2
    <3>3. reaper' \in [pc : SweepPC, todo : SUBSET Gen, gen : 0..MaxGen]
      BY <2>2, <1>t DEF SweepPC
    <3> QED BY <3>1, <3>2, <3>3 DEF SweepDrains, Sweeping
  <2>8. Undrained'
    BY <2>1, <2>3, <1>i, <1>n DEF Undrained, GensKnown, Unleased
  <2>9. Served'
    BY <2>1, <1>i DEF Served
  <2> QED BY <2>1, <2>4, <2>5, <2>6, <2>7, <2>8, <2>9, <1>w, <1>k DEF LeaseInv
\* The steps of a sweep that look, and those that write.
<1>21. ASSUME ReaperNext \/ ReaperChecks \/ ReaperConfirms \/ ReaperSettles PROVE LeaseInv'
  <2>1. /\ UNCHANGED <<artifacts, jobs, lane, reconciler, orphan, inst, endpoint, latest,
                       proc, hooks, lease, cpc, cgen>>
        /\ dep' = dep \/ dep' \notin Retired
    BY <1>21 DEF ReaperNext, ReaperChecks, ReaperConfirms, ReaperSettles,
       transitionDeploymentStatus, Retired
  <2>2. SweepDrains' /\ (reaper.pc = "stopped" => reaper'.pc = "stopped")
    <3>a. /\ reaper \in [pc : SweepPC, todo : SUBSET Gen, gen : 0..MaxGen] /\ inst' = inst
          /\ \A g \in reaper.todo : inst[g] = "draining"
      BY <2>1, <1>i DEF SweepDrains
    <3>1. CASE ReaperNext
      <4>1. CASE reaper' = NoSweep
        BY <3>1, <3>a, <4>1, <1>t DEF ReaperNext, NoSweep, SweepDrains, SweepPC, Sweeping
      <4>2. CASE reaper' # NoSweep
        <5>1. PICK g \in reaper.todo :
                 reaper' = [pc |-> "leases", todo |-> reaper.todo \ {g}, gen |-> g]
          BY <3>1, <4>2 DEF ReaperNext
        <5> QED BY <3>1, <3>a, <5>1, <1>t DEF ReaperNext, SweepDrains, SweepPC, Sweeping
      <4> QED BY <4>1, <4>2
    <3>2. CASE ReaperChecks
      BY <3>2, <3>a, <1>i DEF ReaperChecks, ReaperAt, ReaperGoto, SweepDrains, SweepPC, Sweeping
    <3>3. CASE ReaperConfirms
      BY <3>3, <3>a, <1>i DEF ReaperConfirms, ReaperAt, ReaperGoto, SweepDrains, SweepPC,
         Sweeping
    <3>4. CASE ReaperSettles
      BY <3>4, <3>a, <1>i DEF ReaperSettles, ReaperGoto, SweepDrains, SweepPC, Sweeping
    <3> QED BY <1>21, <3>1, <3>2, <3>3, <3>4
  <2>3. Quiet'
    BY <2>1, <1>i DEF Quiet
  <2>4. HooksKnown' /\ NewestLives'
    BY <2>1, <1>i DEF HooksKnown, NewestLives
  <2>5. Serves'
    BY <2>1, <2>2, <1>i DEF Serves
  <2> QED BY <2>1, <2>2, <2>3, <2>4, <2>5, <1>k, <1>l, <1>s DEF LeaseInv
<1>22. ASSUME ReaperRestores PROVE LeaseInv'
  <2>1. /\ reaper.gen \in Gen \ reaper.todo /\ inst[reaper.gen] = "draining"
        /\ reaper.pc = "restore" /\ reaper.gen = latest
    BY <1>22, <1>i DEF ReaperRestores, ReaperAt, SweepDrains, Sweeping, NewestLives, Live
  <2>2. PortFree(reaper.gen, endpoint[reaper.gen])
    BY <2>1, <1>i DEF PortFree, NewestLives
  <2>3. /\ inst' = [inst EXCEPT ![reaper.gen] = "ready"] /\ ReaperGoto("next")
        /\ UNCHANGED <<dep, artifacts, jobs, lane, reconciler, orphan, endpoint, latest,
                       proc, hooks, lease, cpc, cgen>>
    BY <1>22, <2>2 DEF ReaperRestores
  <2>4. LaneStarts'
    BY <2>1, <2>3, <1>i, <1>t DEF LaneStarts, StarterHolds, At
  <2>5. HooksKnown' /\ NewestLives' /\ Undrained'
    BY <2>1, <2>3, <1>i, <1>t DEF HooksKnown, NewestLives, Undrained
  <2>6. Serves'
    BY <2>1, <2>3, <1>i, <1>t DEF Serves
  <2>7. SweepDrains'
    BY <2>1, <2>3, <1>i, <1>t DEF SweepDrains, ReaperGoto, SweepPC, Sweeping
  <2>8. Served'
    BY <2>3, <1>i DEF Served
  <2> QED BY <2>3, <2>4, <2>5, <2>6, <2>7, <2>8, <1>w, <1>k DEF LeaseInv
<1>23. ASSUME ReaperStops PROVE LeaseInv'
  <2>1. /\ reaper.gen \in Gen \ reaper.todo /\ inst[reaper.gen] = "draining"
        /\ reaper.pc = "stop" /\ reaper.gen = latest
    BY <1>23, <1>i DEF ReaperStops, ReaperAt, SweepDrains, Sweeping, NewestLives, Live
  <2>2. /\ ReaperGoto("stopped")
        /\ UNCHANGED <<dep, artifacts, jobs, lane, reconciler, orphan, inst, endpoint, latest,
                       hooks, lease, cpc, cgen>>
    BY <1>23, <1>f DEF ReaperStops
  <2>3. \A c \in Client : cpc[c] # "active"
    BY <2>1, <1>i DEF Undrained, Waiting
  <2>4. LaneStarts'
    BY <2>1, <2>2, <1>p, <1>i DEF LaneStarts, StarterHolds, At
  <2>5. HooksKnown' /\ NewestLives' /\ Undrained'
    BY <2>2, <1>i DEF HooksKnown, NewestLives, Undrained
  <2>6. SweepDrains' /\ reaper'.pc = "stopped"
    BY <2>1, <2>2, <1>i DEF SweepDrains, ReaperGoto, SweepPC, Sweeping
  <2>7. Serves'
    BY <2>1, <2>2, <2>6, <1>i DEF Serves, NewestLives, Live
  <2>8. Served'
    BY <2>2, <2>3, <1>i DEF Served
  <2> QED BY <2>2, <2>4, <2>5, <2>6, <2>7, <2>8, <1>w, <1>k DEF LeaseInv
<1>24. ASSUME ReaperReports PROVE LeaseInv'
  <2>1. /\ reaper.gen \in Gen \ reaper.todo /\ inst[reaper.gen] = "draining"
        /\ reaper.pc = "stopped" /\ reaper.gen = latest
    BY <1>24, <1>i DEF ReaperReports, SweepDrains, SweepPC, Sweeping, NewestLives, Live
  <2>2. /\ inst' = [inst EXCEPT ![reaper.gen] = "stopped"]
        /\ reaper' = [reaper EXCEPT !.pc = "settle"]
        /\ UNCHANGED <<dep, artifacts, jobs, lane, reconciler, orphan, endpoint, latest,
                       proc, hooks, lease, cpc, cgen>>
    BY <1>24, <2>1 DEF ReaperReports
  <2>3. LaneStarts'
    BY <2>1, <2>2, <1>i, <1>t DEF LaneStarts, StarterHolds, At
  <2>4. HooksKnown' /\ NewestLives' /\ Undrained'
    BY <2>1, <2>2, <1>i, <1>t DEF HooksKnown, NewestLives, Undrained, Live
  <2>5. Serves'
    BY <2>1, <2>2, <1>i, <1>t DEF Serves, NewestLives, Live
  <2>6. SweepDrains'
    BY <2>1, <2>2, <1>i, <1>t DEF SweepDrains, SweepPC, Sweeping
  <2>7. Served'
    BY <2>2, <1>i DEF Served
  <2> QED BY <2>2, <2>3, <2>4, <2>5, <2>6, <2>7, <1>w, <1>k DEF LeaseInv
<1>25. ASSUME EnqueueTrigger PROVE LeaseInv'
  <2>1. /\ jobs' = jobs \cup {[kind |-> "trigger", gen |-> 0]}
        /\ UNCHANGED <<depVars, proc, instVars, clientVars, lane, sweepVars, hookVars>>
    BY <1>25 DEF EnqueueTrigger, enqueueJob
  <2>2. Quiet'
    BY <2>1, <1>i DEF Quiet, Starters
  <2>3. GensKnown'
    BY <2>1, <1>i DEF GensKnown
  <2> QED BY <2>1, <2>2, <2>3, <1>r, <1>s, <1>l DEF LeaseInv
<1>26. ASSUME \/ DrainReads \/ DrainWrites \/ PromoteReads \/ PromoteCommits \/ Unroute
       PROVE  LeaseInv'
  <2>1. /\ UNCHANGED <<artifacts, proc, instVars, clientVars, jobs, lane, sweepVars, hookVars>>
        /\ dep' = dep \/ dep' \notin Retired
    BY <1>26 DEF DrainReads, DrainWrites, PromoteReads, PromoteCommits, Unroute, Retired
  <2>2. Quiet'
    BY <2>1, <1>i DEF Quiet
  <2> QED BY <2>1, <2>2, <1>r, <1>s, <1>k, <1>l DEF LeaseInv
\* onFailure writes over what the instance has become.
<1>27. ASSUME NEW g \in Gen, FailureHook(g) PROVE overruled' \/ LeaseInv'
  <2>1. CASE inst[g] = "draining"
    BY <1>27, <2>1 DEF FailureHook
  <2>2. CASE inst[g] # "draining"
    <3>1. /\ inst' = [inst EXCEPT ![g] = "failed"] /\ hooks' = [hooks EXCEPT ![g] = @ - 1]
          /\ hooks[g] > 0 /\ inst[g] # "starting"
          /\ UNCHANGED <<dep, artifacts, jobs, lane, reconciler, orphan, endpoint, latest,
                         proc, lease, cpc, cgen, reaper>>
      BY <1>27, <1>i DEF FailureHook, HooksKnown
    <3>2. LaneStarts'
      BY <3>1, <1>i, <1>t DEF LaneStarts, StarterHolds, At
    <3>3. HooksKnown'
      BY <3>1, <1>i, <1>t DEF HooksKnown
    <3>4. NewestLives' /\ Serves' /\ Undrained'
      BY <3>1, <1>i, <1>t DEF NewestLives, Serves, Undrained, Live
    <3>5. SweepDrains'
      BY <2>2, <3>1, <1>i, <1>t DEF SweepDrains
    <3>6. Served'
      BY <3>1, <1>i DEF Served
    <3> QED BY <3>1, <3>2, <3>3, <3>4, <3>5, <3>6, <1>w, <1>k DEF LeaseInv
  <2> QED BY <2>1, <2>2
\* Nothing to reconcile, and no restart, archive, orphan, fault or crash.
<1>28. ASSUME NEW g \in Gen, ReconcilerInspects(g) PROVE FALSE
  BY <1>28, <1>f, <1>i DEF ReconcilerInspects, Serves
<1>29. ASSUME \/ RestartSteps \/ ArchiveSteps \/ ReconcilerStep \/ OrphanStep
       PROVE  FALSE
  BY <1>29, <1>i DEF RestartSteps, ArchiveSteps, ReconcilerStep, OrphanStep, RestartChecks,
     RestartStops, RestartRetires, RestartStarts, RestartSettles, ArchiveReads,
     ArchiveClaims, ArchiveRetains, ArchiveStops, ArchiveRemoves, ArchiveFinishes,
     ArchiveReverts, ReconcilerRechecks, ReconcilerWrites, ReconcilerSettles,
     adoptRuntimeInstance, OrphanStops, At, Quiet, Starters, Archives, NoCheck
<1>30. ASSUME \/ \E c \in Client : RequestDies(c)
              \/ EnsureThrows \/ OrphanReads \/ EnqueueRestart \/ EnqueueArchive
              \/ ProcessDies \/ WorkerCrash
       PROVE  FALSE
  BY <1>30, <1>f DEF RequestDies, EnsureThrows, OrphanReads, EnqueueRestart,
     EnqueueArchive, enqueueJob, ProcessDies, WorkerCrash
<1>31. CASE UNCHANGED vars
  BY <1>31, <1>r, <1>s, <1>w, <1>k, <1>l DEF vars, LeaseInv
<1> QED
  BY <1>1, <1>2, <1>3, <1>4, <1>5, <1>6, <1>7, <1>8, <1>9, <1>10, <1>11, <1>12, <1>13,
     <1>14, <1>15, <1>16, <1>17, <1>18, <1>19, <1>20, <1>21, <1>22, <1>23, <1>24, <1>25, <1>26,
     <1>27, <1>28, <1>29, <1>30, <1>31
  DEF Next, Request, LaneStep, StartSteps, EnsureSteps, TriggerSteps, ReaperStep, OperatorStep

\* Nothing takes the history back.
LEMMA OverruledStays == overruled /\ [Next]_vars => overruled'
<1> SUFFICES ASSUME overruled, [Next]_vars PROVE overruled'
  OBVIOUS
<1> USE DEF hookVars
<1>1. ASSUME NEW c \in Client, Request(c) \/ RequestDies(c) PROVE overruled'
  BY <1>1 DEF Request, RequestChecks, RequestAcquires, RequestGivesUp,
     RequestEnqueues, RequestGranted, RequestFails, RequestReleases, RequestDies
<1>2. ASSUME NEW o \in Owner, LeaseExpires(o) PROVE overruled'
  BY <1>2 DEF LeaseExpires
<1>3. ASSUME NEW j \in jobs, ClaimJob(j) PROVE overruled'
  BY <1>3 DEF ClaimJob
<1>4. ASSUME NEW g \in Gen,
             FailureHook(g) \/ recoverStartingRuntimeInstances(g) \/ ReconcilerInspects(g)
      PROVE  overruled'
  BY <1>4 DEF FailureHook, recoverStartingRuntimeInstances, ReconcilerInspects
<1>5. ASSUME StartSteps \/ EnsureSteps \/ EnsureThrows \/ TriggerSteps PROVE overruled'
  BY <1>5 DEF StartSteps, StartOpens, reserveRuntimeInstancePort, StartProcess,
     StartSettles, EnsureSteps, EnsureChecks, EnsureSettles, EnsureThrows, TriggerSteps,
     TriggerAcquires, TriggerGivesUp, TriggerGuards, TriggerPolls, TriggerMarks,
     TriggerDispatches
<1>6. ASSUME RestartSteps \/ ArchiveSteps PROVE overruled'
  BY <1>6 DEF RestartSteps, RestartChecks, RestartStops, RestartRetires, RestartStarts,
     RestartSettles, ArchiveSteps, ArchiveReads, ArchiveClaims, ArchiveRetains,
     ArchiveStops, ArchiveRemoves, ArchiveFinishes, ArchiveReverts
<1>7. ASSUME ReaperClaims \/ ReaperStep \/ ReconcilerStep PROVE overruled'
  BY <1>7 DEF ReaperClaims, ReaperStep, ReaperNext, ReaperChecks, ReaperRestores,
     ReaperConfirms, ReaperStops, ReaperReports, ReaperSettles, ReconcilerStep,
     ReconcilerRechecks, ReconcilerWrites, ReconcilerSettles
<1>8. ASSUME OrphanReads \/ OrphanStep \/ ProcessDies \/ WorkerCrash \/ UNCHANGED vars
      PROVE  overruled'
  BY <1>8 DEF OrphanReads, OrphanStep, adoptRuntimeInstance, OrphanStops, ProcessDies,
     WorkerCrash, vars
<1>9. ASSUME OperatorStep PROVE overruled'
  BY <1>9 DEF OperatorStep, EnqueueRestart, EnqueueTrigger, EnqueueArchive, DrainReads,
     DrainWrites, PromoteReads, PromoteCommits, Unroute
<1> QED BY <1>1, <1>2, <1>3, <1>4, <1>5, <1>6, <1>7, <1>8, <1>9 DEF Next, LaneStep

\* An activation lease keeps the idle reaper away (claimIdleRuntimeInstances and
\* its re-check): for any number of requests and prewarms and any order of schedule
\* runs, drains and route changes, a request is proxied to a process that goes on
\* listening where its instance says, though a stale ensure job's onFailure may fail
\* the instance's row under it; until one is written over a claimed instance.
THEOREM LeaseProtectsCorrect ==
    ASSUME Ops \subseteq Gentle
    PROVE  Spec => []LeaseProtects
<1> DEFINE Inv == IInv /\ (overruled \/ LeaseInv)
<1>1. Init => Inv
  BY IInvInit, LeaseInit
<1>2. Inv /\ [Next]_vars => Inv'
  BY IInvNext, LeaseNext, OverruledStays DEF IInv
<1>3. Inv => LeaseProtects
  BY DEF LeaseProtects, LeaseInv, Served
<1> QED BY <1>1, <1>2, <1>3, PTL DEF Spec
=============================================================================
