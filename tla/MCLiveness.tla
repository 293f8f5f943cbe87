----------------------------- MODULE MCLiveness -----------------------------
(***************************************************************************)
(* What must eventually happen in the planner, in the life of a            *)
(* ScheduleRun, in the Gateway and in the workflow dispatcher, on          *)
(* instances without symmetry.  `part' says which of them moves: they      *)
(* share no row here.                                                      *)
(***************************************************************************)
EXTENDS SchedulePlanner, ScheduleRuns, Gateway, WorkflowDispatch, TLC

CONSTANTS k1, k2, d1, d2, r1, r2, h1, i1, i2

VARIABLE part

MCRevisionOf == d1 :> r1 @@ d2 :> r2
MCCron == <<k1, r1>> :> {1, 2, 4, 6, 7} @@ <<k1, r2>> :> {2, 3, 5, 6, 7}
          @@ <<k2, r1>> :> {1, 3}

MCRunOn == [r \in Run |-> h1]

allVars == <<planVars, runVars, gatewayVars, dispatchVars>>

MCInit ==
    /\ part \in {"planner", "run", "gateway", "dispatch", "orphans"}
    /\ PlanInit /\ RunInit /\ GatewayInit /\ DispatchInit
    /\ policy.targets = {d1}

\* "dispatch": restarts and faults of the dispatcher, one at a time.  "orphans":
\* one dispatcher that serves undisturbed, and what can happen to a Deployment.
DispatchBounds ==
    /\ part = "dispatch" => turns' <= 1
    /\ part = "orphans" =>
          /\ inst'[i2] = "off" /\ inst'[i1] \notin {"stopping", "gone"} /\ anonymous' = {}
          /\ owner # NoInstance => owner' = owner
          /\ supported' = Host
InDispatch(A) == part \in {"dispatch", "orphans"} /\ A /\ DispatchBounds

MCNext ==
    /\ UNCHANGED part
    /\ \/ part = "planner" /\ PlanNext
          /\ UNCHANGED <<runVars, gatewayVars, dispatchVars>>
       \/ part = "run" /\ RunNext
          /\ UNCHANGED <<planVars, gatewayVars, dispatchVars>>
       \/ part = "gateway" /\ GatewayNext
          /\ UNCHANGED <<planVars, runVars, dispatchVars>>
       \/ InDispatch(DispatchNext)
          /\ UNCHANGED <<planVars, runVars, gatewayVars>>

\* The fairness of each component's specification, for the part that moves and
\* within its bounds.
MCFairness ==
    /\ WF_planVars(part = "planner" /\ PlanDueSchedules)
    /\ WF_planVars(part = "planner" /\ ApplySchedulerTarget)
    /\ \A w \in Delivery :
          /\ WF_runVars(part = "run" /\ WorkerStep(w))
          /\ WF_runVars(part = "run" /\ ChannelStep(w))
    /\ \A c \in Consumer : WF_runVars(part = "run" /\ (IngestReads(c) \/ IngestCommits(c)))
    /\ WF_runVars(part = "run" /\ FailExpiredScheduleExecutions)
    /\ WF_runVars(part = "run" /\ FailsSelected)
    /\ WF_runVars(part = "run" /\ LeaseExpires)
    /\ \A r \in Request :
          /\ WF_gatewayVars(part = "gateway" /\ RequestStep(r))
          /\ WF_gatewayVars(part = "gateway" /\ LeaseLapses(r))
    /\ WF_gatewayVars(part = "gateway" /\ CacheExpires)
    /\ \A i \in Instance :
          /\ WF_dispatchVars(InDispatch(ProcessStep(i)))
          /\ WF_dispatchVars(InDispatch(Heartbeat(i)))
    /\ WF_dispatchVars(InDispatch(DeadSessionEnds))
    /\ WF_dispatchVars(InDispatch(SweepStep))

MCSpec == MCInit /\ [][MCNext]_<<part, allVars>> /\ MCFairness
=============================================================================
