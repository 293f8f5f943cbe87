------------------------------- MODULE MCJobs -------------------------------
(***************************************************************************)
(* The queue by itself, and what its import and deploy jobs do, in one     *)
(* state space: `part' says which of them moves, and within which bounds.  *)
(***************************************************************************)
EXTENDS MCJobQueue, BuildDeploy

VARIABLE part

\* The pump's loops are interchangeable.
LoopSymmetry == Permutations(Loop)

MCInit ==
    /\ part \in {"exclusion", "recovery", "deploy"}
    /\ Init /\ DeployInit
    /\ part # "deploy" => source = NoRevision

QueueBounds ==
    /\ part = "exclusion" => ExclusionBounds
    /\ part = "recovery" => RecoveryBounds

\* Three requests, or two and a mishap, or one and two mishaps; two attempts side by
\* side; and a user says replaceHotfix only in a drift.
DeployBounds ==
    /\ queued' + mishaps' <= 3
    /\ Cardinality({a \in Try : Alive(a)'}) <= 2
    /\ \A j \in JobId :
          rows'[j].confirmed => rows[j].confirmed \/ rows'[j].parent # NoId \/ Drift

MCNext ==
    /\ UNCHANGED part
    /\ \/ part # "deploy" /\ Next /\ QueueBounds /\ UNCHANGED deployVars
       \/ part = "deploy" /\ DeployNext /\ DeployBounds /\ UNCHANGED vars

MCSpec == MCInit /\ [][MCNext]_<<part, vars, deployVars>>
=============================================================================
