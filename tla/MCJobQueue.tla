----------------------------- MODULE MCJobQueue -----------------------------
(***************************************************************************)
(* Small instances of JobQueue.                                            *)
(***************************************************************************)
EXTENDS JobQueue, TLC

CONSTANTS p1, p2, d1, d2, i1

SpecOf(type, d, i, valid) ==
    [type |-> type, project |-> p1, deployment |-> d, instance |-> i, valid |-> valid]

\* One spec per clause of the exclusion predicate.
ExclusionSpecs ==
    {SpecOf("import_source", None, None, TRUE), SpecOf("build_deploy", None, None, TRUE),
     SpecOf("restart_deployment", d1, None, TRUE), SpecOf("restart_deployment", None, None, TRUE),
     SpecOf("ensure_deployment_running", d1, i1, TRUE),
     SpecOf("archive_deployment", d2, None, TRUE),
     [SpecOf("build_deploy", None, None, TRUE) EXCEPT !.project = p2]}

\* The rows recovery and deletion fight over; one is an invalid row.
RecoverySpecs ==
    {SpecOf("build_deploy", None, None, TRUE), SpecOf("trigger_schedule", d1, None, FALSE)}

LivenessSpecs ==
    {SpecOf("build_deploy", None, None, TRUE), SpecOf("ensure_deployment_running", d1, i1, TRUE),
     SpecOf("archive_deployment", d1, None, TRUE), SpecOf("trigger_schedule", d1, None, FALSE)}

QueueSpecs == ExclusionSpecs \cup RecoverySpecs
Inserted(specs) == \A j \in 1..(nextJob' - 1) : spec'[j] \in specs

\* Two loops, every kind of job, nothing goes wrong.
ExclusionBounds ==
    /\ Inserted(ExclusionSpecs \cup {DeleteSpec(p) : p \in Project})
    /\ Cardinality({l \in Loop : phase'[l] # "idle"}) <= 2
    /\ crashes' = 0
    /\ \A j \in Job : lease'[j] # "stale"

\* Every loop, one project, leases that lapse and a crash.
RecoveryBounds ==
    /\ Inserted(RecoverySpecs \cup {DeleteSpec(p1)})
=============================================================================
