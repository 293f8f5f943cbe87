----------------------------- MODULE MCSchedules ----------------------------
(***************************************************************************)
(* The planner and the life of a run, side by side: `half' says which of   *)
(* the two moves.  They share no row, so nothing is lost by not            *)
(* interleaving them.                                                      *)
(***************************************************************************)
EXTENDS SchedulePlanner, ScheduleRuns, TLC

CONSTANTS k1, k2, d1, d2, r1, r2

VARIABLE half

MCRevisionOf == d1 :> r1 @@ d2 :> r2
\* k1 is in both revisions with instants of its own, k2 only in the first.
MCCron == <<k1, r1>> :> {1, 2, 4, 6, 7} @@ <<k1, r2>> :> {2, 3, 5, 6, 7}
          @@ <<k2, r1>> :> {1, 3, 4}

MCInit == half \in {"planner", "run"} /\ PlanInit /\ RunInit
MCNext ==
    /\ UNCHANGED half
    /\ \/ half = "planner" /\ PlanNext /\ UNCHANGED runVars
       \/ half = "run" /\ RunNext /\ UNCHANGED planVars
MCSpec == MCInit /\ [][MCNext]_<<half, planVars, runVars>>

\* Sessions and ingest transactions are interchangeable.
MCSymmetry == Permutations(Session) \cup Permutations(Consumer)
=============================================================================
