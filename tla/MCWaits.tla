------------------------------ MODULE MCWaits -------------------------------
(***************************************************************************)
(* What waits inside one process for another step to wake it: the job      *)
(* pump's loops, and the requests that wait for a token's refresh.  `part' *)
(* says which of them moves: they share nothing.                           *)
(*                                                                         *)
(* Two loops are enough for one to wait on the other's claim, two items    *)
(* for one to be held back while the other runs.                           *)
(***************************************************************************)
EXTENDS JobPump, AgentAuth, TLC

CONSTANTS i1, i2, p1, p2, a1, a2

VARIABLE part

MCConflict == {<<i1, i2>>, <<i2, i1>>}

MCInit ==
    /\ part \in {"pump", "auth", "again"}
    /\ Init /\ AuthInit
    /\ servedBy \in {a1 :> p1 @@ a2 :> p1, a1 :> p1 @@ a2 :> p2}
    /\ part # "auth" => servedBy[a2] = p1

GrantsOnlyFirst ==
    \A f \in Api \X SecurityRevision : refresh'[f].at = "complete" => refresh'[f].seq = 0

\* "auth": the two requests meet in one process, which may crash or lose a
\* refresh's answer, or each has its own; one refresh is granted.  "again": one
\* request, whose token is refreshed several times over.
AuthBounds ==
    /\ part = "auth" =>
          /\ GrantsOnlyFirst
          /\ mishaps' + Cardinality(spent') <= (IF servedBy[a2] = p1 THEN 1 ELSE 0)
    /\ part = "again" => call'[a2] = NoCall /\ mishaps' = 0 /\ spent' = {}
InAuth(A) == part \in {"auth", "again"} /\ A /\ AuthBounds

MCNext ==
    /\ UNCHANGED part
    /\ \/ part = "pump" /\ Next /\ UNCHANGED authVars
       \/ InAuth(AuthNext) /\ UNCHANGED vars

\* The fairness of each component's specification, for the part that moves and
\* within its bounds.
MCFairness ==
    /\ \A l \in Loop : WF_vars(part = "pump" /\ LoopStep(l))
    /\ \A c \in Call : WF_authVars(InAuth(CallStep(c)))
    /\ \A f \in Api \X SecurityRevision : WF_authVars(InAuth(RefreshStep(f)))
    /\ \A rev \in SecurityRevision : WF_authVars(InAuth(AbandonedLeaseRunsOut(rev)))

MCSpec == MCInit /\ [][MCNext]_<<part, vars, authVars>> /\ MCFairness
=============================================================================
