----------------------------- MODULE MCPlatform -----------------------------
(***************************************************************************)
(* Instances of components that share no row with each other, in one state *)
(* space: `part' says which of them moves.                                 *)
(***************************************************************************)
EXTENDS WorkflowDispatch, AgentAuth, TLC

CONSTANTS h1, p1, p2, a1, a2

VARIABLE part

MCRunOn == [r \in Run |-> h1]

\* The dispatcher's processes are interchangeable; an API process and the request it
\* serves trade places with the other pair.
MCSymmetry ==
    Permutations(Instance)
    \cup {p1 :> p1 @@ p2 :> p2 @@ a1 :> a1 @@ a2 :> a2,
          p1 :> p2 @@ p2 :> p1 @@ a1 :> a2 @@ a2 :> a1}

MCInit ==
    /\ part \in {"dispatch", "auth", "again"}
    /\ DispatchInit /\ AuthInit
    /\ servedBy = a1 :> p1 @@ a2 :> p2

\* "auth": one refresh is granted, and at most one of: a second login, a mishap, a
\* connection changed after the login, a refresh whose answer is discarded.  The
\* second login's token is to be verified and can be refreshed.
\* "again": one login, whose token is refreshed twice over.
AuthBounds ==
    /\ part = "auth" =>
          /\ logins' + mishaps' + revision' + Cardinality(spent') <= 3
          /\ revision' <= logins' + 1
          /\ logins' = 2 /\ login'.row # NoRow => login'.row.refreshable /\ login'.row.pending
          /\ \A f \in Api \X SecurityRevision :
                refresh'[f].at = "complete" => refresh'[f].seq = 0
    /\ part = "again" =>
          /\ logins' <= 1 /\ revision' = 1 /\ mishaps' = 0 /\ Cardinality(spent') <= 1

MCNext ==
    /\ UNCHANGED part
    /\ \/ part = "dispatch" /\ DispatchNext /\ UNCHANGED authVars
       \/ part # "dispatch" /\ AuthNext /\ AuthBounds /\ UNCHANGED dispatchVars

MCSpec == MCInit /\ [][MCNext]_<<part, dispatchVars, authVars>>
=============================================================================
