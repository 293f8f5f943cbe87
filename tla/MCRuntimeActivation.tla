------------------------ MODULE MCRuntimeActivation ------------------------
(***************************************************************************)
(* One Deployment with two ports, two requests and at most one prewarm.    *)
(* The budgets choose which operations and faults a run mixes.             *)
(***************************************************************************)
EXTENDS RuntimeActivation, TLC

CONSTANTS c1, c2, p1, p2

\* Requests are interchangeable.
Symmetry == Permutations(Client)
=============================================================================
