----------------------------- MODULE MCGateway ------------------------------
(***************************************************************************)
(* Small instances of Gateway.                                             *)
(***************************************************************************)
EXTENDS Gateway, TLC

\* Deployments and the slots requests run in are interchangeable.
MCSymmetry == Permutations(Deployment) \cup Permutations(Request)
=============================================================================
