------------------------------ MODULE MCReports ------------------------------
(***************************************************************************)
(* Two pods and two generations at once of the reports of one day for two  *)
(* clusters, the name of one a prefix of the other's, and data that        *)
(* changes once.                                                           *)
(***************************************************************************)
EXTENDS Reports, TLC

CONSTANTS prod, prod2

MCReport == {prod, prod2}
MCMatches == (prod :> {prod, prod2}) @@ (prod2 :> {prod2})
Symmetry == Permutations(Pod) \cup Permutations(Request)
=============================================================================
