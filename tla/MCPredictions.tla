---------------------------- MODULE MCPredictions ----------------------------
(***************************************************************************)
(* Two clusters with a metric each, and two requests that overlap.         *)
(***************************************************************************)
EXTENDS Predictions, TLC

CONSTANTS cpu, disk, here, there

MCClusterOf == (cpu :> here) @@ (disk :> there)
Symmetry == Permutations(Request)
=============================================================================
