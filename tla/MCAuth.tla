------------------------------- MODULE MCAuth -------------------------------
(***************************************************************************)
(* Two replicas, two requests at once, two sessions; one user exists and   *)
(* one does not.  The clock runs one step past a session's life.           *)
(***************************************************************************)
EXTENDS Auth, TLC

Symmetry == Permutations(Replica) \cup Permutations(Request)
=============================================================================
