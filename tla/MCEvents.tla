------------------------------ MODULE MCEvents ------------------------------
(***************************************************************************)
(* Two browsers, two events, three user actions: enough for two browsers   *)
(* to resolve the same event and reload, and for one list to overtake      *)
(* another.                                                                *)
(***************************************************************************)
EXTENDS Events, TLC

Symmetry == Permutations(Browser)
=============================================================================
