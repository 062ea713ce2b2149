---------------------------- MODULE MCDashboard ----------------------------
(***************************************************************************)
(* Two pages of a cluster and the settings, two clusters; see the .cfg     *)
(* files for the tabs and what their users may do.                         *)
(***************************************************************************)
EXTENDS Dashboard
=============================================================================
