------------------------------- MODULE MCApi -------------------------------
(***************************************************************************)
(* Instances of Api for TLC; see the .cfg.                                 *)
(***************************************************************************)
EXTENDS Api
=============================================================================
