-------------------------- MODULE MCBackgroundTasks --------------------------
(***************************************************************************)
(* BackgroundTasks for TLC.                                                *)
(***************************************************************************)
EXTENDS BackgroundTasks
=============================================================================
