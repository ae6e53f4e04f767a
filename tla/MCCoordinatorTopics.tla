------------------------- MODULE MCCoordinatorTopics -------------------------
(***************************************************************************)
(* CoordinatorTopics for TLC.                                              *)
(***************************************************************************)
EXTENDS CoordinatorTopics
=============================================================================
