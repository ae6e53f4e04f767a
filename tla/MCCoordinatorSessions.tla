------------------------ MODULE MCCoordinatorSessions ------------------------
(***************************************************************************)
(* CoordinatorSessions for TLC: two pages, of which one opens twice.       *)
(***************************************************************************)
EXTENDS CoordinatorSessions

CONSTANTS p1, p2

OpensOfPages == [p \in Peers |-> IF p = p1 THEN 2 ELSE 1]
=============================================================================
