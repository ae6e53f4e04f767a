--------------------------- MODULE MCBitfsFunding ---------------------------
(* One purchase: the open command is run up to three times, the Worker     *)
(* crashes or is locked up to twice.                                       *)
EXTENDS BitfsFunding
=============================================================================
