--------------------------- MODULE MCBitfsPayments ---------------------------
(* One pool: two requests, and one connection lost with frames in flight   *)
(* or one crash of either side.                                            *)
EXTENDS BitfsPayments
=============================================================================
