------------------------- MODULE MCConnectRequests -------------------------
(***************************************************************************)
(* Two connections of one application: the payment p1 of the first is asked*)
(* for again, as p2, on the second, with the same clientRequestId; the     *)
(* first asks for a signature as well, which waits behind its payment.     *)
(***************************************************************************)
EXTENDS ConnectRequests, TLC

CONSTANTS c1, c2, p1, p2, s1, k1

TwoConns == p1 :> c1 @@ p2 :> c2 @@ s1 :> c1
PaysAndSign == p1 :> "pay" @@ p2 :> "pay" @@ s1 :> "sign"
OneKey == p1 :> k1 @@ p2 :> k1 @@ s1 :> k1
=============================================================================
